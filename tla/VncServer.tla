------------------------------ MODULE VncServer ------------------------------
(***************************************************************************)
(* honeypots/vnc_server.py: CustomVNCProtocol.  The chunks "version" and   *)
(* "security" are the two messages the handshake waits for; every other    *)
(* chunk is the DES response to the challenge for some password.           *)
(***************************************************************************)
EXTENDS Connections

CONSTANTS
    Words,      \* self.words: a sequence of passwords
    Encode      \* the response for a password: a function (only 8 characters count)

VARIABLE state

vncVars == <<tcpVars, state>>

TypeOK ==
    /\ ConnectionsTypeOK
    /\ state \in [Conns -> 0 .. 3]
    /\ \A c \in Conns : Captured(c) # <<>> => state[c] \in {0, 3} /\ link[c] \in {"closing", "lost"}

Init == ConnectionsInit /\ state = [c \in Conns |-> 0]

\* known_passwords: a dict comprehension, in which the last word of several with the
\* same response stays; self.password comes last.
Candidates == Append(Words, Configured[2])
Matches(response) == {i \in DOMAIN Candidates : Encode[Candidates[i]] = response}
IsKnown(response) == Matches(response) # {}
KnownPassword(response) == Candidates[Latest(Matches(response))]

\* MUTANT of Decode: the first word wins.
DecodeFirst(response) ==
    IF IsKnown(response) THEN Candidates[Earliest(Matches(response))] ELSE "None"

\* check_bytes(decode(data)): check_bytes makes the string "None" of None, so that
\* "DES:..." is never logged.
Decode(response) == IF IsKnown(response) THEN KnownPassword(response) ELSE "None"

ConnectionMade(c) == Accept(c) /\ state' = [state EXCEPT ![c] = 1]

\* A message the state does not wait for is ignored; the peer may try again.
Expected(c) == [n \in 1 .. 2 |-> IF n = 1 THEN "version" ELSE "security"][state[c]]

Handshake(c, chunk) ==
    /\ state[c] \in {1, 2} /\ Received(c, chunk)
    /\ state' = [state EXCEPT ![c] = IF chunk = Expected(c) THEN @ + 1 ELSE @]
    /\ UNCHANGED <<link, events>>

HandleLogin(c, chunk) ==
    /\ state[c] = 3 /\ Received(c, chunk)
    /\ Log(c, LoginEvent("", Decode(chunk), Decode(chunk) = Configured[2]))
    /\ LoseConnection(c)
    /\ UNCHANGED state

Lost(c) == ConnectionLost(c) /\ state' = [state EXCEPT ![c] = 0]

Next == \E c \in Conns :
    \/ ConnectionMade(c) \/ Lost(c)
    \/ \E chunk \in Chunks : Handshake(c, chunk) \/ HandleLogin(c, chunk)

-------------------------------------------------------------------------------
(* Properties *)

\* What was read of a peer is a challenge response once both messages were there, in
\* their order, each perhaps after others.
Answering(c) ==
    {i \in DOMAIN read[c] :
        \E v, s \in 1 .. i - 1 : v < s /\ read[c][v] = "version" /\ read[c][s] = "security"}

\* A password stands for the response it would have given, and one that is not known
\* for all unknown responses.
Response(p) == IF \E i \in DOMAIN Candidates : Candidates[i] = p THEN Encode[p] ELSE "unknown"
Stands(r) == IF IsKnown(r) THEN r ELSE Response("None")
Offered(c) == {<<"", Stands(read[c][i])>> : i \in Answering(c)}
Shown(c) == [i \in DOMAIN Captured(c) |-> <<Captured(c)[i][1], Response(Captured(c)[i][2])>>]

\* The login succeeds exactly for the response to the configured password, also if
\* one of the words has the same response; if that password is "None", for every unknown
\* response, too (vnc_server.py:28, 79-82).
SuccessIsConfigured ==
    \A c \in Conns : \A i \in DOMAIN Logins(c) :
        LET response == read[c][Len(read[c])]
        IN  Logins(c)[i].status = "success" <=>
              \/ response = Encode[Configured[2]]
              \/ Configured[2] = "None" /\ ~IsKnown(response)
===============================================================================
