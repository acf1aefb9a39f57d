---------------------------- MODULE PostgresServer ----------------------------
(***************************************************************************)
(* honeypots/postgres_server.py: CustomPostgresProtocol.  Every chunk is   *)
(* taken for the message the state expects.  Chunks:                       *)
(*   [kind |-> "ssl"]                       SSLRequest                     *)
(*   [kind |-> "startup", user |-> u]       StartupMessage, u may be NoUser*)
(*   [kind |-> "password", password |-> p]  PasswordMessage                *)
(*   [kind |-> "binary"]                    type "p", but not UTF-8        *)
(***************************************************************************)
EXTENDS Connections

CONSTANT NoUser

VARIABLES state,
          user    \* self._variables["user"]

postgresVars == <<tcpVars, state, user>>

TypeOK ==
    /\ ConnectionsTypeOK
    /\ state \in [Conns -> 0 .. 3]
    /\ \A c \in Conns : state[c] < 3 => user[c] = NoUser

Init ==
    /\ ConnectionsInit
    /\ state = [c \in Conns |-> 0]
    /\ user = [c \in Conns |-> NoUser]

ConnectionMade(c) ==
    /\ Accept(c)
    /\ state' = [state EXCEPT ![c] = 1]
    /\ user' = [user EXCEPT ![c] = NoUser]

\* Whatever comes first is answered as an SSLRequest.
EncryptionRefused(c, chunk) ==
    /\ state[c] = 1 /\ Received(c, chunk)
    /\ state' = [state EXCEPT ![c] = 2]
    /\ UNCHANGED <<link, events, user>>

\* read_data_custom: names and values, if the chunk is a startup message.
StartupUser(chunk) == IF chunk.kind = "startup" THEN chunk.user ELSE NoUser

StartupRead(c, chunk) ==
    /\ state[c] = 2 /\ Received(c, chunk) /\ chunk.kind # "binary"
    /\ user' = [user EXCEPT ![c] = StartupUser(chunk)]
    /\ state' = [state EXCEPT ![c] = 3]
    /\ UNCHANGED <<link, events>>

\* decode() raises; dataReceived does not return.
Undecodable(c, chunk) ==
    /\ Received(c, chunk) /\ chunk.kind = "binary"
    /\ state[c] = 2 \/ (state[c] = 3 /\ user[c] # NoUser)
    /\ Raises(c)
    /\ UNCHANGED <<events, state, user>>

PasswordRead(c, chunk) ==
    /\ state[c] = 3 /\ Received(c, chunk)
    /\ chunk.kind = "password" /\ user[c] # NoUser
    /\ CheckLogin(c, user[c], chunk.password)
    /\ LoseConnection(c)
    /\ UNCHANGED <<state, user>>

NoPassword(c, chunk) ==
    /\ state[c] = 3 /\ Received(c, chunk)
    /\ user[c] = NoUser \/ chunk.kind \notin {"password", "binary"}
    /\ LoseConnection(c)
    /\ UNCHANGED <<events, state, user>>

Lost(c) ==
    /\ ConnectionLost(c)
    /\ state' = [state EXCEPT ![c] = 1]
    /\ user' = [user EXCEPT ![c] = NoUser]

Next == \E c \in Conns :
    \/ ConnectionMade(c) \/ Lost(c)
    \/ \E chunk \in Chunks :
          \/ EncryptionRefused(c, chunk) \/ StartupRead(c, chunk) \/ Undecodable(c, chunk)
          \/ PasswordRead(c, chunk) \/ NoPassword(c, chunk)

-------------------------------------------------------------------------------
(* Properties *)

\* The dialogue the emulator supports: anything first, a startup message with a
\* user, a password.
Answered(c) ==
    /\ Len(read[c]) >= 3
    /\ read[c][2].kind = "startup" /\ read[c][2].user # NoUser
    /\ read[c][3].kind = "password"

Offered(c) == IF Answered(c) THEN {<<read[c][2].user, read[c][3].password>>} ELSE {}

\* Whoever goes through the dialogue is logged once, with the user of the startup message
\* and the password, nobody else is, and after three chunks the server is rid of any peer
\* (postgres_server.py:45-65).
ThreeChunks ==
    \A c \in Conns :
        /\ Len(read[c]) <= 3
        /\ Len(read[c]) = 3 => link[c] \in {"closing", "lost"}
        /\ Captured(c) = IF Answered(c) THEN <<<<read[c][2].user, read[c][3].password>>>> ELSE <<>>
===============================================================================
