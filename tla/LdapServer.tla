------------------------------ MODULE LdapServer ------------------------------
(***************************************************************************)
(* honeypots/ldap_server.py: CustomLDAProtocol.  Chunks:                   *)
(*   [kind |-> "bind", user |-> u, size |-> m, password |-> p,             *)
(*    length |-> n, cut |-> k]                                             *)
(*       a simple bind of the user u of m bytes (none if m = 0) with the   *)
(*       password p of n bytes, of which the last k have not arrived       *)
(*   [kind |-> "sasl", user |-> u, size |-> m]   a bind of another kind    *)
(*   [kind |-> "other"]                anything without protocol version 3 *)
(* Names and passwords are text of ASCII.  What is logged is the range of  *)
(* the packet it was taken from: it starts `skip' bytes after the first    *)
(* length byte and has `count' bytes.                                      *)
(***************************************************************************)
EXTENDS Connections

VARIABLE state

ldapVars == <<tcpVars, state>>

Empty == [of |-> "", skip |-> 0, count |-> 0]

TypeOK ==
    /\ ConnectionsTypeOK
    /\ state \in [Conns -> 0 .. 3]
    /\ \A c \in Conns : link[c] = "open" /\ state[c] < 3 => state[c] = Len(read[c]) + 1

Init == ConnectionsInit /\ state = [c \in Conns |-> 0]

-------------------------------------------------------------------------------
(* parse_ldap_packet *)

\* The bytes that encode the length n (BER, definite form, as few as possible).
LengthBytes(n) ==
    IF n < 128 THEN <<n>>
    ELSE IF n < 256 THEN <<129, n>>
    ELSE <<130, n \div 256, n % 256>>

AtMost(i, n) == IF i < n THEN i ELSE n

Range(of, skip, count) == IF count = 0 THEN Empty ELSE [of |-> of, skip |-> skip, count |-> count]

\* The length of the name is taken from one byte.
Username(chunk) ==
    IF chunk.kind = "other" THEN Empty ELSE Range(chunk.user, 1, LengthBytes(chunk.size)[1])

\* The byte after the name is that of a simple bind; behind a longer name a byte of it is
\* looked at, and of 128 bytes the length has one more.
IsSimple(chunk) == chunk.kind = "bind" /\ chunk.size <= 128

\* The bytes taken for a password of n bytes, of which the last k are missing; a slice ends
\* with the packet.
Slice(p, n, k) ==
    LET bytes == LengthBytes(n)
        skip == IF bytes[1] = 130 THEN 3 ELSE 1
        count == IF bytes[1] = 130 THEN bytes[2] * 256 + bytes[3] ELSE bytes[1]
    IN  Range(p, skip, AtMost(count, Len(bytes) + n - k - skip))

Password(chunk) ==
    IF IsSimple(chunk) THEN Slice(chunk.password, chunk.length, chunk.cut) ELSE Empty

-------------------------------------------------------------------------------
ConnectionMade(c) == Accept(c) /\ state' = [state EXCEPT ![c] = 1]

\* _check_login: an anonymous bind and anything else without credentials is not logged.
HasCredentials(chunk) == Username(chunk) # Empty \/ Password(chunk) # Empty

LoginSeen(c, chunk) ==
    IF HasCredentials(chunk) THEN CheckLogin(c, Username(chunk), Password(chunk))
    ELSE UNCHANGED events

\* The first two chunks are answered as binds.
Bind(c, chunk) ==
    /\ state[c] \in {1, 2} /\ Received(c, chunk)
    /\ LoginSeen(c, chunk)
    /\ state' = [state EXCEPT ![c] = @ + 1]
    /\ UNCHANGED link

ThirdChunk(c, chunk) ==
    /\ state[c] = 3 /\ Received(c, chunk)
    /\ LoseConnection(c)
    /\ UNCHANGED <<events, state>>

Lost(c) == ConnectionLost(c) /\ state' = [state EXCEPT ![c] = 0]

Next == \E c \in Conns :
    \/ ConnectionMade(c) \/ Lost(c)
    \/ \E chunk \in Chunks : Bind(c, chunk) \/ ThirdChunk(c, chunk)

-------------------------------------------------------------------------------
(* Properties *)

\* Lengths of 129 and one more byte, of which the code takes the 129 for the length.
IsMisread(n) == 128 <= n /\ n < 256

\* All of a name or a password, from the end of its length on.
Whole(of, n) == Range(of, Len(LengthBytes(n)), n)

\* The credentials in a chunk, as they were sent.
Given(chunk) ==
    <<IF chunk.kind = "other" THEN Empty ELSE Whole(chunk.user, chunk.size),
      IF chunk.kind = "bind" THEN Whole(chunk.password, chunk.length) ELSE Empty>>

\* What is read as it was sent: names of less than 128 bytes and passwords that have arrived
\* whole, unless they have 128 to 255 bytes.
IsPlain(chunk) ==
    \/ chunk.kind = "other"
    \/ chunk.kind = "sasl" /\ chunk.size < 128
    \/ /\ chunk.kind = "bind" /\ chunk.size < 128
       /\ chunk.cut = 0 /\ ~IsMisread(chunk.length)

\* Whose name and whose password they are.  Of a chunk that is not plain, either may be
\* lost or be a part of what was sent.
Origin(login) == <<login[1].of, login[2].of>>
Readable(chunk) ==
    IF IsPlain(chunk) THEN {Origin(Given(chunk))}
    ELSE IF chunk.kind = "bind" THEN {chunk.user, ""} \X {chunk.password, ""}
    ELSE {chunk.user, ""} \X {""}

Offered(c) == UNION {Readable(read[c][i]) : i \in DOMAIN read[c]}
Shown(c) == [i \in DOMAIN Captured(c) |-> Origin(Captured(c)[i])]

\* There is neither a name nor a password, or nothing of it has arrived (of a length from
\* 128 to 255 a byte of the length would be taken for it).
IsAnonymous(chunk) ==
    \/ chunk.kind = "other"
    \/ /\ chunk.size = 0
       /\ chunk.kind = "bind" => chunk.length = chunk.cut /\ ~IsMisread(chunk.length)

\* Of the first two chunks those with a name or a password are logged, in their order: as it
\* was sent what is read as it was sent, the others with parts of it.  No anonymous bind is
\* logged, and the third chunk is not even looked at (ldap_server.py:72-88).
TwoTries ==
    \A c \in Conns :
        LET tries == {i \in 1 .. AtMost(Len(read[c]), 2) : ~IsAnonymous(read[c][i])}
            seen == At(read[c], tries)
        IN  /\ Len(Captured(c)) = Len(seen)
            /\ \A i \in DOMAIN seen : IsPlain(seen[i]) => Captured(c)[i] = Given(seen[i])
            /\ Len(read[c]) > 2 => link[c] # "open"
===============================================================================
