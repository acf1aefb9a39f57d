----------------------------- MODULE RedisServer -----------------------------
(***************************************************************************)
(* honeypots/redis_server.py: CustomRedisProtocol.  A chunk is taken for   *)
(* one request and is the only one of a connection.  Chunks:               *)
(*   [kind |-> "request", name |-> n, count |-> k, args |-> s]             *)
(*       "*k", command n and the fields s of which the length has arrived; *)
(*       a field [length |-> l, text |-> t, chars |-> m] announces l bytes *)
(*       and what has arrived of it is the text t of m characters          *)
(*   [kind |-> "other"]    no RESP array, or not UTF-8                     *)
(***************************************************************************)
EXTENDS Connections

VARIABLE replies

redisVars == <<tcpVars, replies>>

TypeOK ==
    /\ ConnectionsTypeOK
    /\ \A c \in Conns : replies[c] \in Seq({"invalid password", "unknown command"})
    /\ \A c \in Conns : link[c] = "open" => read[c] = <<>>

Init == ConnectionsInit /\ replies = [c \in Conns |-> <<>>]

Reply(c, text) == replies' = [replies EXCEPT ![c] = Append(@, text)]

ConnectionMade(c) == Accept(c) /\ UNCHANGED replies

\* Of a number only the first digit is read, both of the count and of a length.
FirstDigit(n) ==
    IF n < 10 THEN n
    ELSE CHOOSE d \in 1 .. 9 : \E power \in {10, 100, 1000, 10000, 100000} : n \div power = d

\* get_command: the arguments a request is taken to have.
Declared(chunk) == FirstDigit(chunk.count) - 1
IsAuth(chunk) == chunk.kind = "request" /\ chunk.name = "AUTH"
HasFields(chunk) == Declared(chunk) \in {1, 2}
IsComplete(chunk) == Len(chunk.args) >= Declared(chunk)

\* _parse_field: the digit is compared with the number of characters.
Field(field) == IF FirstDigit(field.length) = field.chars THEN field.text ELSE ""

Credentials(chunk) ==
    IF Declared(chunk) = 2 THEN <<Field(chunk.args[1]), Field(chunk.args[2])>>
    ELSE <<"", Field(chunk.args[1])>>

Logging(chunk) == IsAuth(chunk) /\ HasFields(chunk) /\ IsComplete(chunk)

Auth(c, chunk) ==
    /\ Received(c, chunk) /\ Logging(chunk)
    /\ CheckLogin(c, Credentials(chunk)[1], Credentials(chunk)[2])
    /\ Reply(c, "invalid password")
    /\ LoseConnection(c)

\* parse_data raises for a missing field it looks at: no reply, nothing logged.
TornAuth(c, chunk) ==
    /\ Received(c, chunk) /\ IsAuth(chunk) /\ HasFields(chunk) /\ ~IsComplete(chunk)
    /\ Raises(c)
    /\ UNCHANGED <<events, replies>>

\* It looks at none.
BareAuth(c, chunk) ==
    /\ Received(c, chunk) /\ IsAuth(chunk) /\ ~HasFields(chunk)
    /\ Reply(c, "invalid password")
    /\ LoseConnection(c)
    /\ UNCHANGED events

Unknown(c, chunk) ==
    /\ Received(c, chunk) /\ ~IsAuth(chunk)
    /\ Reply(c, "unknown command")
    /\ LoseConnection(c)
    /\ UNCHANGED events

Lost(c) == ConnectionLost(c) /\ UNCHANGED replies

Next == \E c \in Conns :
    \/ ConnectionMade(c) \/ Lost(c)
    \/ \E chunk \in Chunks :
          Auth(c, chunk) \/ TornAuth(c, chunk) \/ BareAuth(c, chunk) \/ Unknown(c, chunk)
-------------------------------------------------------------------------------
(* Properties *)

\* The credentials as they were sent.
Meant(chunk) ==
    IF Declared(chunk) = 2 THEN <<chunk.args[1].text, chunk.args[2].text>>
    ELSE <<"", chunk.args[1].text>>

\* A field of ASCII that has arrived whole, and one that is read in any case.
IsWhole(field) == field.chars = field.length
IsShort(field) == IsWhole(field) /\ field.length < 10

\* What may be read of a field: any other one may be lost.
Readings(field) == IF IsShort(field) THEN {field.text} ELSE {field.text, ""}
Readable(chunk) ==
    IF Declared(chunk) = 2 THEN Readings(chunk.args[1]) \X Readings(chunk.args[2])
    ELSE {""} \X Readings(chunk.args[1])
Offered(c) == UNION {Readable(read[c][i]) : i \in {k \in DOMAIN read[c] : Logging(read[c][k])}}

AreShort(chunk) == \A i \in 1 .. Declared(chunk) : IsShort(chunk.args[i])

\* A connection serves one request; it is logged if and only if it is an AUTH that seems to
\* have one or two fields, of which none is missing ("*20" seems to have one), and it is
\* logged as it was sent if every field is whole, of ASCII and shorter than ten bytes.  Of
\* other fields, torn ones too, nothing may be left (redis_server.py:24-56, 66-75).
OneRequest ==
    \A c \in Conns :
        /\ Len(read[c]) <= 1
        /\ Captured(c) # <<>> <=> Len(read[c]) = 1 /\ Logging(read[c][1])
        /\ Captured(c) # <<>> /\ AreShort(read[c][1]) => Captured(c) = <<Meant(read[c][1])>>

\* What the logged password is compared with, and where: fields that have arrived whole.
Sent(c) == {Meant(read[c][i]) : i \in {k \in DOMAIN read[c] : Logging(read[c][k])}}
AreWhole(c) ==
    \A i \in DOMAIN read[c] : Logging(read[c][i]) =>
        \A k \in 1 .. Declared(read[c][i]) : IsWhole(read[c][i].args[k])
===============================================================================
