----------------------------- MODULE MssqlServer -----------------------------
(***************************************************************************)
(* honeypots/mssql_server.py: CustomMSSQLProtocol.  Chunks:                *)
(*   [kind |-> "prelogin"] and [kind |-> "other"], by the type byte        *)
(*   [kind |-> "login", user |-> u, password |-> s]  a LOGIN7 packet, s    *)
(*       the sequence of the password's ASCII codes                        *)
(*   [kind |-> "odd"]      a LOGIN7 packet whose fields cannot be read     *)
(* _state stays 1, so that the loseConnection of dataReceived is           *)
(* unreachable and only the peer ends a connection.                        *)
(***************************************************************************)
EXTENDS Connections

VARIABLE replies   \* what the server sent

mssqlVars == <<tcpVars, replies>>

TypeOK ==
    /\ ConnectionsTypeOK
    /\ \A c \in Conns : replies[c] \in Seq({"prelogin", "failed"})
    /\ \A c \in Conns : Len(Captured(c)) = Len(Dropping(replies[c], {"prelogin"}))

Init == ConnectionsInit /\ replies = [c \in Conns |-> <<>>]

Reply(c, packet) == replies' = [replies EXCEPT ![c] = Append(@, packet)]

\* The nibbles of a byte swapped, the bit of weight w flipped, the byte XORed with A5 (hex).
Swap(byte) == (byte % 16) * 16 + byte \div 16
Flip(byte, w) == IF (byte \div w) % 2 = 1 THEN byte - w ELSE byte + w
XorA5(byte) == Flip(Flip(Flip(Flip(byte, 128), 32), 4), 1)

\* What a client sends for the password: UTF-16, with the nibbles of every byte swapped
\* and then XORed.
Obfuscated(password) ==
    Joined([i \in DOMAIN password |-> <<XorA5(Swap(password[i])), XorA5(Swap(0))>>])

\* _handle_login: the bytes 0 and A5 are removed before the rest is decrypted.
Decrypted(bytes) ==
    LET kept == Dropping(bytes, {0, 165})
    IN  [i \in DOMAIN kept |-> Swap(XorA5(kept[i]))]

ConnectionMade(c) == Accept(c) /\ UNCHANGED replies

PreLogin(c, chunk) ==
    /\ Received(c, chunk) /\ chunk.kind = "prelogin"
    /\ Reply(c, "prelogin")
    /\ UNCHANGED <<link, events>>

HandleLogin(c, chunk) ==
    /\ Received(c, chunk) /\ chunk.kind = "login"
    /\ CheckLogin(c, chunk.user, Decrypted(Obfuscated(chunk.password)))
    /\ Reply(c, "failed")
    /\ UNCHANGED link

\* unpack or decode raises.
Unreadable(c, chunk) ==
    /\ Received(c, chunk) /\ chunk.kind = "odd"
    /\ Raises(c)
    /\ UNCHANGED <<events, replies>>

Ignored(c, chunk) ==
    /\ Received(c, chunk) /\ chunk.kind = "other"
    /\ UNCHANGED <<link, events, replies>>

Lost(c) == ConnectionLost(c) /\ UNCHANGED replies

Next == \E c \in Conns :
    \/ ConnectionMade(c) \/ Lost(c)
    \/ \E chunk \in Chunks :
          PreLogin(c, chunk) \/ HandleLogin(c, chunk) \/ Unreadable(c, chunk) \/ Ignored(c, chunk)

-------------------------------------------------------------------------------
(* Properties *)

\* What a client has offered: the letter Z (90) is encrypted as a zero byte and is lost.
Offered(c) ==
    {<<read[c][i].user, Dropping(read[c][i].password, {90})>> :
        i \in {k \in DOMAIN read[c] : read[c][k].kind = "login"}}
===============================================================================
