------------------------------ MODULE SmtpServer ------------------------------
(***************************************************************************)
(* honeypots/smtp_server.py: CustomSMTPProtocol on Twisted's ESMTP, which  *)
(* calls state_COMMAND for every line (a message body is never reached,    *)
(* since no recipient is accepted).  Chunks:                               *)
(*   [kind |-> "hello"]                                  HELO or EHLO      *)
(*   [kind |-> "plain", user |-> u, password |-> p]      AUTH PLAIN base64 *)
(*   [kind |-> "malformed"]  AUTH PLAIN with anything but three parts      *)
(*   [kind |-> "auth"]       any other AUTH, which just succeeds           *)
(*   [kind |-> "other"]      any other command                             *)
(***************************************************************************)
EXTENDS Connections

TypeOK ==
    /\ ConnectionsTypeOK
    /\ \A c \in Conns : link[c] \in {"open", "closing"} =>
          \A i \in DOMAIN read[c] : read[c][i].kind # "malformed"

Init == ConnectionsInit

\* state_COMMAND logs every command but HELO and EHLO, as another "connection".
Seen(line) == IF line.kind = "hello" THEN <<>> ELSE <<[action |-> "connection", data |-> line]>>
LogAll(c, es) == events' = [events EXCEPT ![c] = @ \o es]

\* ext_AUTH: the client is told that it is in, whatever the log says.
Auth(c, line) ==
    /\ Received(c, line) /\ line.kind = "plain"
    /\ LogAll(c, Seen(line) \o
                 <<LoginEvent(line.user, line.password, LoginIsCorrect(line.user, line.password))>>)
    /\ UNCHANGED link

\* Decoding or unpacking raises, and the reactor drops the connection.
AuthRaises(c, line) ==
    /\ Received(c, line) /\ line.kind = "malformed"
    /\ LogAll(c, Seen(line))
    /\ Raises(c)

Command(c, line) ==
    /\ Received(c, line) /\ line.kind \in {"hello", "auth", "other"}
    /\ LogAll(c, Seen(line))
    /\ UNCHANGED link

Next == \E c \in Conns :
    \/ Accept(c) \/ ConnectionLost(c)
    \/ \E line \in Chunks : Auth(c, line) \/ AuthRaises(c, line) \/ Command(c, line)
-------------------------------------------------------------------------------
(* Properties *)

Plain(c) == At(read[c], {i \in DOMAIN read[c] : read[c][i].kind = "plain"})
Offered(c) == {<<Plain(c)[i].user, Plain(c)[i].password>> : i \in DOMAIN Plain(c)}

\* Every whole AUTH PLAIN is a login in the log, in order, with its own verdict, right
\* after the command itself (smtp_server.py:43-72).
EveryAuthIsLogged ==
    \A c \in Conns :
        /\ Captured(c) = [i \in DOMAIN Plain(c) |-> <<Plain(c)[i].user, Plain(c)[i].password>>]
        /\ \A i \in DOMAIN events[c] : events[c][i].action = "login" =>
              /\ events[c][i - 1].data.password = events[c][i].password
              /\ events[c][i].status = "success" <=> Captured(c) # <<>>
                    /\ <<events[c][i].username, events[c][i].password>> = Configured
===============================================================================
