----------------------------- MODULE Socks5Server -----------------------------
(***************************************************************************)
(* honeypots/socks5_server.py: a thread per connection runs handle().  The *)
(* stream of a client arrives in pieces of any size; recv(n) returns what  *)
(* has arrived, at most n bytes of it, waits if that is nothing, and       *)
(* returns no bytes at all when the client has closed.  There is no        *)
(* timeout.  A byte is a number, a text is a sequence of bytes.            *)
(***************************************************************************)
EXTENDS Naturals, Sequences, Functions, SequencesExt

CONSTANTS
    Conns,
    Streams,      \* what clients intend to send: sequences of bytes
    Configured    \* <<username, password>>

VARIABLES
    thread,    \* "none", the place of the next recv(), or "done"
    sent,      \* what of the client's stream has arrived
    pos,       \* how much of it handle() has read
    gone,      \* the client's side: "no", "closed" or "reset"
    asked,     \* _len or auth_types_len: what the next recv() asks for
    username,  \* the local variable of _check_user_pw_auth
    short,     \* history: some recv() returned less than it was asked for
    events

socksVars == <<thread, sent, pos, gone, asked, username, short, events>>
client == <<sent, gone>>

TypeOK ==
    /\ thread \in [Conns -> {"none", "greeting", "methods", "auth", "username_len", "username",
                             "password_len", "password", "done"}]
    /\ gone \in [Conns -> {"no", "closed", "reset"}]
    /\ short \in [Conns -> BOOLEAN]
    /\ \A c \in Conns : pos[c] \in 0 .. Len(sent[c])
    /\ \A c \in Conns : asked[c] \in 0 .. 255

Init ==
    /\ thread = [c \in Conns |-> "none"]
    /\ sent = [c \in Conns |-> <<>>] /\ pos = [c \in Conns |-> 0]
    /\ gone = [c \in Conns |-> "no"] /\ asked = [c \in Conns |-> 0]
    /\ username = [c \in Conns |-> <<>>] /\ short = [c \in Conns |-> FALSE]
    /\ events = [c \in Conns |-> <<>>]

Goto(c, place, n) ==
    /\ thread' = [thread EXCEPT ![c] = place]
    /\ asked' = [asked EXCEPT ![c] = n]

\* The end of handle(), after an exception too: the socket is closed.
Finish(c) == Goto(c, "done", 0)

-------------------------------------------------------------------------------
(* The client *)

Send(c) ==
    /\ thread[c] # "done" /\ thread[c] # "none" /\ gone[c] = "no"
    /\ \E stream \in Streams, n \in 1 .. 255 :
          /\ Len(sent[c]) + n <= Len(stream) /\ IsPrefix(sent[c], stream)
          /\ sent' = [sent EXCEPT ![c] = SubSeq(stream, 1, Len(@) + n)]
    /\ UNCHANGED <<thread, pos, gone, asked, username, short, events>>

Leave(c) ==
    /\ thread[c] # "none" /\ gone[c] = "no"
    /\ \E how \in {"closed", "reset"} : gone' = [gone EXCEPT ![c] = how]
    /\ UNCHANGED <<thread, sent, pos, asked, username, short, events>>

-------------------------------------------------------------------------------
(* recv() *)

Arrived(c) == SubSeq(sent[c], pos[c] + 1, Len(sent[c]))

\* What recv() returns, and its effect.
Got(c) == SubSeq(Arrived(c), 1, IF asked[c] < Len(Arrived(c)) THEN asked[c] ELSE Len(Arrived(c)))

Recv(c, place) ==
    /\ thread[c] = place
    /\ Arrived(c) # <<>> \/ asked[c] = 0 \/ gone[c] = "closed"
    /\ pos' = [pos EXCEPT ![c] = @ + Len(Got(c))]
    /\ short' = [short EXCEPT ![c] = @ \/ Len(Got(c)) < asked[c]]
    /\ UNCHANGED client

\* It raises ConnectionResetError, which is caught.
RecvRaises(c) ==
    /\ thread[c] \notin {"none", "done"}
    /\ gone[c] = "reset" /\ Arrived(c) = <<>> /\ asked[c] > 0
    /\ Finish(c)
    /\ UNCHANGED <<client, pos, username, short, events>>

-------------------------------------------------------------------------------
(* handle() and _check_user_pw_auth() *)

Handle(c) ==
    /\ thread[c] = "none"
    /\ events' = [events EXCEPT ![c] = <<[action |-> "connection"]>>]
    /\ Goto(c, "greeting", 2)
    /\ UNCHANGED <<client, pos, username, short>>

\* unpack() raises unless it gets as many bytes as it wants.
Greeting(c) ==
    /\ Recv(c, "greeting")
    /\ IF Len(Got(c)) = 2 /\ Got(c)[1] = 5 THEN Goto(c, "methods", Got(c)[2]) ELSE Finish(c)
    /\ UNCHANGED <<username, events>>

\* sendall() may raise when the client is gone.
Methods(c) ==
    /\ Recv(c, "methods")
    /\ \/ Len(Got(c)) = asked[c] /\ 2 \in Range(Got(c)) /\ Goto(c, "auth", 1)
       \/ (Len(Got(c)) < asked[c] \/ 2 \notin Range(Got(c)) \/ gone[c] # "no") /\ Finish(c)
    /\ UNCHANGED <<username, events>>

AuthVersion(c) ==
    /\ Recv(c, "auth")
    /\ IF Got(c) = <<1>> THEN Goto(c, "username_len", 1) ELSE Finish(c)
    /\ UNCHANGED <<username, events>>

\* ord(b"") raises.
FieldLength(c, place, field) ==
    /\ Recv(c, place)
    /\ IF Got(c) = <<>> THEN Finish(c) ELSE Goto(c, field, Got(c)[1])
    /\ UNCHANGED <<username, events>>

\* Fewer bytes than _len are a field all the same.
Username(c) ==
    /\ Recv(c, "username")
    /\ username' = [username EXCEPT ![c] = Got(c)]
    /\ Goto(c, "password_len", 1)
    /\ UNCHANGED events

Login(c, name, password) ==
    events' = [events EXCEPT ![c] = Append(@,
        [action |-> "login", username |-> name, password |-> password,
         status |-> IF <<name, password>> = Configured THEN "success" ELSE "failed"])]

\* MUTANT of Password: the length of the user name is used once more.
PasswordOldLength(c) ==
    /\ Recv(c, "password")
    /\ LET n == Len(username[c])
       IN  Login(c, username[c], IF n < Len(Got(c)) THEN SubSeq(Got(c), 1, n) ELSE Got(c))
    /\ Finish(c)
    /\ UNCHANGED username

Password(c) ==
    /\ Recv(c, "password")
    /\ Login(c, username[c], Got(c))
    /\ Finish(c)
    /\ UNCHANGED username

HandlerStep(c) ==
    \/ RecvRaises(c) \/ Greeting(c) \/ Methods(c) \/ AuthVersion(c)
    \/ FieldLength(c, "username_len", "username")
    \/ FieldLength(c, "password_len", "password")
    \/ Username(c) \/ Password(c)

Next == \E c \in Conns : Handle(c) \/ HandlerStep(c) \/ Send(c) \/ Leave(c)
-------------------------------------------------------------------------------
(* Properties *)

\* Two parts of a client's own stream, with one byte between them.
Offered(c) ==
    {<<SubSeq(sent[c], i, j), SubSeq(sent[c], j + 2, k)>> :
        i \in 1 .. Len(sent[c]), j \in 0 .. Len(sent[c]) - 1, k \in 0 .. Len(sent[c])}

\* The fields of a login as RFC 1929 lays them out behind the greeting of RFC 1928.
NameAt(s) == s[2] + 5
PasswordAt(s) == NameAt(s) + s[NameAt(s) - 1] + 1
Fields(s) ==
    <<SubSeq(s, NameAt(s), PasswordAt(s) - 2),
      SubSeq(s, PasswordAt(s), PasswordAt(s) + s[PasswordAt(s) - 1] - 1)>>

\* A login that is logged consists of the two fields of the client's stream, provided that
\* no recv() fell short: however the stream was cut, and wherever the lengths are zero
\* (socks5_server.py:36-61).
LoginIsExact ==
    \A c \in Conns : \A i \in DOMAIN events[c] :
        events[c][i].action = "login" /\ ~short[c] =>
            <<events[c][i].username, events[c][i].password>> = Fields(sent[c])
===============================================================================
