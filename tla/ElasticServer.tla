----------------------------- MODULE ElasticServer -----------------------------
(***************************************************************************)
(* honeypots/elastic_server.py: Python's ThreadingHTTPServer on a socket   *)
(* that was wrapped in TLS.  The main thread accepts the connections one   *)
(* by one and shakes hands with each of them itself, without a timeout;    *)
(* then a thread of its own serves one request of the connection, also     *)
(* without a timeout.  Requests:                                           *)
(*   [kind |-> "anonymous"]           a GET, POST, PUT or DELETE without   *)
(*                                    an Authorization                     *)
(*   [kind |-> "basic", parts |-> s, path |-> p]   with one: the texts     *)
(*       between the colons of what it encodes; p is "root", "nodes",      *)
(*       "other" or "odd" (a path that urlparse or split cannot handle)    *)
(*   [kind |-> "scheme", parts |-> s]   the same under another name        *)
(*   [kind |-> "garbled"]             an Authorization that cannot be      *)
(*                                    split or decoded                     *)
(*   [kind |-> "head"], [kind |-> "bad"]   HEAD, no valid request          *)
(***************************************************************************)
EXTENDS Naturals, Sequences, SequencesExt

CONSTANTS
    Conns, Requests,
    Nobody,
    Configured   \* <<username, password>>, each as the texts between its colons

VARIABLES
    thread,      \* "none", "queued", "handshake", "started", "reading" or "done"
    accepting,   \* the connection the main thread shakes hands with, or Nobody
    gone,        \* the client has closed its side
    asked,       \* history: the request that was read
    events

elasticVars == <<thread, accepting, gone, asked, events>>

TypeOK ==
    /\ thread \in [Conns -> {"none", "queued", "handshake", "started", "reading", "done"}]
    /\ \A c \in Conns : accepting = c <=> thread[c] = "handshake"
    /\ gone \in [Conns -> BOOLEAN]
    /\ \A c \in Conns : asked[c] \in Seq(Requests) /\ Len(asked[c]) <= 1
    /\ \A c \in Conns : thread[c] \in {"none", "queued", "handshake", "started"} => events[c] = <<>>

Init ==
    /\ thread = [c \in Conns |-> "none"]
    /\ accepting = Nobody
    /\ gone = [c \in Conns |-> FALSE]
    /\ asked = [c \in Conns |-> <<>>]
    /\ events = [c \in Conns |-> <<>>]

Goto(c, place) == thread' = [thread EXCEPT ![c] = place]

\* get_auth_key(): "username:password".
Key == Configured[1] \o Configured[2]

IsRight(request) == request.kind = "basic" /\ request.parts = Key

LogAll(c, es) == events' = [events EXCEPT ![c] = @ \o es]

-------------------------------------------------------------------------------
(* The main thread *)

Connect(c) ==
    /\ thread[c] = "none" /\ Goto(c, "queued")
    /\ UNCHANGED <<accepting, gone, asked, events>>

\* accept() of the wrapped socket begins the handshake.
Accept(c) ==
    /\ thread[c] = "queued" /\ accepting = Nobody
    /\ Goto(c, "handshake") /\ accepting' = c
    /\ UNCHANGED <<gone, asked, events>>

\* The client does its part: the handler's thread is started.
ShakeHands(c) ==
    /\ thread[c] = "handshake" /\ ~gone[c]
    /\ Goto(c, "started") /\ accepting' = Nobody
    /\ UNCHANGED <<gone, asked, events>>

\* It has gone, or speaks something else: get_request() raises and is forgotten.
HandshakeFails(c) ==
    /\ thread[c] = "handshake"
    /\ Goto(c, "done") /\ accepting' = Nobody
    /\ UNCHANGED <<gone, asked, events>>

Leave(c) ==
    /\ thread[c] # "none" /\ ~gone[c]
    /\ gone' = [gone EXCEPT ![c] = TRUE]
    /\ UNCHANGED <<thread, accepting, asked, events>>

-------------------------------------------------------------------------------
(* The thread of a connection *)

\* handle_one_request() logs the connection before it reads anything.
HandleOneRequest(c) ==
    /\ thread[c] = "started"
    /\ LogAll(c, <<[action |-> "connection"]>>)
    /\ Goto(c, "reading")
    /\ UNCHANGED <<accepting, gone, asked>>

ReadEnds(c) ==
    /\ thread[c] = "reading" /\ gone[c]
    /\ Goto(c, "done")
    /\ UNCHANGED <<accepting, gone, asked, events>>

\* A request was read; HTTP/1.0 is spoken, so it is the only one.
Read(c, request) ==
    /\ thread[c] = "reading" /\ ~gone[c]
    /\ asked' = [asked EXCEPT ![c] = <<request>>]
    /\ Goto(c, "done")
    /\ UNCHANGED <<accepting, gone>>

Login(name, password, ok) ==
    [action |-> "login", username |-> name, password |-> password,
     status |-> IF ok THEN "success" ELSE "failed"]
Dump == [action |-> "dump"]

\* do_GET without an Authorization: the empty login.
Anonymous(c, request) ==
    /\ Read(c, request) /\ request.kind = "anonymous"
    /\ LogAll(c, <<Login("", "", FALSE), Dump>>)

\* With the right one: the root and /_nodes are answered without a dump, and an odd path
\* raises after the login.
Authenticated(c, request) ==
    /\ Read(c, request) /\ IsRight(request)
    /\ LogAll(c, <<Login(Configured[1], Configured[2], TRUE)>>
                 \o (IF request.path = "other" THEN <<Dump>> ELSE <<>>))

\* MUTANT of Refused: any name and password that are right succeed.
RefusedOnlyWrong(c, request) ==
    /\ Read(c, request) /\ request.kind \in {"basic", "scheme"} /\ ~IsRight(request)
    /\ IF Len(request.parts) = 2
       THEN LogAll(c, <<Login(<<request.parts[1]>>, <<request.parts[2]>>, request.parts = Key), Dump>>)
       ELSE LogAll(c, <<Dump>>)

\* With another one: a name and a password, but split() gives more if they have a colon,
\* and then the request ends in an exception.
Refused(c, request) ==
    /\ Read(c, request) /\ request.kind \in {"basic", "scheme"} /\ ~IsRight(request)
    /\ IF Len(request.parts) = 2
       THEN LogAll(c, <<Login(<<request.parts[1]>>, <<request.parts[2]>>, FALSE), Dump>>)
       ELSE UNCHANGED events

Unlogged(c, request) ==
    /\ Read(c, request) /\ request.kind \in {"garbled", "head", "bad"}
    /\ UNCHANGED events

HandlerStep(c) ==
    \/ HandleOneRequest(c) \/ ReadEnds(c)
    \/ \E request \in Requests :
          \/ Anonymous(c, request) \/ Authenticated(c, request)
          \/ Refused(c, request) \/ Unlogged(c, request)

MainStep(c) == Accept(c) \/ (gone[c] /\ HandshakeFails(c))

Next == \E c \in Conns :
    \/ Connect(c) \/ Leave(c) \/ Accept(c) \/ ShakeHands(c) \/ HandshakeFails(c)
    \/ HandlerStep(c)
-------------------------------------------------------------------------------
(* Properties *)

\* The empty pair without an Authorization; else a name and a password, with the colon
\* between them anywhere.
Offered(c) ==
    UNION {IF r.kind = "anonymous" THEN {<<"", "">>}
           ELSE IF r.kind \in {"basic", "scheme"}
           THEN {<<SubSeq(r.parts, 1, i), SubSeq(r.parts, i + 1, Len(r.parts))>> : i \in DOMAIN r.parts}
           ELSE {} : r \in ToSet(asked[c])}

\* What is read as a name and a password, or counts as the empty ones.
IsRead(r) == r.kind = "anonymous" \/ (r.kind \in {"basic", "scheme"} /\ Len(r.parts) = 2)

\* The log shows a success exactly if the request had the configured credentials, under
\* Basic; with other ones it shows a failed login and, behind it, a dump.  Credentials with
\* another number of colons than one, or garbled ones, leave nothing but the connection,
\* like a HEAD (elastic_server.py:65-69, 96-116, 246-264).
RefusalsAreDumped ==
    \A c \in Conns : \A r \in ToSet(asked[c]) :
        LET IsLogged(status) ==
                \E i \in DOMAIN events[c] : events[c][i].action = "login" /\ events[c][i].status = status
            isRefused == IsRead(r) /\ ~IsRight(r)
        IN  /\ IsLogged("success") <=> IsRight(r)
            /\ IsLogged("failed") <=> isRefused
            /\ isRefused => Len(events[c]) = 3 /\ events[c][3].action = "dump"
            /\ isRefused \/ IsRight(r) \/ Len(events[c]) = 1
===============================================================================
