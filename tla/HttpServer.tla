------------------------------ MODULE HttpServer ------------------------------
(***************************************************************************)
(* honeypots/base_http_server.py: MainResource.render of the HTTP and the  *)
(* HTTPS honeypot, under Twisted's web server.  A chunk is a request       *)
(*   [method |-> "GET", "POST" or "HEAD", uri |-> "/login.html", "/" or    *)
(*    other, form |-> a sequence of <<field, value>>,                      *)
(*    encoding |-> "urlencoded" or "multipart"]                            *)
(* of a connection that may carry many; nothing is logged of a connection  *)
(* without a request.                                                      *)
(***************************************************************************)
EXTENDS Connections

CONSTANT CaptureCommands   \* "capture_commands" in options

VARIABLE replies   \* what render() returned for every request, or "error" if it raised

httpVars == <<tcpVars, replies>>

TypeOK ==
    /\ link \in [Conns -> {"none", "open", "closing", "lost"}]
    /\ \A c \in Conns : read[c] \in Seq(Chunks)
    /\ \A c \in Conns : replies[c] \in Seq({"login_file", "home_file", "error"})
    /\ \A c \in Conns : Len(replies[c]) = Len(read[c])

Init == ConnectionsInit /\ replies = [c \in Conns |-> <<>>]

Open(c) ==
    /\ link[c] = "none"
    /\ link' = [link EXCEPT ![c] = "open"]
    /\ UNCHANGED <<read, events, replies>>

\* Every request is logged first, with its headers if commands are captured.
Connection(request) ==
    [action |-> "connection",
     data |-> IF CaptureCommands THEN <<request.method, request.uri>> ELSE <<>>]

LogAll(c, es) == events' = [events EXCEPT ![c] = @ \o es]
Reply(c, file) == replies' = [replies EXCEPT ![c] = Append(@, file)]

\* FieldStorage: the names of the headers it gets are bytes, so it does not find the
\* content type and takes every form for an urlencoded one; it drops empty values.
Values(request, field) ==
    IF request.encoding = "urlencoded"
    THEN At(request.form, {i \in DOMAIN request.form : request.form[i][1] = field /\ request.form[i][2] # ""})
    ELSE <<>>

ReadsForm(request) ==
    /\ request.method = "POST" /\ request.uri \in {"/login.html", "/"}
    /\ Configured[1] # "" /\ Configured[2] # ""
    /\ Values(request, "username") # <<>> /\ Values(request, "password") # <<>>

\* A field that is there twice is a list, which has no value.
IsTwice(request) ==
    \E field \in {"username", "password"} : Len(Values(request, field)) > 1

RenderGet(c, request) ==
    /\ Received(c, request) /\ request.method = "GET"
    /\ LogAll(c, <<Connection(request), [action |-> "GET"]>>)
    /\ Reply(c, "login_file")
    /\ UNCHANGED link

RenderLogin(c, request) ==
    /\ Received(c, request) /\ ReadsForm(request) /\ ~IsTwice(request)
    /\ LET username == Values(request, "username")[1][2]
           password == Values(request, "password")[1][2]
       IN  LogAll(c, <<Connection(request), [action |-> "POST"],
                       LoginEvent(username, password, LoginIsCorrect(username, password))>>)
    /\ Reply(c, "home_file")
    /\ UNCHANGED link

\* render raises: Twisted answers with an error, and the connection goes on.
RenderRaises(c, request) ==
    /\ Received(c, request) /\ ReadsForm(request) /\ IsTwice(request)
    /\ LogAll(c, <<Connection(request), [action |-> "POST"]>>)
    /\ Reply(c, "error")
    /\ UNCHANGED link

RenderPost(c, request) ==
    /\ Received(c, request) /\ request.method = "POST" /\ ~ReadsForm(request)
    /\ LogAll(c, <<Connection(request), [action |-> "POST"]>>)
    /\ Reply(c, "home_file")
    /\ UNCHANGED link

RenderOther(c, request) ==
    /\ Received(c, request) /\ request.method \notin {"GET", "POST"}
    /\ LogAll(c, <<Connection(request)>>)
    /\ Reply(c, "home_file")
    /\ UNCHANGED link

Lost(c) == ConnectionLost(c) /\ UNCHANGED replies

Next == \E c \in Conns :
    \/ Open(c) \/ Lost(c)
    \/ \E request \in Chunks :
          \/ RenderGet(c, request) \/ RenderLogin(c, request) \/ RenderRaises(c, request)
          \/ RenderPost(c, request) \/ RenderOther(c, request)
-------------------------------------------------------------------------------
(* Properties *)

\* A field of a form, with the one value it has been given.
Given(request, field) ==
    {x \in DOMAIN request.form : request.form[x][1] = field /\ request.form[x][2] # ""}
IsForm(request) ==
    /\ Configured[1] # "" /\ Configured[2] # ""
    /\ request.method = "POST" /\ request.encoding = "urlencoded"
    /\ request.uri \in {"/login.html", "/"}
    /\ \A field \in {"username", "password"} : Cardinality(Given(request, field)) = 1
Value(request, field) == request.form[CHOOSE i \in Given(request, field) : TRUE][2]
Pair(request) == <<Value(request, "username"), Value(request, "password")>>

Forms(c) == At(read[c], {i \in DOMAIN read[c] : IsForm(read[c][i])})
Offered(c) == {Pair(Forms(c)[i]) : i \in DOMAIN Forms(c)}

\* The logins are the urlencoded forms with both fields once and not empty, in order and
\* with the right verdict, also those of requests that follow one at which render() raised;
\* a honeypot without a user or a password has none (base_http_server.py:91-114).
EveryFormIsLogged ==
    \A c \in Conns :
        /\ Captured(c) = [i \in DOMAIN Forms(c) |-> Pair(Forms(c)[i])]
        /\ \A i \in DOMAIN Logins(c) : Logins(c)[i].status = "success" <=> Captured(c)[i] = Configured

\* What was logged of each request, and what should be if commands are captured: its method
\* and its address, but not its body.
Requests(c) ==
    LET es == Matching(events[c], "connection")
    IN  [i \in DOMAIN es |-> es[i].data]
RequestLines(c) ==
    [i \in DOMAIN read[c] |-> IF CaptureCommands THEN <<read[c][i].method, read[c][i].uri>> ELSE <<>>]
===============================================================================
