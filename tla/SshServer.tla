------------------------------ MODULE SshServer ------------------------------
(***************************************************************************)
(* honeypots/ssh_server.py.  Two threads serve a connection: the one that  *)
(* runs handle_connection, and the transport thread of paramiko, which     *)
(* calls the methods of SSHHandle.  The client may do at any time what the *)
(* transport lets it do.  Every timeout may be the next thing to happen.   *)
(*                                                                         *)
(* A piece is what one recv() returns: a sequence of letters and of "CR"   *)
(* (either end of a line), " " (any white space), "^C", "DEL" and "ESC[",  *)
(* which begins an ANSI sequence; <<"^D">> stands for the end of the       *)
(* client's input too.                                                     *)
(***************************************************************************)
EXTENDS Logs, FiniteSets, SequencesExt

CONSTANTS
    Conns,
    Users, Passwords, Keys, Commands, Pieces,   \* what clients use
    Configured,                                 \* <<username, password>>
    Interactive, CaptureCommands,               \* the options
    AuthLimit,     \* failures before paramiko disconnects
    MaxTries,      \* bound: passwords and keys after which a client tries no more keys
    MaxCommands,   \* bound: commands logged
    MaxPieces      \* bound: pieces a client types

VARIABLES
    thread,      \* where handle_connection is
    transport,   \* "none", "negotiating", "active" or "down"
    authenticated, channel,   \* channel: "none", "queued" or "accepted"
    failures,    \* paramiko's auth_fail_count
    tries,       \* history: the passwords and keys a client has presented
    typed, line, \* the pieces sent (history) and what _receive_line has of them
    taken,       \* how many pieces were received
    events

sshVars == <<thread, transport, authenticated, channel, failures, tries, typed, line, taken, events>>
client == <<authenticated, channel, failures, tries, typed>>
shell == <<typed, line, taken>>

TypeOK ==
    /\ thread \in [Conns -> {"none", "start", "negotiating", "accepting", "prompt",
                             "welcome", "receiving", "waiting", "done"}]
    /\ transport \in [Conns -> {"none", "negotiating", "active", "down"}]
    /\ authenticated \in [Conns -> BOOLEAN]
    /\ channel \in [Conns -> {"none", "queued", "accepted"}]
    /\ failures \in [Conns -> Nat]
    /\ \A c \in Conns : taken[c] \in 0 .. Len(typed[c])

Init ==
    /\ thread = [c \in Conns |-> "none"] /\ transport = [c \in Conns |-> "none"]
    /\ authenticated = [c \in Conns |-> FALSE] /\ channel = [c \in Conns |-> "none"]
    /\ failures = [c \in Conns |-> 0] /\ tries = [c \in Conns |-> <<>>]
    /\ typed = [c \in Conns |-> <<>>] /\ line = [c \in Conns |-> <<>>]
    /\ taken = [c \in Conns |-> 0] /\ events = [c \in Conns |-> <<>>]

Log(c, e) == events' = [events EXCEPT ![c] = Append(@, e)]
Goto(c, place) == thread' = [thread EXCEPT ![c] = place]

-------------------------------------------------------------------------------
(* SSHHandle, in the transport thread *)

\* A request that has failed: counted, and perhaps the last one.
Count(c, n) ==
    /\ failures' = [failures EXCEPT ![c] = @ + n]
    /\ transport' = [transport EXCEPT ![c] = IF failures[c] + n >= AuthLimit THEN "down" ELSE @]

\* A password or a key is presented: logged, with the result that is sent.
Tried(c, user, secret, result, event) ==
    /\ transport[c] = "active" /\ ~authenticated[c]
    /\ Log(c, event)
    /\ tries' = [tries EXCEPT ![c] = Append(@, [user |-> user, secret |-> secret])]
    /\ authenticated' = [authenticated EXCEPT ![c] = result = "successful"]
    /\ Count(c, IF result = "failed" THEN 1 ELSE 0)
    /\ UNCHANGED <<thread, channel, shell>>

\* MUTANT of CheckAuthPassword: everybody gets in.
CheckAuthPasswordAny(c, user, password) ==
    LET ok == <<user, password>> = Configured
    IN  Tried(c, user, password, "successful",
              [action |-> "login", username |-> user, secret |-> password,
               status |-> IF ok THEN "success" ELSE "failed"])

CheckAuthPassword(c, user, password) ==
    LET ok == <<user, password>> = Configured
    IN  Tried(c, user, password, IF ok THEN "successful" ELSE "failed",
              [action |-> "login", username |-> user, secret |-> password,
               status |-> IF ok THEN "success" ELSE "failed"])

\* Logged without a status, and before paramiko looks at the signature: for a client that
\* only asks whether the key would do, too.
CheckAuthPublickey(c, user, key, request) ==
    LET result == [probe |-> "acceptable", valid |-> "successful", invalid |-> "failed"]
    IN  Tried(c, user, key, result[request],
              [action |-> "login", username |-> user, secret |-> key, status |-> "none"])

\* The methods that SSHHandle does not override, "none" (every OpenSSH client begins with
\* it) and "keyboard-interactive", fail in ServerInterface, which logs nothing.
CheckAuthDefault(c) ==
    /\ transport[c] = "active" /\ ~authenticated[c]
    /\ Count(c, 1)
    /\ UNCHANGED <<thread, authenticated, channel, tries, shell, events>>

\* A session, or a direct-tcpip channel.  Any further one stays in the queue behind it:
\* nobody accepts it, and only its commands are looked at.
CheckChannelRequest(c) ==
    /\ transport[c] = "active" /\ authenticated[c] /\ channel[c] = "none"
    /\ channel' = [channel EXCEPT ![c] = "queued"]
    /\ UNCHANGED <<thread, transport, authenticated, failures, tries, shell, events>>

\* On any of the channels, as often as the client likes.
CheckChannelExecRequest(c, command) ==
    /\ transport[c] = "active" /\ channel[c] # "none"
    /\ CaptureCommands /\ Cardinality(Positions(events[c], "command")) < MaxCommands
    /\ Log(c, [action |-> "command", data |-> command])
    /\ UNCHANGED <<thread, transport, client, line, taken>>

Negotiated(c) ==
    /\ transport[c] = "negotiating"
    /\ transport' = [transport EXCEPT ![c] = "active"]
    /\ UNCHANGED <<thread, client, line, taken, events>>

TransportEnds(c) ==
    /\ transport[c] \in {"negotiating", "active"}
    /\ transport' = [transport EXCEPT ![c] = "down"]
    /\ UNCHANGED <<thread, client, line, taken, events>>

Type(c, piece) ==
    /\ transport[c] = "active" /\ channel[c] # "none" /\ Len(typed[c]) < MaxPieces
    /\ typed' = [typed EXCEPT ![c] = Append(@, piece)]
    /\ UNCHANGED <<thread, transport, authenticated, channel, failures, tries, line, taken, events>>

-------------------------------------------------------------------------------
(* handle_connection *)

\* MUTANT of Close: the transport is left to itself.
CloseNothing(c) == Goto(c, "done") /\ UNCHANGED transport

\* The end of the with blocks, also when an exception passes through them:
\* Transport.close() joins the transport thread.
Close(c) == Goto(c, "done") /\ transport' = [transport EXCEPT ![c] = "down"]

AcceptClient(c) ==
    /\ thread[c] = "none"
    /\ Goto(c, "start")
    /\ UNCHANGED <<transport, client, line, taken, events>>

HasGone(c) == thread[c] = "start" /\ Close(c) /\ UNCHANGED <<client, line, taken, events>>

StartServer(c) ==
    /\ thread[c] = "start"
    /\ Log(c, [action |-> "connection"])
    /\ Goto(c, "negotiating")
    /\ transport' = [transport EXCEPT ![c] = "negotiating"]
    /\ UNCHANGED <<client, line, taken>>

Started(c) ==
    /\ thread[c] = "negotiating"
    /\ \/ transport[c] = "active" /\ Goto(c, "accepting") /\ UNCHANGED transport
       \/ transport[c] = "down" /\ Close(c)
    /\ UNCHANGED <<client, line, taken, events>>

ChannelAccepted(c) ==
    /\ thread[c] = "accepting" /\ channel[c] = "queued"
    /\ channel' = [channel EXCEPT ![c] = "accepted"]
    /\ Goto(c, IF Interactive THEN "welcome" ELSE "waiting")
    /\ UNCHANGED <<transport, authenticated, failures, tries, shell, events>>

\* accept(30) returns None, and entering `with None' raises.
NoChannel(c) ==
    /\ thread[c] = "accepting" /\ channel[c] = "none"
    /\ Close(c)
    /\ UNCHANGED <<client, line, taken, events>>

\* event.wait(2): the command has come, or not.
Waited(c) == thread[c] = "waiting" /\ Close(c) /\ UNCHANGED <<client, line, taken, events>>
-------------------------------------------------------------------------------
(* _handle_interactive_session *)

\* Sending on a dead transport raises OSError, which nobody catches.
SendRaises(c) ==
    /\ thread[c] \in {"welcome", "prompt", "receiving"} /\ transport[c] = "down"
    /\ Close(c)
    /\ UNCHANGED <<client, line, taken, events>>

\* The welcome and the first prompt are sent before settimeout(10) is called: they wait
\* for a window as long as the client likes, perhaps until the 300 seconds are over.
Welcome(c) ==
    /\ thread[c] = "welcome" /\ transport[c] = "active"
    /\ \E place \in {"receiving", "waiting"} : Goto(c, place)
    /\ UNCHANGED <<transport, client, line, taken, events>>

Prompt(c) ==
    /\ thread[c] = "prompt" /\ transport[c] = "active"
    /\ Goto(c, "receiving")
    /\ line' = [line EXCEPT ![c] = <<>>]
    /\ UNCHANGED <<transport, client, taken, events>>

\* The 300 seconds are over (looked at between lines only), or for 10 seconds no key has
\* come or nothing that was sent was taken.
SessionExpired(c) ==
    /\ thread[c] \in {"prompt", "receiving"}
    /\ Goto(c, "waiting")
    /\ UNCHANGED <<transport, client, line, taken, events>>

\* What ANSI_REGEX matches in a piece: the beginning of a sequence with the next letter
\* and the blanks between them, be it the rest of the sequence or a letter typed.
IsLetter(key) == key \notin {"CR", " ", "^C", "^D", "DEL", "ESC["}
Ansi(piece) ==
    {j \in DOMAIN piece : \E i, k \in DOMAIN piece :
        /\ i <= j /\ j <= k /\ i < k
        /\ piece[i] = "ESC[" /\ IsLetter(piece[k])
        /\ \A m \in i + 1 .. k - 1 : piece[m] = " "}

\* DEL is not removed: the result of replace() is thrown away.
Clean(piece) == At(piece, DOMAIN piece \ Ansi(piece))
IsComplete(text) == text # <<>> /\ Last(text) \in {"CR", "^C"}

\* bytes.strip(): the white space at both ends.
White == {"CR", " "}
Strip(text) ==
    LET ink == {i \in DOMAIN text : text[i] \notin White}
    IN  IF ink = {} THEN <<>> ELSE SubSeq(text, Earliest(ink), Latest(ink))
Exit == <<"e", "x", "i", "t">>

\* MUTANT of ReceivePiece: a piece replaces what was there.
ReceivePieceAnew(c) ==
    /\ thread[c] = "receiving" /\ transport[c] = "active" /\ taken[c] < Len(typed[c])
    /\ taken' = [taken EXCEPT ![c] = @ + 1]
    /\ LET piece == typed[c][taken[c] + 1]
       IN  \E text \in {Clean(piece)} :
              \/ /\ piece = <<"^D">> /\ Goto(c, "waiting") /\ UNCHANGED <<line, events>>
              \/ /\ piece # <<"^D">> /\ ~IsComplete(text)
                 /\ line' = [line EXCEPT ![c] = text] /\ UNCHANGED <<thread, events>>
              \/ /\ piece # <<"^D">> /\ IsComplete(text)
                 /\ Log(c, [action |-> "interactive", data |-> Strip(text)])
                 /\ line' = [line EXCEPT ![c] = <<>>]
                 /\ Goto(c, IF Strip(text) = Exit THEN "waiting" ELSE "prompt")
    /\ UNCHANGED <<transport, client>>

\* One turn of the loop of _receive_line, with the log and the answer if the line ends.
ReceivePiece(c) ==
    /\ thread[c] = "receiving" /\ transport[c] = "active" /\ taken[c] < Len(typed[c])
    /\ taken' = [taken EXCEPT ![c] = @ + 1]
    /\ LET piece == typed[c][taken[c] + 1]
       IN  \E text \in {line[c] \o Clean(piece)} :
              \/ /\ piece = <<"^D">> /\ Goto(c, "waiting") /\ UNCHANGED <<line, events>>
              \/ /\ piece # <<"^D">> /\ ~IsComplete(text)
                 /\ line' = [line EXCEPT ![c] = text] /\ UNCHANGED <<thread, events>>
              \/ /\ piece # <<"^D">> /\ IsComplete(text)
                 /\ Log(c, [action |-> "interactive", data |-> Strip(text)])
                 /\ line' = [line EXCEPT ![c] = <<>>]
                 /\ Goto(c, IF Strip(text) = Exit THEN "waiting" ELSE "prompt")
    /\ UNCHANGED <<transport, client>>

-------------------------------------------------------------------------------
\* Without Welcome, which is for the client to allow.
HandlerStep(c) ==
    \/ HasGone(c) \/ StartServer(c) \/ Started(c) \/ ChannelAccepted(c) \/ NoChannel(c)
    \/ Waited(c) \/ SendRaises(c) \/ Prompt(c) \/ SessionExpired(c) \/ ReceivePiece(c)

ClientStep(c) ==
    \/ \E u \in Users, p \in Passwords : CheckAuthPassword(c, u, p)
    \/ \E u \in Users, k \in Keys, r \in {"probe", "valid", "invalid"} :
          Len(tries[c]) < MaxTries /\ CheckAuthPublickey(c, u, k, r)
    \/ CheckAuthDefault(c) \/ CheckChannelRequest(c)
    \/ \E command \in Commands : CheckChannelExecRequest(c, command)
    \/ \E piece \in Pieces : Type(c, piece)

Next == \E c \in Conns :
    AcceptClient(c) \/ HandlerStep(c) \/ Welcome(c) \/ ClientStep(c) \/ Negotiated(c) \/ TransportEnds(c)

Spec == Init /\ [][Next]_sshVars

-------------------------------------------------------------------------------
(* Properties *)

Logins(c) == Matching(events[c], "login")

Offered(c) == {<<tries[c][i].user, tries[c][i].secret>> : i \in DOMAIN tries[c]}
Captured(c) == [i \in DOMAIN Logins(c) |-> <<Logins(c)[i].username, Logins(c)[i].secret>>]

\* Every password and every key that a client presents is logged (other requests to log in
\* are not), and whoever gets a shell or runs a command has been logged before with the
\* configured credentials or with a key (ssh_server.py:103-136).
CommandsNeedLogin ==
    \A c \in Conns :
        /\ Cardinality({i \in DOMAIN events[c] : events[c][i].action = "login"}) = Len(tries[c])
        /\ \A i \in DOMAIN events[c] : events[c][i].action \in {"command", "interactive"} =>
              \E j \in 1 .. i - 1 :
                  /\ events[c][j].action = "login"
                  /\ \/ events[c][j].status = "success"
                     \/ events[c][j].status = "none" /\ events[c][j].secret \in Keys

\* A text without its white space, and what is left of the pieces received.
Ink(text) == Dropping(text, White)
Cleaned(c) == [i \in 1 .. taken[c] |-> Clean(typed[c][i])]

\* As long as the session goes on, what was logged of it and the unfinished line are
\* what ANSI_REGEX has left of the pieces received, in their order, but for white space:
\* nothing else is lost between two lines.  Afterwards the log holds a beginning of it
\* (ssh_server.py:179-200, 236-259).
SessionIsLogged ==
    \A c \in Conns :
        LET lines == Matching(events[c], "interactive")
            logged == Ink(Joined([i \in DOMAIN lines |-> lines[i].data]))
            got == Ink(Joined(Cleaned(c)))
        IN  IF thread[c] \in {"welcome", "prompt", "receiving"} THEN logged \o Ink(line[c]) = got
            ELSE IsPrefix(logged, got)
===============================================================================
