----------------------------- MODULE ThreadServers -----------------------------
(***************************************************************************)
(* The honeypots that log logins and serve every connection in a thread of *)
(* its own: one of them, in a process of its own, and its clients.         *)
(***************************************************************************)
EXTENDS Logs, SequencesExt, FiniteSets

CONSTANTS
    Honeypots,   \* those that may be chosen: "ssh", "socks5", "rdp", "elastic"
    Conns,       \* connections
    Alone,       \* those of ssh, socks5 and rdp, which share nothing but the log
    Nobody,      \* no connection
    Users, Passwords, Keys, Commands, Pieces, SshLogin,       \* of SshServer
    Interactive, CaptureCommands, AuthLimit, MaxTries, MaxCommands, MaxPieces,
    Streams, Socks5Login,                                     \* of Socks5Server
    Pdus,                                                     \* of RdpServer
    Requests, ElasticLogin                                    \* of ElasticServer

ASSUME AloneAssumption == Alone \subseteq Conns
ASSUME NobodyAssumption == Nobody \notin Conns

\* What arrives consists of keys, of bytes, of texts between colons; the configured name
\* of elastic is at least one text, an empty one if need be.
ASSUME PiecesAssumption == Pieces \subseteq Seq(STRING)
ASSUME StreamsAssumption == Streams \subseteq Seq(0 .. 255)
ASSUME ElasticAssumption ==
    /\ ElasticLogin[1] \in Seq(STRING) \ {<<>>} /\ ElasticLogin[2] \in Seq(STRING)
    /\ \A r \in Requests : r.kind \in {"basic", "scheme"} => r.parts \in Seq(STRING)

VARIABLES server, thread, events,
          transport, authenticated, channel, failures, tries, typed, line, taken,  \* ssh
          sent, pos, asked, username, short, gone,                                 \* socks5
          joined, pdus, replies,                                                   \* rdp
          accepting                                                                \* elastic

sshRest == <<transport, authenticated, channel, failures, tries, typed, line, taken>>
socksRest == <<sent, pos, asked, username, short>>
rdpRest == <<joined, pdus, replies>>
everything == <<server, thread, events, sshRest, socksRest, rdpRest, gone, accepting>>

\* What the variables of the other honeypots are.
Nothing == [c \in Alone |-> <<>>]

Ssh == INSTANCE SshServerProofs WITH Conns <- Alone, Configured <- SshLogin
Socks5 == INSTANCE Socks5Server WITH Conns <- Alone, Configured <- Socks5Login
Rdp == INSTANCE RdpServer WITH Conns <- Alone
Elastic == INSTANCE ElasticServer WITH asked <- pdus, Configured <- ElasticLogin

Init ==
    /\ server \in Honeypots
    /\ server # "elastic" => accepting = Nobody
    /\ \/ /\ server = "ssh" /\ Ssh!Init /\ gone = Nothing
          /\ sent = Nothing /\ pos = Nothing /\ asked = Nothing /\ username = Nothing /\ short = Nothing
          /\ joined = Nothing /\ pdus = Nothing /\ replies = Nothing
       \/ /\ server = "socks5" /\ Socks5!Init
          /\ transport = Nothing /\ authenticated = Nothing /\ channel = Nothing /\ failures = Nothing
          /\ tries = Nothing /\ typed = Nothing /\ line = Nothing /\ taken = Nothing
          /\ joined = Nothing /\ pdus = Nothing /\ replies = Nothing
       \/ /\ server = "rdp" /\ Rdp!Init
          /\ transport = Nothing /\ authenticated = Nothing /\ channel = Nothing /\ failures = Nothing
          /\ tries = Nothing /\ typed = Nothing /\ line = Nothing /\ taken = Nothing
          /\ sent = Nothing /\ pos = Nothing /\ asked = Nothing /\ username = Nothing /\ short = Nothing
       \/ /\ server = "elastic" /\ Elastic!Init
          /\ transport = Nothing /\ authenticated = Nothing /\ channel = Nothing /\ failures = Nothing
          /\ tries = Nothing /\ typed = Nothing /\ line = Nothing /\ taken = Nothing
          /\ sent = Nothing /\ pos = Nothing /\ asked = Nothing /\ username = Nothing /\ short = Nothing
          /\ joined = Nothing /\ replies = Nothing

SshStep(A) == server = "ssh" /\ A /\ UNCHANGED <<server, socksRest, rdpRest, gone, accepting>>
Socks5Step(A) == server = "socks5" /\ A /\ UNCHANGED <<server, sshRest, rdpRest, accepting>>
RdpStep(A) == server = "rdp" /\ A /\ UNCHANGED <<server, sshRest, socksRest, accepting>>
ElasticStep(A) ==
    server = "elastic" /\ A /\ UNCHANGED <<server, sshRest, socksRest, joined, replies>>

Next == \/ SshStep(Ssh!Next) \/ Socks5Step(Socks5!Next) \/ RdpStep(Rdp!Next)
        \/ ElasticStep(Elastic!Next)

\* The thread of a connection runs, what it waits for with a timeout comes or times out,
\* paramiko ends a negotiation one way or the other, and elastic's main thread goes on
\* unless it waits for a client.  SSH's welcome is not among it: it waits for a window.
Fairness ==
    /\ \A c \in Alone :
          /\ WF_everything(SshStep(Ssh!HandlerStep(c)))
          /\ WF_everything(SshStep(Ssh!Negotiated(c) \/ (transport[c] = "negotiating" /\ Ssh!TransportEnds(c))))
          /\ WF_everything(Socks5Step(Socks5!HandlerStep(c)))
          /\ WF_everything(RdpStep(Rdp!HandlerStep(c)))
    /\ \A c \in Conns :
          /\ WF_everything(ElasticStep(Elastic!MainStep(c)))
          /\ WF_everything(ElasticStep(Elastic!HandlerStep(c)))

Spec == Init /\ [][Next]_everything /\ Fairness
-------------------------------------------------------------------------------
\* The variables of the honeypot are well-typed (the TypeOK of the module of each).
TypeOK ==
    /\ server = "ssh" => Ssh!TypeOK
    /\ server = "socks5" => Socks5!TypeOK
    /\ server = "rdp" => Rdp!TypeOK
    /\ server = "elastic" => Elastic!TypeOK

\* The connections of the honeypot that was chosen.
Present == IF server = "elastic" THEN Conns ELSE Alone

Offered(c) ==
    IF server = "ssh" THEN Ssh!Offered(c)
    ELSE IF server = "socks5" THEN Socks5!Offered(c)
    ELSE IF server = "rdp" THEN Rdp!Offered(c)
    ELSE Elastic!Offered(c)

Captured(c) ==
    LET logins == Matching(events[c], "login")
    IN  IF server = "ssh" THEN Ssh!Captured(c)
        ELSE [i \in DOMAIN logins |-> <<logins[i].username, logins[i].password>>]

Capture == INSTANCE LoginCapture WITH
    Peers <- Conns,
    phase <- [c \in Conns |-> IF c \notin Present \/ events[c] = <<>> THEN "none"
                              ELSE IF thread[c] = "done" THEN "lost" ELSE "open"],
    offered <- [c \in Conns |-> IF c \in Present THEN Offered(c) ELSE {}],
    captured <- [c \in Conns |-> IF c \in Present THEN Captured(c) ELSE <<>>]

\* The log keeps the promise of LoginCapture, although a thread per connection writes it:
\* what is logged was offered by that peer before, and nothing is logged any more when
\* the handler has finished.
KeepsPromise == Capture!CaptureSpec

\* ssh: every password and key presented is in the log, and nobody runs a command without.
CommandsNeedLogin == server = "ssh" => Ssh!CommandsNeedLogin

\* ssh: the log of a session is what ANSI_REGEX leaves of what was typed, without blanks.
SessionIsLogged == server = "ssh" => Ssh!SessionIsLogged

\* socks5: unless recv() falls short, the fields of a login are those of the protocol.
LoginIsExact == server = "socks5" => Socks5!LoginIsExact

\* rdp: joins are confirmed, and the dialogue ends with the disconnect PDU.
DialogueIsClosed == server = "rdp" => Rdp!DialogueIsClosed

\* elastic: a refused login is in the log with a dump, or what was sent is no login.
RefusalsAreDumped == server = "elastic" => Elastic!RefusalsAreDumped

\* ssh: the handler waits until the client opens the window of its channel.
IsHeld(c) == thread[c] = "welcome" /\ transport[c] # "down"

\* No thread stays for ever: an SSH client that has stopped typing leaves no handler and no
\* connection behind, unless it opens a channel and no window (ssh_server.py:178 has no
\* timeout yet); an RDP client does not, whatever it does, and a SOCKS5 client not when it
\* has gone; elastic is rid of all its clients once all of them have gone (a silent one
\* holds up the others).
HandlerEnds ==
    /\ \A c \in Alone :
          /\ server = "ssh" /\ thread[c] # "none" /\ ~IsHeld(c)
                ~> (thread[c] = "done" /\ transport[c] = "down") \/ IsHeld(c)
          /\ server = "rdp" /\ thread[c] = "request" ~> thread[c] = "done"
          /\ server = "socks5" /\ gone[c] # "no" ~> thread[c] = "done"
    /\ server = "elastic" /\ (\A c \in Conns : gone[c]) ~> \A c \in Present : thread[c] = "done"

\* README.md:390 "Logs: ip, port, username and password" (of QRDPServer): a login that was
\* read is in the log when the thread has ended.
CredentialsAreLogged ==
    \A c \in Present : thread[c] = "done" => Offered(c) \subseteq ToSet(Captured(c))
===============================================================================
