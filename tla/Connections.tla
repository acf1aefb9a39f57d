----------------------------- MODULE Connections -----------------------------
(***************************************************************************)
(* The TCP connections of one honeypot server that runs in Twisted's       *)
(* reactor, and what the server logs about each peer.                      *)
(*                                                                         *)
(* The factory makes a protocol object per connection; the reactor is      *)
(* single-threaded and calls connectionMade, dataReceived and              *)
(* connectionLost of one object at a time.  A protocol module EXTENDS this *)
(* one and adds the object's own state.  A chunk is what one call of       *)
(* dataReceived (or lineReceived) gets; a peer may send any chunks in any  *)
(* order.                                                                  *)
(***************************************************************************)
EXTENDS Logs, FiniteSets

CONSTANTS
    Conns,       \* connections
    Chunks,      \* what may arrive in one piece
    MaxChunks,   \* bound: how many chunks of all peers together are considered
    Configured   \* <<username, password>> of the honeypot

VARIABLES
    link,     \* "none", "open", "closing" (loseConnection was called) or "lost"
    read,     \* history: the chunks delivered so far
    events    \* what was logged about the peer

tcpVars == <<link, read, events>>

ConnectionsTypeOK ==
    /\ link \in [Conns -> {"none", "open", "closing", "lost"}]
    /\ \A c \in Conns : read[c] \in Seq(Chunks)
    /\ \A c \in Conns : link[c] = "none" <=> events[c] = <<>>

ConnectionsInit ==
    /\ link = [c \in Conns |-> "none"]
    /\ read = [c \in Conns |-> <<>>]
    /\ events = [c \in Conns |-> <<>>]

-------------------------------------------------------------------------------
(* What the reactor does *)

\* A client connects; connectionMade logs it.
Accept(c) ==
    /\ link[c] = "none"
    /\ link' = [link EXCEPT ![c] = "open"]
    /\ events' = [events EXCEPT ![c] = <<[action |-> "connection"]>>]
    /\ UNCHANGED read

\* The bound: there are chunks left.
MoreChunks == Cardinality(UNION {{c} \X DOMAIN read[c] : c \in Conns}) < MaxChunks

\* A chunk arrives on an open connection: nothing is read any more after
\* loseConnection.
Received(c, chunk) ==
    /\ link[c] = "open" /\ MoreChunks
    /\ read' = [read EXCEPT ![c] = Append(@, chunk)]

LoseConnection(c) == link' = [link EXCEPT ![c] = "closing"]

\* The handler raised: the reactor drops the connection.
Raises(c) == link' = [link EXCEPT ![c] = "lost"]

\* connectionLost: the close is complete, or the client went away.
ConnectionLost(c) ==
    /\ link[c] \in {"open", "closing"}
    /\ link' = [link EXCEPT ![c] = "lost"]
    /\ UNCHANGED <<read, events>>

-------------------------------------------------------------------------------
(* BaseServer.log() and check_login() *)

Log(c, event) == events' = [events EXCEPT ![c] = Append(@, event)]

LoginIsCorrect(username, password) == <<username, password>> = Configured

LoginEvent(username, password, ok) ==
    [action |-> "login", username |-> username, password |-> password,
     status |-> IF ok THEN "success" ELSE "failed"]

CheckLogin(c, username, password) ==
    Log(c, LoginEvent(username, password, LoginIsCorrect(username, password)))

-------------------------------------------------------------------------------
\* The logins logged about a peer, in order, and their credentials.
Logins(c) == Matching(events[c], "login")
Captured(c) == [i \in DOMAIN Logins(c) |-> <<Logins(c)[i].username, Logins(c)[i].password>>]

\* The lines logged about a peer by a server that captures commands.
Commands(c) ==
    LET es == Matching(events[c], "command")
    IN  [i \in DOMAIN es |-> es[i].data]

\* What LoginCapture calls the phase of a peer.
Phase(c) == IF link[c] \in {"open", "closing"} THEN "open" ELSE link[c]
===============================================================================
