------------------------------- MODULE Queries -------------------------------
(***************************************************************************)
(* What the honeypots that answer queries have in common: a request is     *)
(* handled whole and at once in the reactor, and something may be sent     *)
(* back.  Over UDP there are no connections: each address may send at any  *)
(* time, so datagrams that are lost, repeated or overtaken by others are   *)
(* among the behaviours.                                                   *)
(***************************************************************************)
EXTENDS Connections

VARIABLE replies   \* history: what was sent back to each peer

queryVars == <<tcpVars, replies>>

QueriesTypeOK ==
    /\ link \in [Conns -> {"none", "open", "closing", "lost"}]
    /\ \A c \in Conns : read[c] \in Seq(Chunks)
    /\ \A c \in Conns : Len(replies[c]) <= Len(read[c])

TcpInit == ConnectionsInit /\ replies = [c \in Conns |-> <<>>]
UdpInit ==
    /\ link = [c \in Conns |-> "open"]
    /\ read = [c \in Conns |-> <<>>]
    /\ events = [c \in Conns |-> <<>>]
    /\ replies = [c \in Conns |-> <<>>]

ConnectionMade(c) == Accept(c) /\ UNCHANGED replies
Lost(c) == ConnectionLost(c) /\ UNCHANGED replies

\* A client connects to a server that logs nothing by then.
ConnectionMadeUnlogged(c) ==
    /\ link[c] = "none"
    /\ link' = [link EXCEPT ![c] = "open"]
    /\ UNCHANGED <<read, events, replies>>

LogAll(c, es) == events' = [events EXCEPT ![c] = @ \o es]
Reply(c, reply) == replies' = [replies EXCEPT ![c] = Append(@, reply)]

Connection == [action |-> "connection"]
Query(data) == [action |-> "query", data |-> data]

\* What was logged of a peer's queries, in order.
Queried(c) ==
    LET es == Matching(events[c], "query")
    IN  [i \in DOMAIN es |-> es[i].data]
===============================================================================
