------------------------------- MODULE RdpServer -------------------------------
(***************************************************************************)
(* honeypots/rdp_server.py: a thread per connection runs                   *)
(* ConnectionHandle.run().  What one recv(1024) returns is taken for one   *)
(* PDU:                                                                    *)
(*   [kind |-> "cookie"], [kind |-> "plain"]   a connection request        *)
(*   [kind |-> "creds", user |-> u, password |-> p]   64 in byte 15        *)
(*   [kind |-> "torn"]     the same, but extract_creds() raises            *)
(*   [kind |-> "long"]     16 bytes or more, without the 64                *)
(*   [kind |-> "fifteen"]  exactly 15 bytes                                *)
(*   [kind |-> "short", last |-> b]   at most 14 bytes, the last one b     *)
(***************************************************************************)
EXTENDS Logs, SequencesExt

CONSTANTS
    Conns, Pdus

Joins == 8   \* "7 times + 1"

VARIABLES
    thread,    \* "none", the place of the next recv() or handshake, or "done"
    gone,      \* the client has closed its side
    joined,    \* turns of the loop so far
    pdus,      \* history: what the loop received
    replies,   \* what was sent
    events

rdpVars == <<thread, gone, joined, pdus, replies, events>>

Places == {"none", "request", "tls", "mcs", "erect", "attach", "joins", "done"}

TypeOK ==
    /\ thread \in [Conns -> Places]
    /\ gone \in [Conns -> BOOLEAN]
    /\ joined \in [Conns -> 0 .. Joins]
    /\ \A c \in Conns : pdus[c] \in Seq(Pdus)

Init ==
    /\ thread = [c \in Conns |-> "none"] /\ gone = [c \in Conns |-> FALSE]
    /\ joined = [c \in Conns |-> 0] /\ pdus = [c \in Conns |-> <<>>]
    /\ replies = [c \in Conns |-> <<>>] /\ events = [c \in Conns |-> <<>>]

Goto(c, place) == thread' = [thread EXCEPT ![c] = place]
Log(c, action) == events' = [events EXCEPT ![c] = Append(@, [action |-> action])]
Send(c, reply) == replies' = [replies EXCEPT ![c] = Append(@, reply)]
Pdu(name) == [pdu |-> name]

\* The outer suppress(): the socket is closed, whatever happened.
Close(c) == Goto(c, "done") /\ UNCHANGED <<gone, joined, pdus, replies, events>>

Leave(c) ==
    /\ thread[c] \notin {"none", "done"} /\ ~gone[c]
    /\ gone' = [gone EXCEPT ![c] = TRUE]
    /\ UNCHANGED <<thread, joined, pdus, replies, events>>

\* getpeername() raises when the client has gone already: then nothing is logged.
Run(c) ==
    /\ thread[c] = "none"
    /\ \/ Log(c, "connection") /\ Goto(c, "request")
       \/ Goto(c, "done") /\ UNCHANGED events
    /\ UNCHANGED <<gone, joined, pdus, replies>>

-------------------------------------------------------------------------------
(* Up to the loop.  A recv() may end by its timeout of 10 seconds; of a client that has     *)
(* gone it returns nothing, which is taken for a PDU, until a send() or getpeername() raises.*)

Fails(c) == thread[c] \in Places \ {"none", "joins", "done"} /\ Close(c)

SendFails(c) == thread[c] = "joins" /\ gone[c] /\ Close(c)

ConnectionRequest(c, pdu) ==
    /\ thread[c] = "request"
    /\ IF pdu.kind = "cookie" THEN Log(c, "stshash") ELSE UNCHANGED events
    /\ Send(c, Pdu("confirm"))
    /\ Goto(c, "tls")
    /\ UNCHANGED <<gone, joined, pdus>>

Handshake(c) ==
    /\ thread[c] = "tls" /\ ~gone[c]
    /\ Goto(c, "mcs")
    /\ UNCHANGED <<gone, joined, pdus, replies, events>>

\* Three PDUs are read and not looked at.
Skip(c) ==
    /\ \/ thread[c] = "mcs" /\ Send(c, Pdu("conference")) /\ Goto(c, "erect")
       \/ thread[c] = "erect" /\ UNCHANGED replies /\ Goto(c, "attach")
       \/ thread[c] = "attach" /\ Send(c, Pdu("user")) /\ Goto(c, "joins")
    /\ UNCHANGED <<gone, joined, pdus, events>>

-------------------------------------------------------------------------------
(* The loop *)

\* MUTANT of Take: a turn too many.
TakeOneMore(c, pdu) ==
    /\ thread[c] = "joins" /\ joined[c] <= Joins
    /\ pdus' = [pdus EXCEPT ![c] = Append(@, pdu)]

Take(c, pdu) ==
    /\ thread[c] = "joins" /\ joined[c] < Joins
    /\ pdus' = [pdus EXCEPT ![c] = Append(@, pdu)]

Disconnect(c) == Send(c, Pdu("disconnect")) /\ Goto(c, "done")

\* A channel join is confirmed, a long PDU is ignored.
Confirmed(pdu) == [pdu |-> "join", last |-> pdu.last]
Join(c, pdu) ==
    /\ Take(c, pdu) /\ pdu.kind \in {"short", "long"}
    /\ joined' = [joined EXCEPT ![c] = @ + 1]
    /\ IF pdu.kind = "short" THEN Send(c, Confirmed(pdu)) ELSE UNCHANGED replies
    /\ UNCHANGED <<thread, gone, events>>

\* MUTANT of Raises: the exception leaves the outer block, too.
RaisesFar(c, pdu) ==
    /\ Take(c, pdu) /\ pdu.kind \in {"creds", "torn", "fifteen"}
    /\ Goto(c, "done")
    /\ UNCHANGED <<gone, joined, replies, events>>

\* check_login() is never reached: the peer is a tuple, and peer.host raises, as data[15]
\* of 15 bytes and an unreadable PDU do; the inner suppress() ends the loop.
Raises(c, pdu) ==
    /\ Take(c, pdu) /\ pdu.kind \in {"creds", "torn", "fifteen"}
    /\ Disconnect(c)
    /\ UNCHANGED <<gone, joined, events>>

\* The turns are used up, the client sends nothing for 10 seconds, or it has gone: data[-1]
\* of no data raises.
LoopEnds(c) ==
    /\ thread[c] = "joins"
    /\ Disconnect(c)
    /\ UNCHANGED <<gone, joined, pdus, events>>

HandlerStep(c) ==
    \/ Fails(c) \/ SendFails(c) \/ Handshake(c) \/ Skip(c) \/ LoopEnds(c)
    \/ \E pdu \in Pdus : ConnectionRequest(c, pdu)
    \/ \E pdu \in Pdus : ~gone[c] /\ (Join(c, pdu) \/ Raises(c, pdu))

Next == \E c \in Conns : Run(c) \/ Leave(c) \/ HandlerStep(c)
-------------------------------------------------------------------------------
(* Properties *)

Offered(c) ==
    {<<x.user, x.password>> : x \in {y \in Range(pdus[c]) : y.kind = "creds"}}

\* A client that stays and gets as far as the channels has every channel join of its
\* confirmed, in order, and is told at the end that it is disconnected, whatever it
\* sends (rdp_server.py:160-186).
DialogueIsClosed ==
    \A c \in Conns :
        LET joins == At(pdus[c], {i \in DOMAIN pdus[c] : pdus[c][i].kind = "short"})
            confirmed == [i \in DOMAIN joins |-> Confirmed(joins[i])]
            Told(name) == Pdu(name) \in Range(replies[c])
        IN  Told("user") =>
              SubSeq(replies[c], 4, Len(replies[c])) =
                 confirmed \o (IF thread[c] = "done" /\ (~gone[c] \/ Told("disconnect"))
                               THEN <<Pdu("disconnect")>> ELSE <<>>)
===============================================================================
