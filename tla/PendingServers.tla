----------------------------- MODULE PendingServers -----------------------------
(***************************************************************************)
(* honeypots/sip_server.py and dns_server.py, where Twisted keeps          *)
(* something from one call of the handlers to later ones.                  *)
(*                                                                         *)
(* SIP (CustomSIPServer on sip.Base): Twisted adds the messages of a       *)
(* datagram to a list, handles the list in order and empties it at the     *)
(* end.  A datagram is a sequence of messages:                             *)
(*   [kind |-> "request" or "response", id |-> i, via |-> "none" if it has *)
(*    no Via header that can be read, "odd" if what it names cannot always *)
(*    be answered (no address, a port out of range: it depends on who sent *)
(*    the datagram with which it is handled), else "sound"].               *)
(*                                                                         *)
(* DNS (CustomDnsUdpProtocol, CustomDNSServerFactory and                   *)
(* CustomClientResolver over Twisted's names): a chunk is                  *)
(*   [udp |-> whether it is a datagram, question |-> q or "unreadable"].   *)
(* The resolver asks a name server once for all who wait for the same      *)
(* question; answers come in any order, or the look-up fails.              *)
(***************************************************************************)
EXTENDS Queries

CONSTANTS
    NoAddress,   \* dns: the address the factory gets for a question over TCP
    Answers      \* dns: for every question, the sequences of items that may answer it

VARIABLE pending   \* sip: the list of messages, which is the same for all addresses;
                   \* dns: who waits for the resolver, in the order of the questions

-------------------------------------------------------------------------------
(* SIP *)

SipTypeOK ==
    /\ link \in [Conns -> {"open"}]
    /\ \A i \in DOMAIN pending : pending[i].kind \in {"request", "response"}
    /\ \A c \in Conns : 2 * Len(replies[c]) <= Len(events[c])

SipInit == UdpInit /\ pending = <<>>

\* The address is fixed in the Via header before a message is handled, and there is no
\* handler of responses.
Raising(message) == message.via = "none" \/ message.kind = "response"
Failing(messages) == {i \in DOMAIN messages : Raising(messages[i])}

HandleRequest(message) == <<Connection, [action |-> "request", data |-> message.id]>>

\* Those before the first that raises.
Handled(messages) == At(messages, {i \in DOMAIN messages : Failing(messages) \intersect 1 .. i = {}})

\* How many of them may be answered: all, or those before one whose answer raises.
Answerable(handled) ==
    {n \in 0 .. Len(handled) : n < Len(handled) => handled[n + 1].via = "odd"}

\* MUTANT of Rest: the list is emptied whatever happens.
RestEmptied(messages, n) == <<>>

\* An exception leaves the list as it is.
Rest(messages, n) == IF n = Len(messages) THEN <<>> ELSE messages

\* The one whose answer raises was logged like those before it.
DatagramReceived(c, datagram) ==
    LET messages == pending \o datagram
        handled == Handled(messages)
    IN  /\ Received(c, datagram)
        /\ \E n \in Answerable(handled) :
              LET logged == At(handled, {i \in DOMAIN handled : i <= n + 1})
              IN  /\ LogAll(c, Joined([i \in DOMAIN logged |-> HandleRequest(logged[i])]))
                  /\ replies' = [replies EXCEPT ![c] = @ \o [i \in 1 .. n |-> handled[i].id]]
                  /\ pending' = Rest(messages, n)
        /\ UNCHANGED link

SipNext == \E c \in Conns : \E datagram \in Chunks : DatagramReceived(c, datagram)

Sent(c) == Joined(read[c])
Ids(c) ==
    LET requests == Matching(events[c], "request")
    IN  [i \in DOMAIN requests |-> requests[i].data]
IdsIn(messages) == {messages[i].id : i \in DOMAIN messages}

\* As long as every message sent could be handled and answered, the log has the requests of
\* each address under that address, in order, and nothing waits.  After one that raised the
\* list is handled again with every datagram, whoever sent it: then a request may be logged
\* under the address of another, and again and again, but none is lost, each is in the log
\* or in the list, and none that nobody has sent is in the log (sip_server.py:20-45).
MessagesAreLogged ==
    LET IsSound(m) == ~Raising(m) /\ m.via = "sound"
        told == UNION {{Ids(c)[i] : i \in DOMAIN Ids(c)} : c \in Conns}
        sent == UNION {IdsIn(Sent(c)) : c \in Conns}
        due == UNION {{Sent(c)[i].id : i \in DOMAIN Sent(c) \ Failing(Sent(c))} : c \in Conns}
    IN  /\ told \subseteq sent /\ due \subseteq told \union IdsIn(pending)
        /\ (\A c \in Conns : \A i \in DOMAIN Sent(c) : IsSound(Sent(c)[i])) =>
              pending = <<>> /\ \A c \in Conns : Ids(c) = [i \in DOMAIN Sent(c) |-> Sent(c)[i].id]

-------------------------------------------------------------------------------
(* DNS *)

Addresses == Conns \union {NoAddress}

DnsTypeOK ==
    /\ link \in [Conns -> {"open"}]
    /\ \A i \in DOMAIN pending : pending[i].address \in Addresses
    /\ \A a \in Addresses : \A i \in DOMAIN replies[a] : replies[a][i].answered \in BOOLEAN

DnsInit ==
    /\ link = [c \in Conns |-> "open"]
    /\ read = [c \in Conns |-> <<>>]
    /\ events = [a \in Addresses |-> <<>>]
    /\ replies = [a \in Addresses |-> <<>>]
    /\ pending = <<>>

Address(c, chunk) == IF chunk.udp THEN c ELSE NoAddress

\* A datagram is logged whatever it contains, a question over TCP is not.
Arrives(c, chunk) ==
    /\ Received(c, chunk)
    /\ IF chunk.udp THEN Log(c, [action |-> "connection", data |-> chunk.question])
       ELSE UNCHANGED events
    /\ UNCHANGED <<link, replies>>

Question(c, chunk) ==
    /\ Arrives(c, chunk) /\ chunk.question # "unreadable"
    /\ pending' = Append(pending, [address |-> Address(c, chunk), question |-> chunk.question])

Unreadable(c, chunk) ==
    /\ Arrives(c, chunk) /\ chunk.question = "unreadable"
    /\ UNCHANGED pending

\* Those who wait for q at address a, and what each of them gets.
Waiting(a, q) ==
    At(pending, {i \in DOMAIN pending : pending[i].address = a /\ pending[i].question = q})
ForEach(a, q, s) == Joined([i \in DOMAIN Waiting(a, q) |-> s])
Answered(q, answered) ==
    /\ \E i \in DOMAIN pending : pending[i].question = q
    /\ replies' = [a \in Addresses |-> replies[a] \o
                      ForEach(a, q, <<[question |-> q, answered |-> answered]>>)]
    /\ pending' = At(pending, {i \in DOMAIN pending : pending[i].question # q})
    /\ UNCHANGED <<link, read>>

Item(q, data) == [action |-> "query", question |-> q, data |-> data]

\* MUTANT of GotResolverResponse: all who wait are taken for the first of them.
GotResolverResponseOnce(q, items) ==
    LET all == {i \in DOMAIN pending : pending[i].question = q}
        first == pending[Earliest(all)].address
        logged == Joined([j \in 1 .. Cardinality(all) |-> [i \in DOMAIN items |-> Item(q, items[i])]])
    IN  /\ Answered(q, TRUE)
        /\ events' = [events EXCEPT ![first] = @ \o logged]

\* Every item of the answer is logged, under the address of each who waits.
GotResolverResponse(q, items) ==
    /\ Answered(q, TRUE)
    /\ events' = [a \in Addresses |->
                     events[a] \o ForEach(a, q, [i \in DOMAIN items |-> Item(q, items[i])])]

QueryFailed(q) == Answered(q, FALSE) /\ UNCHANGED events

DnsNext ==
    \/ \E c \in Conns : \E chunk \in Chunks : Question(c, chunk) \/ Unreadable(c, chunk)
    \/ \E chunk \in Chunks :
          \/ \E items \in Answers[chunk.question] : GotResolverResponse(chunk.question, items)
          \/ QueryFailed(chunk.question)

\* Where questions came from an address: of all peers for the one that stands for TCP.
AskedBy(a, q) ==
    UNION {{c} \X {i \in DOMAIN read[c] : read[c][i].question = q /\ Address(c, read[c][i]) = a} :
        c \in Conns}

\* However answers overtake each other and whoever shares one: every question of an address
\* is waiting or was answered once, and the items in the log under an address belong to its
\* own answered questions, no fewer than those, none of them twice (dns_server.py:36-64).
AnswersGoToAskers ==
    \A a \in Addresses : \A chunk \in Chunks :
        LET q == chunk.question
            mine == At(replies[a], {i \in DOMAIN replies[a] : replies[a][i].question = q})
            answered == Cardinality({i \in DOMAIN mine : mine[i].answered})
            found == Matching(events[a], "query")
            items == Cardinality({i \in DOMAIN found : found[i].question = q})
            sizes == {Len(s) : s \in Answers[q]}
        IN  q # "unreadable" =>
              /\ Cardinality(AskedBy(a, q)) = Len(mine) + Len(Waiting(a, q))
              /\ \E few, many \in sizes : items \in few * answered .. many * answered
===============================================================================
