--------------------------- MODULE DatagramServers ---------------------------
(***************************************************************************)
(* honeypots/snmp_server.py, ntp_server.py and dhcp_server.py: the         *)
(* CustomDatagramProtocolProtocol of each, which handles every datagram by *)
(* itself.                                                                 *)
(*                                                                         *)
(* SNMP: a datagram is                                                     *)
(* [kind |-> "snmp", version |-> v, community |-> t, oids |-> t],          *)
(* [kind |-> "malformed"] (Scapy_Exception) or [kind |-> "raising"]        *)
(* (any other exception of scapy or of a field that is not there).         *)
(*                                                                         *)
(* NTP: a datagram is its bytes (the first one split into version and      *)
(* mode) as [length |-> n, version |-> v, mode |-> m, precision |-> the    *)
(* fourth].  The clock is read for every datagram; its seconds since 1900  *)
(* fit into 32 bits in era 0, which ends in 2036.                          *)
(*                                                                         *)
(* DHCP: a datagram is [mac |-> the hardware address or "None" if it is    *)
(* shorter than 34 bytes, options |-> what the client means by the bytes   *)
(* from 240 on], a sequence of [tag |-> t, value |-> bytes] and, for       *)
(* single bytes without a length, [pad |-> b].  payload() is never called: *)
(* nothing is answered.                                                    *)
(***************************************************************************)
EXTENDS Queries, Integers, TLC

CONSTANT Eras   \* the eras in which the NTP server may run

Init == UdpInit

-------------------------------------------------------------------------------
(* SNMP *)

SnmpTypeOK == QueriesTypeOK /\ \A c \in Conns : Len(events[c]) <= 2 * Len(read[c])

ParseSnmp(datagram) ==
    IF datagram.kind = "malformed" THEN <<"UnKnown", "UnKnown", "UnKnown">>
    ELSE <<datagram.version, datagram.community, datagram.oids>>

\* Version 1 is the number 0, which counts as nothing like an empty text.
FoundNothing(datagram) == datagram.version = 0 /\ datagram.community = "" /\ datagram.oids = ""

Answered(c, datagram) ==
    /\ Received(c, datagram)
    /\ datagram.kind = "malformed" \/ (datagram.kind = "snmp" /\ ~FoundNothing(datagram))
    /\ LogAll(c, <<Connection, Query(ParseSnmp(datagram))>>)
    /\ Reply(c, "Error")
    /\ UNCHANGED link

\* Nothing was found, or the handler raised, which the reactor only writes to its own log.
Ignored(c, datagram) ==
    /\ Received(c, datagram)
    /\ datagram.kind = "raising" \/ (datagram.kind = "snmp" /\ FoundNothing(datagram))
    /\ Log(c, Connection)
    /\ UNCHANGED <<link, replies>>

SnmpNext == \E c \in Conns : \E datagram \in Chunks :
    Answered(c, datagram) \/ Ignored(c, datagram)

\* Every datagram is seen in the log, whatever raised before it; whoever is answered is in
\* it with a query, and every community that was given is there: one that is called
\* "UnKnown" cannot be told from that of a malformed datagram (snmp_server.py:20-52).
CommunitiesAreLogged ==
    \A c \in Conns :
        LET named == At(read[c], {i \in DOMAIN read[c] :
                                     /\ read[c][i].kind = "snmp"
                                     /\ read[c][i].community \notin {"", "UnKnown"}})
            found == At(Queried(c), {i \in DOMAIN Queried(c) : Queried(c)[i][2] \notin {"", "UnKnown"}})
        IN  /\ Len(Matching(events[c], "connection")) = Len(read[c])
            /\ Len(Queried(c)) = Len(replies[c])
            /\ [i \in DOMAIN found |-> found[i][2]] = [i \in DOMAIN named |-> named[i].community]

-------------------------------------------------------------------------------
(* NTP *)

NtpTypeOK == QueriesTypeOK /\ \A c \in Conns : Len(events[c]) = 2 * Len(read[c])

\* pack() takes the fourth byte for a signed one, needs the eleventh, and has 64 bits for
\* the time.
IsPacked(datagram, era) ==
    datagram.length > 10 /\ datagram.precision < 128 /\ era = 0

Found(datagram) ==
    IF datagram.length = 0 THEN <<"UnKnown", "UnKnown">> ELSE <<datagram.version, datagram.mode>>

Status(datagram, era) == IF IsPacked(datagram, era) THEN "success" ELSE "failed"

TimeAsked(c, datagram, era) ==
    /\ Received(c, datagram)
    /\ LogAll(c, <<Connection, [action |-> "query", data |-> Found(datagram),
                                status |-> Status(datagram, era)]>>)
    /\ IF IsPacked(datagram, era) THEN Reply(c, "time") ELSE UNCHANGED replies
    /\ UNCHANGED link

NtpNext == \E c \in Conns : \E datagram \in Chunks : \E era \in Eras :
    TimeAsked(c, datagram, era)

\* Every datagram is logged with its version and mode, the empty one and those that cannot
\* be answered too, and success is logged as often as an answer was sent, which is never
\* for a datagram whose precision is negative, as that of every real clock
\* (ntp_server.py:33-74).
VersionsAreLogged ==
    \A c \in Conns :
        LET queries == Matching(events[c], "query")
            sent == {i \in DOMAIN queries : queries[i].status = "success"}
        IN  /\ Queried(c) = [i \in DOMAIN read[c] |-> Found(read[c][i])]
            /\ Cardinality(sent) = Len(replies[c])
            /\ \A i \in sent : read[c][i].precision \in 0 .. 127

-------------------------------------------------------------------------------
(* DHCP *)

DhcpTypeOK == QueriesTypeOK /\ \A c \in Conns : Len(events[c]) = Len(read[c])

\* How a client encodes its options (RFC 2132).
Encoded(option) ==
    IF "pad" \in DOMAIN option THEN <<option.pad>>
    ELSE <<option.tag, Len(option.value)>> \o option.value
Raw(options) == Joined([i \in DOMAIN options |-> Encoded(options[i])])

\* The loop's variables: -1 stands for None.
Start == [name |-> -1, size |-> -1, tag |-> <<>>, options |-> [t \in {} |-> <<>>]]

With(options, t, v) == [u \in DOMAIN options \union {t} |-> IF u = t THEN v ELSE options[u]]

ReadName(s, b) == [s EXCEPT !.name = b]
ReadSize(s, b) == [s EXCEPT !.size = b, !.tag = <<>>]
ReadByte(s, b) ==
    IF s.size > 1 THEN [s EXCEPT !.size = @ - 1, !.tag = Append(@, b)]
    ELSE [Start EXCEPT !.options = With(s.options, s.name, Append(s.tag, b))]

\* MUTANT of Step: an empty option is complete at once.
StepEmptyOption(s, b) ==
    IF s.name = -1 THEN ReadName(s, b)
    ELSE IF s.size = -1 THEN IF b = 0 THEN [Start EXCEPT !.options = s.options] ELSE ReadSize(s, b)
    ELSE ReadByte(s, b)

\* After a length of zero nothing is read any more.
Step(s, b) ==
    IF s.name = -1 THEN ReadName(s, b)
    ELSE IF s.size = -1 THEN ReadSize(s, b)
    ELSE IF s.size > 0 THEN ReadByte(s, b)
    ELSE s

ParseOptions(raw) ==
    LET after[n \in 0 .. Len(raw)] == IF n = 0 THEN Start ELSE Step(after[n - 1], raw[n])
    IN  after[Len(raw)].options

LeaseAsked(c, datagram) ==
    /\ Received(c, datagram)
    /\ Log(c, Query([mac_address |-> datagram.mac, options |-> ParseOptions(Raw(datagram.options))]))
    /\ UNCHANGED <<link, replies>>

DhcpNext == \E c \in Conns : \E datagram \in Chunks : LeaseAsked(c, datagram)

IsPad(option) == "pad" \in DOMAIN option
IsEmpty(option) == ~IsPad(option) /\ option.value = <<>>

\* What is logged of a datagram is its options with the last value of each, up to the first
\* that is empty or to the end mark and the padding; nothing is made up of what follows an
\* empty option, which is never read (dhcp_server.py:55-74).
OptionsAreRead ==
    \A c \in Conns : \A i \in DOMAIN read[c] :
        LET options == read[c][i].options
            odd == {k \in DOMAIN options : IsPad(options[k]) \/ IsEmpty(options[k])}
            whole == {k \in DOMAIN options : \A j \in 1 .. k : j \notin odd}
            Value(t) == options[Latest({k \in whole : options[k].tag = t})].value
            IsEnd(k) == IsEmpty(options[k]) \/ \A j \in k + 1 .. Len(options) : options[j] = [pad |-> 0]
        IN  /\ events[c][i].data.mac_address = read[c][i].mac
            /\ odd = {} \/ IsEnd(Earliest(odd)) =>
                  events[c][i].data.options = [t \in {options[k].tag : k \in whole} |-> Value(t)]
===============================================================================
