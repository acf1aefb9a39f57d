-------------------------------- MODULE Sniffer --------------------------------
(***************************************************************************)
(* honeypots/sniffer.py: QSniffer.capture_logic, called by scapy for every *)
(* packet on the interface, those of the host itself and the sniffer's own *)
(* answers included: current_ip is bytes, so no source address equals it.  *)
(* A packet is [ip |-> whether it has an IP layer, proto |-> "TCP", "UDP", *)
(* "ICMP" or "other", flags |-> a set of TCP flags, load |-> "none",       *)
(* "plain" or "credentials", icmp |-> <<type, code>>].                     *)
(***************************************************************************)
EXTENDS Queries

VARIABLE pending   \* the sniffer's own answers that have not passed the interface yet

TypeOK ==
    /\ link \in [Conns -> {"open"}]
    /\ \A c \in Conns : pending[c] \in Nat

Init == UdpInit /\ pending = [c \in Conns |-> 0]

IcmpCodes ==
    ({0, 4, 8, 9, 10} \X {0}) \union ({3} \X (0 .. 15)) \union ({5} \X (0 .. 3)) \union ({11} \X {0, 1})
    \union ({12} \X (0 .. 2)) \union ((13 .. 18 \union {30}) \X {0})
FindIcmp(icmp) == IF icmp \in IcmpCodes THEN icmp ELSE "None"

\* One record for every layer with a load that looks like credentials.
CredsCheck(packet) == IF packet.load = "credentials" THEN <<[action |-> "creds_check"]>> ELSE <<>>

LogTcpUdp(packet) ==
    IF packet.ip /\ packet.load # "none" /\ packet.proto \in {"TCP", "UDP"}
    THEN <<[action |-> "payload", layer |-> packet.proto]>> ELSE <<>>

LogIcmp(packet) ==
    IF packet.ip /\ packet.proto = "ICMP" THEN <<[action |-> "icmp", message |-> FindIcmp(packet.icmp)]>>
    ELSE <<>>

\* MUTANT of IsTcpScan: the SYN flag is looked for among the others.
IsTcpScanAnySyn(packet) == packet.ip /\ packet.proto = "TCP" /\ "S" \in packet.flags

IsTcpScan(packet) == packet.ip /\ packet.proto = "TCP" /\ packet.flags = {"S"}

\* A packet between peer c and the host, in either direction; own is 1 for an own answer.
\* A scan is logged, and then send() may raise.
CaptureLogic(c, packet, own) ==
    /\ LogAll(c, CredsCheck(packet) \o LogTcpUdp(packet) \o LogIcmp(packet)
                 \o IF IsTcpScan(packet) THEN <<[action |-> "tcpscan"]>> ELSE <<>>)
    /\ \E sent \in IF IsTcpScan(packet) THEN {0, 1} ELSE {0} :
          /\ replies' = [replies EXCEPT ![c] = IF sent = 1 THEN Append(@, "SA") ELSE @]
          /\ pending' = [pending EXCEPT ![c] = @ - own + sent]
    /\ UNCHANGED link

Capture(c, packet) == Received(c, packet) /\ CaptureLogic(c, packet, 0)

SynAck == [ip |-> TRUE, proto |-> "TCP", flags |-> {"S", "A"}, load |-> "none", icmp |-> <<>>]
CaptureOwn(c) ==
    /\ pending[c] > 0
    /\ Len(replies[c]) <= MaxChunks   \* bound for runs in which answers are answered
    /\ CaptureLogic(c, SynAck, 1)
    /\ UNCHANGED read

Next == \E c \in Conns :
    \/ CaptureOwn(c)
    \/ \E packet \in Chunks : Capture(c, packet)
-------------------------------------------------------------------------------
\* Each packet that asks for a connection is logged once and answered at most once, and
\* although the sniffer sees its own answers, none of them is logged as a scan or answered in
\* turn; an answer that could not be sent is not seen (sniffer.py:98-190).
OneAnswerPerScan ==
    \A c \in Conns :
        LET Asks(p) == p.ip /\ p.proto = "TCP" /\ p.flags = {"S"}
            syns == Cardinality({i \in DOMAIN read[c] : Asks(read[c][i])})
        IN  /\ Len(Matching(events[c], "tcpscan")) = syns
            /\ Len(replies[c]) <= syns
            /\ pending[c] <= Len(replies[c])
===============================================================================
