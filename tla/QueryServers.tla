------------------------------ MODULE QueryServers ------------------------------
(***************************************************************************)
(* The honeypots that answer queries, and the sniffer: one of them, in a   *)
(* process of its own, and its peers.                                      *)
(***************************************************************************)
EXTENDS Logs

CONSTANTS
    Honeypots,    \* those that may be chosen, out of twelve
    Conns,        \* of Connections
    MaxChunks,    \* of Connections, for each honeypot: a record with a field for each
    Chunks,       \* what may arrive, for each honeypot: a record with a field for each
    Undecodable,  \* of StatelessServers
    Eras,         \* of DatagramServers
    NoAddress, Answers  \* of PendingServers

\* What the clients send, as the modules of the honeypots describe it.
ASSUME MemcacheAssumption == Chunks.memcache \subseteq Seq(Seq(STRING) \ {<<>>}) \ {<<>>}
ASSUME PjlAssumption == Chunks.pjl \subseteq Seq(STRING)
ASSUME OracleAssumption ==
    /\ Chunks.oracle \subseteq Seq([name : STRING, begins : STRING, value : STRING, cut : BOOLEAN])
    \* without a value an item ends in "=", and the name of a field begins like it
    /\ \A items \in Chunks.oracle : \A i \in DOMAIN items :
          /\ items[i].begins # "bare" /\ items[i].value = "" => items[i].cut
          /\ items[i].name \in {"SERVICE_NAME", "PROGRAM", "USER"} /\ items[i].begins # "bare" =>
                items[i].begins = items[i].name
ASSUME IppAssumption ==
    LET byte == 0 .. 255
        attribute == [tag : byte, name : Seq(byte), value : Seq(byte)]
    IN  Chunks.ipp \subseteq [method : STRING, operation : Nat, group : byte,
                             attributes : Seq(attribute), tail : Seq(byte)]
ASSUME DhcpAssumption ==
    \A datagram \in Chunks.dhcp :
        datagram.options \in Seq([tag : 0 .. 255, value : Seq(0 .. 255)] \union [pad : 0 .. 255])
ASSUME NtpAssumption == \A datagram \in Chunks.ntp : datagram.precision \in 0 .. 255
ASSUME SipAssumption ==
    Chunks.sip \subseteq Seq([kind : {"request", "response"}, id : STRING,
                              via : {"none", "sound", "odd"}])

\* Every question may be answered somehow, if only with nothing.
ASSUME DnsAssumption ==
    \A chunk \in Chunks.dns : Answers[chunk.question] # {} /\ Answers[chunk.question] \subseteq Seq(STRING)

VARIABLES server, link, read, events, replies, pending

everything == <<server, link, read, events, replies, pending>>

\* What is pending in a honeypot that keeps nothing; nobody logs in with them.
Nothing == <<>>
Configured == <<>>

Memcache == INSTANCE StatelessServers WITH Chunks <- Chunks.memcache, MaxChunks <- MaxChunks.memcache
Pjl == INSTANCE StatelessServers WITH Chunks <- Chunks.pjl, MaxChunks <- MaxChunks.pjl
Oracle == INSTANCE StatelessServers WITH Chunks <- Chunks.oracle, MaxChunks <- MaxChunks.oracle
HttpProxy == INSTANCE StatelessServers WITH Chunks <- Chunks.httpproxy, MaxChunks <- MaxChunks.httpproxy
Smb == INSTANCE StatelessServers WITH Chunks <- Chunks.smb, MaxChunks <- MaxChunks.smb
Ipp == INSTANCE IppServer WITH Chunks <- Chunks.ipp, MaxChunks <- MaxChunks.ipp
Dhcp == INSTANCE DatagramServers WITH Chunks <- Chunks.dhcp, MaxChunks <- MaxChunks.dhcp
Snmp == INSTANCE DatagramServers WITH Chunks <- Chunks.snmp, MaxChunks <- MaxChunks.snmp
Ntp == INSTANCE DatagramServers WITH Chunks <- Chunks.ntp, MaxChunks <- MaxChunks.ntp
Sip == INSTANCE PendingServers WITH Chunks <- Chunks.sip, MaxChunks <- MaxChunks.sip
Dns == INSTANCE PendingServers WITH Chunks <- Chunks.dns, MaxChunks <- MaxChunks.dns
Sniff == INSTANCE Sniffer WITH Chunks <- Chunks.sniffer, MaxChunks <- MaxChunks.sniffer

Init ==
    /\ server \in Honeypots
    /\ \/ server = "memcache" /\ Memcache!Init /\ pending = Nothing
       \/ server = "pjl" /\ Pjl!Init /\ pending = Nothing
       \/ server = "oracle" /\ Oracle!Init /\ pending = Nothing
       \/ server = "httpproxy" /\ HttpProxy!Init /\ pending = Nothing
       \/ server = "ipp" /\ Ipp!Init /\ pending = Nothing
       \/ server = "dhcp" /\ Dhcp!Init /\ pending = Nothing
       \/ server = "snmp" /\ Snmp!Init /\ pending = Nothing
       \/ server = "ntp" /\ Ntp!Init /\ pending = Nothing
       \/ server = "sip" /\ Sip!SipInit
       \/ server = "dns" /\ Dns!DnsInit
       \/ server = "smb" /\ Smb!Init /\ pending = Nothing
       \/ server = "sniffer" /\ Sniff!Init

Next ==
    /\ UNCHANGED server
    /\ \/ server = "memcache" /\ Memcache!MemcacheNext /\ UNCHANGED pending
       \/ server = "pjl" /\ Pjl!PjlNext /\ UNCHANGED pending
       \/ server = "oracle" /\ Oracle!OracleNext /\ UNCHANGED pending
       \/ server = "httpproxy" /\ HttpProxy!HttpProxyNext /\ UNCHANGED pending
       \/ server = "ipp" /\ Ipp!Next /\ UNCHANGED pending
       \/ server = "dhcp" /\ Dhcp!DhcpNext /\ UNCHANGED pending
       \/ server = "snmp" /\ Snmp!SnmpNext /\ UNCHANGED pending
       \/ server = "ntp" /\ Ntp!NtpNext /\ UNCHANGED pending
       \/ server = "sip" /\ Sip!SipNext
       \/ server = "dns" /\ Dns!DnsNext
       \/ server = "smb" /\ Smb!SmbNext /\ UNCHANGED pending
       \/ server = "sniffer" /\ Sniff!Next

Spec == Init /\ [][Next]_everything
-------------------------------------------------------------------------------
\* The variables of the honeypot are well-typed, and its log and answers agree in number
\* with what its peers have sent (the TypeOK of the module of each).
TypeOK ==
    /\ server = "memcache" => Memcache!TypeOK
    /\ server = "pjl" => Pjl!TypeOK
    /\ server = "oracle" => Oracle!TypeOK
    /\ server = "httpproxy" => HttpProxy!HttpProxyTypeOK
    /\ server = "ipp" => Ipp!TypeOK
    /\ server = "dhcp" => Dhcp!DhcpTypeOK
    /\ server = "snmp" => Snmp!SnmpTypeOK
    /\ server = "ntp" => Ntp!NtpTypeOK
    /\ server = "sip" => Sip!SipTypeOK
    /\ server = "dns" => Dns!DnsTypeOK
    /\ server = "smb" => Smb!SmbTypeOK
    /\ server = "sniffer" => Sniff!TypeOK

\* memcache, pjl, oracle, http proxy, snmp, ntp, sip, smb: which requests are in the log and
\* under whose address, and which are answered but not logged (memcache's commands that are
\* not text) or logged but not answered (sip's messages that cannot be delivered).
RequestsAreLogged ==
    /\ server = "memcache" => Memcache!CommandsAreLogged
    /\ server = "pjl" => Pjl!TextsAreLogged
    /\ server = "oracle" => Oracle!FieldsAreLogged
    /\ server = "httpproxy" => HttpProxy!HostsAreLogged
    /\ server = "snmp" => Snmp!CommunitiesAreLogged
    /\ server = "ntp" => Ntp!VersionsAreLogged
    /\ server = "sip" => Sip!MessagesAreLogged
    /\ server = "smb" => Smb!HashesAreLogged

\* ipp: the parser against the request it was sent.
AttributesAreRead == server = "ipp" => Ipp!AttributesAreRead

\* dhcp: the parser against the options it was sent.
OptionsAreRead == server = "dhcp" => Dhcp!OptionsAreRead

\* dns: answers that come late, out of order or for several at once.
AnswersGoToAskers == server = "dns" => Dns!AnswersGoToAskers

\* sniffer: its own answers come back to it.
OneAnswerPerScan == server = "sniffer" => Sniff!OneAnswerPerScan
===============================================================================
