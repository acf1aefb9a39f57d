---------------------------- MODULE MCBaseServer ----------------------------
(* Instances of BaseServer: three kinds of host a script may run on. *)
EXTENDS BaseServer

CONSTANTS a, b, p, q

TcpOnly == [s \in Servers |-> {"tcp"}]

\* a is a TCP service, b one that (like DNS) binds UDP, then TCP.
Mixed == [s \in Servers |-> IF s = a THEN {"tcp"} ELSE Transport]

\* Both classes have the same default port, the config gives b a port.
Defaults == [s \in Servers |-> p]
NoConfig == [s \in Servers |-> NoPort]
ConfigB == [s \in Servers |-> IF s = b THEN p ELSE NoPort]
=============================================================================
