-------------------------- MODULE MCHoneypotsManager --------------------------
(* Command lines of the manager, as instances of HoneypotsManager.  The class of   *)
(* the first entry has the default port p, the others q.                           *)
EXTENDS HoneypotsManager

CONSTANTS p, q

Known(x) == [kind |-> "known", port |-> x]
Unknown(x) == [kind |-> "unknown", port |-> x]
Malformed == [kind |-> "malformed", port |-> NoPort]

Line(mode, setup, strategy) ==
    [mode |-> mode, setup |-> setup, port |-> NoPort, auto |-> FALSE, strategy |-> strategy,
     sniffer |-> FALSE, test |-> FALSE]

\* --setup all, with two services in all_servers
All == Line("all", <<Known(NoPort), Known(NoPort)>>, "input")
\* --setup x,nonsense:q,y,z:0:1
Mixed == Line("configured", <<Known(NoPort), Unknown(q), Known(NoPort), Malformed>>, "input")
\* --setup x:p,y --termination-strategy signal
FirstPort == Line("configured", <<Known(p), Known(NoPort)>>, "signal")
\* --setup x
One == Line("configured", <<Known(NoPort)>>, "input")

\* --setup all --test --sniffer
TestAll == [All EXCEPT !.test = TRUE, !.sniffer = TRUE]
\* --setup x,y:q,z --test --sniffer
TestMixed == [mode |-> "configured", setup |-> <<Known(NoPort), Known(q), Known(NoPort)>>,
              port |-> NoPort, auto |-> FALSE, strategy |-> "input", sniffer |-> TRUE, test |-> TRUE]
\* --setup x --sniffer --termination-strategy signal
Sniffing == [Line("configured", <<Known(NoPort)>>, "signal") EXCEPT !.sniffer = TRUE]
\* --chameleon, two honeypots and an unknown one, with and without sniffer, test, auto
Chameleon(withSniffer, test, auto) ==
    [mode |-> "chameleon", setup |-> <<Known(NoPort), Unknown(NoPort), Known(NoPort)>>,
     port |-> NoPort, auto |-> auto, strategy |-> "input", sniffer |-> withSniffer, test |-> test]
\* --chameleon with a config that names honeypots with ports
Unusable == Line("chameleon", <<Malformed>>, "input")

EveryLine == {All, Mixed, FirstPort, TestAll, TestMixed, Sniffing, Unusable}
             \union {Chameleon(x, test, auto) : x, test, auto \in BOOLEAN}
OnlyFirstPort == {FirstPort}
OnlyOne == {One}

Entries == 1 .. 4
TcpOnly == [s \in Servers |-> {"tcp"}]
DefaultEach == [s \in Servers |-> IF s = 1 THEN p ELSE q]
NoConfig == [s \in Servers |-> NoPort]
===============================================================================
