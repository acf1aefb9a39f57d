---------------------------- MODULE MCQueryServers ----------------------------
(* Twelve honeypots with two peers each: what they may send. *)
EXTENDS QueryServers, FiniteSets, TLC

Peers == Permutations(Conns)

(* bytes that are not UTF-8 *)
MCUndecodable == {"bad"}

(* memcache: pipelined commands, a get without its key, names that are not text *)
Lines == {<<"stats">>, <<"get", "k">>, <<"get">>, <<"set", "k", "0", "0", "5">>, <<"set", "k">>,
          <<"bad">>, <<"get", "bad">>, <<"">>}

(* oracle: descriptors that are whole, repeat a field or part of its name, have odd items, are cut *)
Item(n, b, v, cut) == [name |-> n, begins |-> b, value |-> v, cut |-> cut]
Field(n, v) == Item(n, n, v, v = "")
Fields == {Item("DESCRIPTION", "other", "", TRUE), Field("USER", "u"), Field("USER", "v"), Field("PROGRAM", "p"),
           Item("HOST", "other", "bad", FALSE), Field("SERVICE_NAME", "bad"), Item("USER", "bare", "", FALSE),
           Field("USER", ""), Item("USER_ID", "USER", "w", FALSE), Item("PROGRAM", "PROGRAM", "p=", TRUE)}

(* ipp: every request of up to three attributes, short and long, with and without name,
   numbers, and unknown ones *)
Name(n) == [i \in 1 .. n |-> 97]
Attr(t, n, v) == [tag |-> t, name |-> Name(n), value |-> [i \in 1 .. v |-> 98 + n]]
Attrs == {Attr(71, 7, 5), Attr(68, 1, 1), Attr(68, 0, 1), Attr(68, 0, 6), Attr(33, 1, 4), Attr(34, 1, 1), Attr(90, 1, 1)}
IppRequest(op, group, attributes, tail) ==
    [method |-> "POST", operation |-> op, group |-> group, attributes |-> attributes, tail |-> tail]

(* dhcp: every sequence of up to four options, with values whose bytes look like tags and lengths *)
Option(t, v) == [tag |-> t, value |-> v]
Options == {Option(1, <<1>>), Option(2, <<0, 2>>), Option(1, <<2>>), Option(2, <<>>), [pad |-> 255], [pad |-> 0]}

(* sip: datagrams of up to two messages, of which the ones in front cannot be handled or answered *)
Message(k, i, v) == [kind |-> k, id |-> i, via |-> v]
First == Message("request", "a", "sound")
Second == Message("request", "b", "sound")
Bare == Message("request", "c", "none")
Odd == Message("request", "e", "odd")
Response == Message("response", "d", "sound")

(* sniffer *)
Packet(ip, proto, flags, load, icmp) == [ip |-> ip, proto |-> proto, flags |-> flags, load |-> load, icmp |-> icmp]
Segment(flags, load) == Packet(TRUE, "TCP", flags, load, <<>>)

UpTo(n, S) == UNION {[1 .. m -> S] : m \in 0 .. n}

MCChunks ==
    [memcache |-> {<<l>> : l \in Lines} \union {<<<<"stats">>, <<"get", "k">>>>},
     \* commands that are known, unknown, cut, between escapes
     pjl |-> {<<"UEL", "@pjl echo", " x">>, <<"@pjl info id">>, <<"UEL", "@pjl prodinfo", "UEL">>,
              <<"@pjl fsup">>, <<"@pj">>, <<>>, <<"UEL">>},
     oracle |-> UpTo(2, Fields) \union {<<Field("PROGRAM", "p"), Field("USER", "u"), Field("USER", "v")>>},
     \* requests with and without a host, torn ones
     httpproxy |-> [lines : BOOLEAN, host : {"none", "h", "i"}],
     smb |-> {[kind |-> "connection"], [kind |-> "other"], [kind |-> "hash", user |-> <<"u">>],
              [kind |-> "hash", user |-> <<"u", "v">>]},
     ipp |-> {IppRequest(11, 1, s, <<3>>) : s \in UpTo(3, Attrs)}
             \union {IppRequest(2, 1, <<Attr(71, 7, 5), Attr(68, 1, 1)>>, t) :
                        t \in {<<>>, <<200>>, <<3, 1, 1, 1, 1, 1, 1, 1, 1, 1, 1, 1, 1>>}}
             \union {IppRequest(50, 1, <<Attr(71, 7, 5)>>, <<3>>), IppRequest(11, 11, <<Attr(71, 7, 5)>>, <<3>>)}
             \union {[IppRequest(11, 1, <<>>, <<>>) EXCEPT !.method = "GET"]},
     dhcp |-> {[mac |-> "m", options |-> s] : s \in UpTo(4, Options)} \union {[mac |-> "None", options |-> <<>>]},
     snmp |-> [kind : {"snmp"}, version : {0, 1}, community : {"", "public", "UnKnown"}, oids : {"", "1.3"}]
              \union {[kind |-> "malformed"], [kind |-> "raising"]},
     ntp |-> {[length |-> n, version |-> 3, mode |-> 3, precision |-> p] : n \in {1, 10, 11}, p \in {0, 127, 128}}
             \union {[length |-> 0, version |-> 0, mode |-> 0, precision |-> 0]},
     sip |-> {<<>>} \union {<<m>> : m \in {First, Second, Bare, Odd}}
             \union {<<First, Second>>, <<First, Bare>>, <<First, Odd>>, <<Bare, First>>, <<Odd, First>>,
                     <<Odd, Bare>>, <<Response, Second>>},
     \* two questions over both transports
     dns |-> [udp : BOOLEAN, question : {"q", "r"}] \union {[udp |-> TRUE, question |-> "unreadable"]},
     sniffer |-> {Segment({"S"}, "none"), Segment({"S"}, "plain"), Segment({"S", "A"}, "none"),
                  Segment({"R"}, "none"), Segment({"A"}, "credentials"),
                  Packet(TRUE, "UDP", {}, "plain", <<>>), Packet(FALSE, "TCP", {"S"}, "plain", <<>>),
                  Packet(TRUE, "ICMP", {}, "none", <<8, 0>>), Packet(TRUE, "ICMP", {}, "plain", <<8, 1>>)}]

\* One request where nothing is kept between two, and two for the largest descriptors.
MCMaxChunks ==
    [h \in Honeypots |-> IF h \in {"ipp", "dhcp"} THEN 1 ELSE IF h = "oracle" THEN 2 ELSE 3]

MCAnswers == [q |-> {<<"A">>, <<"CNAME", "A">>}, r |-> {<<"A">>, <<>>}, unreadable |-> {<<>>}]
===============================================================================
