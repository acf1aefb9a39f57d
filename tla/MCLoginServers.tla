---------------------------- MODULE MCLoginServers ----------------------------
(* What the clients of the thirteen honeypots send in the runs. *)
EXTENDS LoginServers, TLC

(* telnet: answers that arrive whole, in pieces, several at once and around commands *)
Text(s) == [kind |-> "text", data |-> s]
Command == [kind |-> "command"]
Pieces == {<<Text(<<"r">>)>>, <<Text(<<"NL">>)>>, <<Text(<<"p", "NL">>)>>, <<Text(<<"r", "NL", "p">>)>>,
           <<Command>>, <<Command, Text(<<"r", "NL">>), Command, Text(<<"p">>), Command, Text(<<"q", "NL">>)>>}

(* postgres: every sequence of messages *)
Messages == {[kind |-> "ssl"], [kind |-> "binary"], [kind |-> "startup", user |-> NoUser],
             [kind |-> "startup", user |-> "u"], [kind |-> "password", password |-> "p"]}

(* mysql: login packets of the configured and of another user, whole and cut *)
Handshakes == [user : {"u", "v"}, hash : {"p", "x", "absent"}] \union {[user |-> "u", hash |-> "cut"]}

(* vnc: two words, of which one has the response of the configured password *)
Words == <<"longpass1", "test">>
Responses == [w \in {"longpass1", "longpass2", "test"} |-> IF w = "test" THEN "r:test" ELSE "r:longpass"]

(* ldap: names and passwords on both sides of the lengths at which the encoding changes, and
   some that have not arrived whole *)
Torn(u, m, p, n, k) == [kind |-> "bind", user |-> u, size |-> m, password |-> p, length |-> n, cut |-> k]
Simple(u, m, p, n) == Torn(u, m, p, n, 0)
Sasl(u, m) == [kind |-> "sasl", user |-> u, size |-> m]
Binds == {Simple("u", 1, "p", 127), Simple("u", 127, "q", 128), Simple("u", 128, "p", 1), Simple("u", 129, "p", 1),
          Simple("", 0, "", 0), Torn("u", 1, "p", 300, 200), Torn("", 0, "p", 128, 128),
          Sasl("v", 256), [kind |-> "other"]}

(* mssql: a password with Z and its neighbours, the first and the last character of ASCII *)
TryLogin(u, p) == [kind |-> "login", user |-> u, password |-> p]
Packets == {[kind |-> "prelogin"], [kind |-> "other"], [kind |-> "odd"],
            TryLogin("u", <<1, 65, 89, 90, 91, 122, 127>>), TryLogin("v", <<112, 119>>)}

(* pop3, ftp: lines with too few and too many words, unknown commands, empty names *)
Pop3Lines == {<<"USER", "u">>, <<"USER", "">>, <<"USER">>, <<"QUIT">>,
              <<"PASS", "p">>, <<"PASS", "p", "q">>, <<"PASS">>}
FtpLines == {<<"USER", "u">>, <<"USER", "anonymous">>, <<"USER", "">>, <<"PASS", "p">>,
             <<"PASS">>, <<"RNFR", "f">>, <<"RNTO", "g">>, <<"QUIT">>}

(* imap: logins with and without literals *)
ImapLines == {[kind |-> "login", user |-> "u", password |-> "p"], [kind |-> "literal", user |-> "v"],
              [kind |-> "rest", password |-> "q", passes |-> FALSE],
              [kind |-> "rest", password |-> "login1", passes |-> TRUE],
              [kind |-> "capability"], [kind |-> "other"]}

(* redis: whole and torn requests, a field of ten bytes, one that is not of ASCII, a count
   of two digits *)
Field(t, n, m) == [length |-> n, text |-> t, chars |-> m]
Ascii(t, n) == Field(t, n, n)
Request(n, k, s) == [kind |-> "request", name |-> n, count |-> k, args |-> s]
Requests == {Request("AUTH", 2, <<Ascii("p", 1)>>), Request("AUTH", 3, <<Ascii("u", 1), Ascii("p", 1)>>),
             Request("AUTH", 3, <<Ascii("u", 1)>>), Request("AUTH", 4, <<Ascii("u", 1), Ascii("p", 1)>>),
             Request("AUTH", 20, <<Ascii("u", 1), Ascii("p", 1)>>), Request("AUTH", 2, <<Ascii("p", 10)>>),
             Request("AUTH", 3, <<Ascii("u", 1), Field("p", 12, 1)>>), Request("AUTH", 2, <<Field("q", 6, 2)>>),
             Request("AUTH", 2, <<Field("z", 2, 1)>>), Request("PING", 1, <<>>), [kind |-> "other"]}

(* smtp, irc *)
SmtpLines == {[kind |-> "hello"], [kind |-> "plain", user |-> "u", password |-> "p"], [kind |-> "auth"],
              [kind |-> "plain", user |-> "u", password |-> "q"], [kind |-> "malformed"], [kind |-> "other"]}
IrcLines == {<<"PASS", "p">>, <<"PASS", "q">>, <<"PASS">>, <<"NICK", "u">>, <<"NICK">>, <<"binary">>}

(* http: forms that are whole, cut, given twice, in the wrong place or encoding *)
Form(method, uri, form) == [method |-> method, uri |-> uri, form |-> form, encoding |-> "urlencoded"]
User == <<"username", "u">>
Pass(p) == <<"password", p>>
HttpRequests == {Form("GET", "/login.html", <<>>), Form("HEAD", "/", <<>>), Form("POST", "/", <<User>>),
                 Form("POST", "/login.html", <<User, Pass("p")>>), Form("POST", "/", <<Pass("q"), User>>),
                 Form("POST", "/admin", <<User, Pass("p")>>), Form("POST", "/", <<User, Pass("")>>),
                 Form("POST", "/", <<User, Pass("p"), Pass("q")>>),
                 [Form("POST", "/", <<User, Pass("p")>>) EXCEPT !.encoding = "multipart"]}

Sent == [telnet |-> Pieces, postgres |-> Messages, mysql |-> Handshakes,
         vnc |-> {"version", "security", "r:longpass", "r:other"}, ldap |-> Binds, mssql |-> Packets,
         pop3 |-> Pop3Lines, ftp |-> FtpLines, imap |-> ImapLines, redis |-> Requests,
         smtp |-> SmtpLines, irc |-> IrcLines, http |-> HttpRequests]

Part(of, size) == [of |-> of, skip |-> 1, count |-> size]
Logins == [telnet |-> <<<<"r">>, <<"p">>>>, postgres |-> <<"u", "p">>, mysql |-> <<"u", "p">>,
           vnc |-> <<"", "longpass2">>, ldap |-> <<Part("u", 1), Part("p", 127)>>,
           mssql |-> <<"v", <<112, 119>>>>,
           pop3 |-> <<"u", <<"p">>>>, ftp |-> <<"u", "p">>, imap |-> <<"u", "p">>, redis |-> <<"u", "p">>,
           smtp |-> <<"u", "p">>, irc |-> <<"u", "p">>, http |-> <<"u", "p">>]

Peers == Permutations(Conns)
===============================================================================
