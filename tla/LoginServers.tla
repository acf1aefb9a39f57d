------------------------------ MODULE LoginServers ------------------------------
(***************************************************************************)
(* The honeypots that log logins and run in Twisted's reactor: one of      *)
(* them, in a process of its own, and its clients.                         *)
(***************************************************************************)
EXTENDS Logs

CONSTANTS
    Honeypots,         \* those that may be chosen, out of thirteen
    Conns, MaxChunks,  \* of Connections
    Chunks,            \* what may arrive, for each honeypot: a record with a field for each
    Configured,        \* its user name and password: a record with a field for each
    NoUser, CaptureCommands,
    MysqlWords, WordsAreText,  \* of MysqlServer
    VncWords, Encode,          \* of VncServer
    Anonymous                  \* of FtpServer

\* Hashes are no words for hashes that are missing.
ASSUME MysqlAssumption == MysqlWords \intersect {"cut", "absent"} = {}
ASSUME VncAssumption == VncWords \in Seq(STRING)

\* Telnet clients send runs of text and commands.
ASSUME TelnetAssumption ==
    \A chunk \in Chunks.telnet :
        chunk \in Seq([kind : {"command"}] \union [kind : {"text"}, data : Seq(STRING)])

\* The length of an LDAP name or password takes two bytes at most, a character of an MSSQL password
\* is one of ASCII, and redis fields have a length of six digits at most.
ASSUME LdapAssumption ==
    \A b \in Chunks.ldap :
        /\ b.kind # "other" => b.size \in Nat /\ b.size < 256 * 256
        /\ b.kind = "bind" => b.length \in Nat /\ b.length < 256 * 256 /\ b.cut \in 0 .. b.length
Letters == {n \in Nat : 0 < n /\ n < 128}
ASSUME MssqlAssumption == \A b \in Chunks.mssql : b.kind = "login" => b.password \in Seq(Letters)
ASSUME RedisAssumption ==
    \A r \in Chunks.redis : r.kind = "request" =>
        /\ r.args \in Seq([length : Nat, text : STRING, chars : Nat]) /\ r.count < 1000 * 1000
        /\ \A i \in DOMAIN r.args : r.args[i].length < 1000 * 1000

\* A line has at least one word, and no word is the name of nobody.
ASSUME LinesAssumption ==
    /\ \A line \in Chunks.pop3 \union Chunks.ftp \union Chunks.irc :
          line \in Seq(STRING) /\ line # <<>> /\ \A i \in DOMAIN line : line[i] # NoUser
    /\ \A line \in Chunks.imap : line.kind = "literal" =>
          line \in [kind : {"literal"}, user : STRING] /\ line.user # NoUser
    /\ \A r \in Chunks.http : r.form \in Seq(STRING \X STRING)

VARIABLES server, link, read, events, state, user, buffer, answers, replies

tcp == <<link, read, events>>
everything == <<server, tcp, state, user, buffer, answers, replies>>

\* What the variables are that a protocol object does not have.
Nothing == [c \in Conns |-> <<>>]

Telnet == INSTANCE TelnetServer WITH Chunks <- Chunks.telnet, Configured <- Configured.telnet
Postgres == INSTANCE PostgresServer WITH Chunks <- Chunks.postgres, Configured <- Configured.postgres
Mysql == INSTANCE MysqlServer WITH Chunks <- Chunks.mysql, Configured <- Configured.mysql, Words <- MysqlWords
Vnc == INSTANCE VncServer WITH Chunks <- Chunks.vnc, Configured <- Configured.vnc, Words <- VncWords
Ldap == INSTANCE LdapServer WITH Chunks <- Chunks.ldap, Configured <- Configured.ldap
Mssql == INSTANCE MssqlServer WITH Chunks <- Chunks.mssql, Configured <- Configured.mssql
Pop3 == INSTANCE Pop3Server WITH Chunks <- Chunks.pop3, Configured <- Configured.pop3
Ftp == INSTANCE FtpServer WITH Chunks <- Chunks.ftp, Configured <- Configured.ftp
Imap == INSTANCE ImapServer WITH Chunks <- Chunks.imap, Configured <- Configured.imap
Redis == INSTANCE RedisServer WITH Chunks <- Chunks.redis, Configured <- Configured.redis
Smtp == INSTANCE SmtpServer WITH Chunks <- Chunks.smtp, Configured <- Configured.smtp
Irc == INSTANCE IrcServer WITH Chunks <- Chunks.irc, Configured <- Configured.irc
Http == INSTANCE HttpServer WITH Chunks <- Chunks.http, Configured <- Configured.http

Init ==
    /\ server \in Honeypots
    /\ \/ /\ server = "telnet" /\ Telnet!Init /\ replies = Nothing
       \/ /\ server = "postgres" /\ Postgres!Init
          /\ buffer = Nothing /\ answers = Nothing /\ replies = Nothing
       \/ /\ server = "mysql" /\ Mysql!Init
          /\ state = Nothing /\ user = Nothing /\ buffer = Nothing /\ answers = Nothing
       \/ /\ server = "vnc" /\ Vnc!Init
          /\ user = Nothing /\ buffer = Nothing /\ answers = Nothing /\ replies = Nothing
       \/ /\ server = "ldap" /\ Ldap!Init
          /\ user = Nothing /\ buffer = Nothing /\ answers = Nothing /\ replies = Nothing
       \/ /\ server = "mssql" /\ Mssql!Init
          /\ state = Nothing /\ user = Nothing /\ buffer = Nothing /\ answers = Nothing
       \/ /\ server = "pop3" /\ Pop3!Init /\ state = Nothing /\ buffer = Nothing /\ answers = Nothing
       \/ /\ server = "ftp" /\ Ftp!Init /\ buffer = Nothing /\ answers = Nothing /\ replies = Nothing
       \/ /\ server = "imap" /\ Imap!Init
          /\ state = Nothing /\ buffer = Nothing /\ answers = Nothing /\ replies = Nothing
       \/ /\ server = "redis" /\ Redis!Init
          /\ state = Nothing /\ user = Nothing /\ buffer = Nothing /\ answers = Nothing
       \/ /\ server = "smtp" /\ Smtp!Init
          /\ state = Nothing /\ user = Nothing /\ buffer = Nothing /\ answers = Nothing /\ replies = Nothing
       \/ /\ server = "irc" /\ Irc!Init
          /\ state = Nothing /\ buffer = Nothing /\ answers = Nothing /\ replies = Nothing
       \/ /\ server = "http" /\ Http!Init
          /\ state = Nothing /\ user = Nothing /\ buffer = Nothing /\ answers = Nothing

Next ==
    /\ UNCHANGED server
    /\ \/ server = "telnet" /\ Telnet!Next /\ UNCHANGED replies
       \/ server = "postgres" /\ Postgres!Next /\ UNCHANGED <<buffer, answers, replies>>
       \/ server = "mysql" /\ Mysql!Next /\ UNCHANGED <<state, user, buffer, answers>>
       \/ server = "vnc" /\ Vnc!Next /\ UNCHANGED <<user, buffer, answers, replies>>
       \/ server = "ldap" /\ Ldap!Next /\ UNCHANGED <<user, buffer, answers, replies>>
       \/ server = "mssql" /\ Mssql!Next /\ UNCHANGED <<state, user, buffer, answers>>
       \/ server = "pop3" /\ Pop3!Next /\ UNCHANGED <<state, buffer, answers>>
       \/ server = "ftp" /\ Ftp!Next /\ UNCHANGED <<buffer, answers, replies>>
       \/ server = "imap" /\ Imap!Next /\ UNCHANGED <<state, buffer, answers, replies>>
       \/ server = "redis" /\ Redis!Next /\ UNCHANGED <<state, user, buffer, answers>>
       \/ server = "smtp" /\ Smtp!Next /\ UNCHANGED <<state, user, buffer, answers, replies>>
       \/ server = "irc" /\ Irc!Next /\ UNCHANGED <<state, buffer, answers, replies>>
       \/ server = "http" /\ Http!Next /\ UNCHANGED <<state, user, buffer, answers>>

Spec == Init /\ [][Next]_everything
-------------------------------------------------------------------------------
\* The variables of the honeypot are well-typed, and its state agrees with what its
\* peers have sent (the TypeOK of the module of each).
TypeOK ==
    /\ server = "telnet" => Telnet!TypeOK
    /\ server = "postgres" => Postgres!TypeOK
    /\ server = "mysql" => Mysql!TypeOK
    /\ server = "vnc" => Vnc!TypeOK
    /\ server = "ldap" => Ldap!TypeOK
    /\ server = "mssql" => Mssql!TypeOK
    /\ server = "pop3" => Pop3!TypeOK
    /\ server = "ftp" => Ftp!TypeOK
    /\ server = "imap" => Imap!TypeOK
    /\ server = "redis" => Redis!TypeOK
    /\ server = "smtp" => Smtp!TypeOK
    /\ server = "irc" => Irc!TypeOK
    /\ server = "http" => Http!TypeOK

Offered(c) ==
    IF server = "telnet" THEN Telnet!Offered(c)
    ELSE IF server = "postgres" THEN Postgres!Offered(c)
    ELSE IF server = "mysql" THEN Mysql!Offered(c)
    ELSE IF server = "vnc" THEN Vnc!Offered(c)
    ELSE IF server = "ldap" THEN Ldap!Offered(c)
    ELSE IF server = "mssql" THEN Mssql!Offered(c)
    ELSE IF server = "pop3" THEN Pop3!Offered(c)
    ELSE IF server = "ftp" THEN Ftp!Offered(c)
    ELSE IF server = "imap" THEN Imap!Offered(c)
    ELSE IF server = "redis" THEN Redis!Offered(c)
    ELSE IF server = "smtp" THEN Smtp!Offered(c)
    ELSE IF server = "irc" THEN Irc!Offered(c)
    ELSE Http!Offered(c)

Captured(c) ==
    IF server = "vnc" THEN Vnc!Shown(c)
    ELSE IF server = "ldap" THEN Ldap!Shown(c)
    ELSE Telnet!Captured(c)

Capture == INSTANCE LoginCapture WITH
    Peers <- Conns, phase <- [c \in Conns |-> Telnet!Phase(c)],
    offered <- [c \in Conns |-> Offered(c)],
    captured <- [c \in Conns |-> Captured(c)]

\* Whatever the protocol, the log keeps the promise of LoginCapture: a login that is
\* logged is one of this peer's, offered while it was connected.  Two honeypots read less
\* than they are sent: of redis a field that is not short, of ASCII and whole may be empty in
\* the log, and of ldap a long or torn name or password may be empty or a part of it.
KeepsPromise == Capture!CaptureSpec

\* telnet, postgres, pop3, whose dialogue asks for a user and a password: who has answered
\* both is logged, with these answers and with no others, and let go at its end.
EveryDialogueIsLogged ==
    /\ server = "telnet" => Telnet!AnswersAreLogged
    /\ server = "postgres" => Postgres!ThreeChunks
    /\ server = "pop3" => Pop3!EveryPairIsLogged

\* mysql, smtp, irc, http, where a connection may try again and again, ldap, which takes two
\* tries, and redis, which takes one: every login packet, AUTH PLAIN, NICK, form, bind and AUTH
\* is a login in the log, with its own verdict, whatever went wrong before it.
EveryTryIsLogged ==
    /\ server = "mysql" => Mysql!EveryTryIsLogged
    /\ server = "smtp" => Smtp!EveryAuthIsLogged
    /\ server = "irc" => Irc!EveryNickIsLogged
    /\ server = "http" => Http!EveryFormIsLogged
    /\ server = "ldap" => Ldap!TwoTries
    /\ server = "redis" => Redis!OneRequest

\* vnc: success is the response to the configured password.
SuccessIsConfigured == server = "vnc" => Vnc!SuccessIsConfigured

\* ftp: a shell is for the configured user only, and after a login in the log.
ShellNeedsLogin == server = "ftp" => Ftp!ShellNeedsLogin

\* imap: what a literal costs.
LiteralCostsOneLogin == server = "imap" => Imap!LiteralCostsOneLogin

\* pop3, ftp, irc, http, with capture_commands: the log holds every line a pop3 or ftp client
\* has sent, every line of irc that came in a chunk of UTF-8, and the method and the address
\* of every http request, in order.  (README.md:284, 248, 373 and 262 promise "all threat actor
\* commands and data": what does not decode and the bodies of requests are not in the log.)
CommandsAreLogged ==
    \A c \in Conns :
        /\ server = "pop3" => Pop3!Commands(c) = Pop3!ToCapture(c)
        /\ server = "ftp" => Ftp!Commands(c) = Ftp!ToCapture(c)
        /\ server = "irc" => Irc!Commands(c) = Irc!Decoded(c)
        /\ server = "http" => Http!Requests(c) = Http!RequestLines(c)

\* README.md:294 "Logs: ip, port, username and password" (of QRedisServer): the password that
\* is logged is the one that was sent, if its request has arrived whole.
PasswordIsTheOneSent ==
    server = "redis" => \A c \in Conns : Redis!AreWhole(c) =>
        \A i \in DOMAIN Redis!Captured(c) : Redis!Captured(c)[i] \in Redis!Sent(c)
===============================================================================
