------------------------- MODULE PacketServersProofs -------------------------
(***************************************************************************)
(* What the honeypots of LoginServers have in common when their logs are   *)
(* proved about, and the inductive invariants of those that read packets:  *)
(* postgres, mysql, vnc, ldap, mssql and redis.                            *)
(*                                                                         *)
(* Everything is said of the values of one connection: l its link, r what  *)
(* was read, e its log, s, u, b, a its state, user, buffer and answers.    *)
(* For each honeypot X, XOK is the invariant of one connection, XInv of    *)
(* all of them, and XMoves(c) says that a step is one of LoginCapture.     *)
(***************************************************************************)
EXTENDS LoginServers, LogsProofs

-------------------------------------------------------------------------------
(* What is logged *)

\* A login in the log, and a command.
Entry(username, password, ok) ==
    [action |-> "login", username |-> username, password |-> password,
     status |-> IF ok THEN "success" ELSE "failed"]

Line(line) == IF CaptureCommands THEN <<[action |-> "command", data |-> line]>> ELSE <<>>
ToCapture(line) == IF CaptureCommands THEN <<line>> ELSE <<>>

\* The fields of a login.
LEMMA EntryFields ==
    ASSUME NEW u, NEW p, NEW ok \in BOOLEAN
    PROVE  /\ Entry(u, p, ok).action = "login"
           /\ Entry(u, p, ok).username = u /\ Entry(u, p, ok).password = p
           /\ Entry(u, p, ok).status = "success" <=> ok
           /\ Entry(u, p, ok).status = IF ok THEN "success" ELSE "failed"
  BY DEF Entry

\* The entry of a line, if lines are captured.
LEMMA LineEntries ==
    ASSUME NEW line
    PROVE  /\ IsLog(Line(line)) /\ Names(Line(line)) = <<>>
           /\ Data(Line(line), "command") = ToCapture(line)
  <1> DEFINE e == [action |-> "command", data |-> line]
  <1>1. e.action # "login" /\ e.action = "command" /\ e.data = line
    OBVIOUS
  <1>2. Line(line) = IF CaptureCommands THEN <<e>> ELSE <<>>
    BY DEF Line
  <1> HIDE DEF e
  <1>3. IsLog(<<e>>) /\ Names(<<e>>) = <<>> /\ Data(<<e>>, "command") = <<line>>
    BY <1>1, SingleEntry
  <1> QED BY <1>2, <1>3, NoEntries DEF ToCapture

\* A line with a login.
LEMMA LineAndLogin ==
    ASSUME NEW line, NEW u, NEW p, NEW ok
    PROVE  LET es == Line(line) \o <<Entry(u, p, ok)>>
           IN  /\ IsLog(es) /\ Names(es) = <<<<u, p>>>>
               /\ Data(es, "command") = ToCapture(line)
  <1>1. /\ Entry(u, p, ok).action = "login" /\ Entry(u, p, ok).username = u
        /\ Entry(u, p, ok).password = p
    BY DEF Entry
  <1> QED BY <1>1, LineEntries, LoginLast

-------------------------------------------------------------------------------
(* Variables that are functions on the connections *)

IsRow(f) == f = [c \in Conns |-> f[c]]

Rows ==
    /\ IsRow(link) /\ IsRow(read) /\ IsRow(events) /\ IsRow(state)
    /\ IsRow(user) /\ IsRow(buffer) /\ IsRow(answers) /\ IsRow(replies)

\* A step of one connection leaves the others alone.
Frame(c) ==
    /\ server' = server
    /\ Rows'
    /\ \A d \in Conns \ {c} :
          /\ link'[d] = link[d] /\ read'[d] = read[d] /\ events'[d] = events[d]
          /\ state'[d] = state[d] /\ user'[d] = user[d] /\ buffer'[d] = buffer[d]
          /\ answers'[d] = answers[d] /\ replies'[d] = replies[d]

\* One place of a row is changed.
LEMMA Changed ==
    ASSUME NEW f, IsRow(f), NEW c \in Conns, NEW v, NEW g, g = [f EXCEPT ![c] = v]
    PROVE  IsRow(g) /\ g[c] = v /\ \A d \in Conns \ {c} : g[d] = f[d]
  BY DEF IsRow

-------------------------------------------------------------------------------
(* What happens to a connection, by the values of its link, read and events *)

Links == {"none", "open", "closing", "lost"}

\* K: what may be read.
Base(K, l, r, e) ==
    /\ l \in Links /\ r \in Seq(K) /\ IsLog(e)
    /\ l = "none" => r = <<>> /\ e = <<>>
\* Of all servers but those of HTTP.
Known(l, e) == l # "none" => Len(e) > 0

Connected == <<[action |-> "connection"]>>

\* Nobody, and a client that has just come.
LEMMA Coming ==
    ASSUME NEW K
    PROVE  /\ Base(K, "none", <<>>, <<>>) /\ Known("none", <<>>)
           /\ Base(K, "open", <<>>, Connected) /\ Known("open", Connected)
           /\ Base(K, "open", <<>>, <<>>)
           /\ Names(Connected) = <<>> /\ Data(Connected, "command") = <<>>
           /\ IsLog(Connected) /\ Len(Connected) = 1
  <1> DEFINE e == [action |-> "connection"]
  <1>1. e.action = "connection" /\ Connected = <<e>> /\ <<>> \in Seq(K)
    BY DEF Connected
  <1> HIDE DEF e
  <1>2. /\ IsLog(Connected) /\ Len(Connected) = 1 /\ Names(Connected) = <<>>
        /\ Data(Connected, "command") = <<>>
    BY <1>1, SingleEntry
  <1> QED BY <1>1, <1>2, NoEntries DEF Base, Known, Links

\* A chunk was read, and some entries were logged.
LEMMA Hearing ==
    ASSUME NEW K, NEW r, NEW e, Base(K, "open", r, e), NEW chunk \in K, NEW es, IsLog(es),
           NEW l \in {"open", "closing", "lost"}
    PROVE  /\ Base(K, l, Append(r, chunk), e \o es)
           /\ Known("open", e) => Known(l, e \o es)
           /\ Names(es) = <<>> => Names(e \o es) = Names(e)
           /\ \A x : Names(es) = <<x>> => Names(e \o es) = Append(Names(e), x)
           /\ Data(e \o es, "command") = Data(e, "command") \o Data(es, "command")
  <1>1. IsLog(e) /\ r \in Seq(K)
    BY DEF Base
  <1>2. /\ IsLog(e \o es) /\ Len(e \o es) = Len(e) + Len(es) /\ Len(e) \in Nat /\ Len(es) \in Nat
    BY <1>1, LogConcat
  <1>3. /\ Names(e \o es) = Names(e) \o Names(es)
        /\ Data(e \o es, "command") = Data(e, "command") \o Data(es, "command")
    BY <1>1, MoreEntries
  <1>4. IsLog(Names(e))
    BY <1>1, EntryType
  <1>5. Names(e) \o <<>> = Names(e) /\ \A x : Names(e) \o <<x>> = Append(Names(e), x)
    BY <1>4, LogConcat, NoEntries
  <1>6. Append(r, chunk) \in Seq(K)
    BY <1>1, AppendProperties
  <1>7. Base(K, l, Append(r, chunk), e \o es)
    BY <1>2, <1>6 DEF Base, Links
  <1>8. Known("open", e) => Known(l, e \o es)
    BY <1>2 DEF Known
  <1>9. /\ Names(es) = <<>> => Names(e \o es) = Names(e)
        /\ \A x : Names(es) = <<x>> => Names(e \o es) = Append(Names(e), x)
    BY <1>3, <1>5, Zenon
  <1> QED BY <1>3, <1>7, <1>8, <1>9

\* A client has gone.
LEMMA Going ==
    ASSUME NEW K, NEW l \in {"open", "closing"}, NEW r, NEW e, Base(K, l, r, e)
    PROVE  Base(K, "lost", r, e) /\ (Known(l, e) => Known("lost", e))
  BY DEF Base, Known, Links

-------------------------------------------------------------------------------
(* What LoginCapture sees of a connection *)

PhaseOf(l) == IF l \in {"open", "closing"} THEN "open" ELSE l

\* A step from a link, offers and logins to others.
Moves(l, m, o, p, n, q) ==
    \/ PhaseOf(l) = "none" /\ PhaseOf(m) = "open" /\ p = o /\ q = n
    \/ /\ PhaseOf(l) = "open" /\ PhaseOf(m) \in {"open", "lost"}
       /\ o \subseteq p
       /\ q = n \/ \E x \in p : q = Append(n, x)

\* The same of a connection before and after a step.
Moved(c, o, p) == Moves(link[c], link'[c], o, p, Names(events[c]), Names(events'[c]))

\* The shapes of a step that reads: nothing is logged, or one entry.
LEMMA HearingNothing ==
    ASSUME NEW K, NEW r, NEW e, Base(K, "open", r, e), NEW chunk \in K,
           NEW l \in {"open", "closing", "lost"}
    PROVE  Base(K, l, Append(r, chunk), e) /\ (Known("open", e) => Known(l, e))
  <1>1. Append(r, chunk) \in Seq(K)
    BY AppendProperties DEF Base
  <1> QED BY <1>1 DEF Base, Known, Links

\* One entry.
LEMMA HearingOne ==
    ASSUME NEW K, NEW r, NEW e, Base(K, "open", r, e), NEW chunk \in K, NEW x,
           NEW l \in {"open", "closing", "lost"}
    PROVE  /\ Base(K, l, Append(r, chunk), Append(e, x))
           /\ Known(l, Append(e, x)) /\ Len(Append(e, x)) = Len(e) + 1 /\ Len(e) \in Nat
           /\ x.action = "login" => Names(Append(e, x)) = Append(Names(e), <<x.username, x.password>>)
           /\ x.action # "login" => Names(Append(e, x)) = Names(e)
  <1>1. Append(r, chunk) \in Seq(K) /\ IsLog(e)
    BY AppendProperties DEF Base
  <1>2. IsLog(Append(e, x)) /\ Len(Append(e, x)) = Len(e) + 1 /\ Len(e) \in Nat
    BY <1>1, LogAppend
  <1>3. PICK S : e \in Seq(S)
    BY <1>1 DEF IsLog
  <1> DEFINE E == S \union {x}
  <1>4. e \in Seq(E) /\ x \in E
    <2>1. \A u \in Seq(S) : u \in Seq(E)
      OBVIOUS
    <2> QED BY <1>3, <2>1
  <1> HIDE DEF E
  <1>5. Names(Append(e, x)) =
          IF x.action = "login" THEN Append(Names(e), <<x.username, x.password>>) ELSE Names(e)
    BY <1>4, OneEntry
  <1>6. Known(l, Append(e, x))
    BY <1>2 DEF Known
  <1> QED BY <1>1, <1>2, <1>5, <1>6 DEF Base, Links

\* A login.
LEMMA HearingLogin ==
    ASSUME NEW K, NEW r, NEW e, Base(K, "open", r, e), NEW chunk \in K,
           NEW u, NEW p, NEW ok, NEW l \in {"open", "closing", "lost"}
    PROVE  LET all == Append(e, Entry(u, p, ok))
           IN  /\ Base(K, l, Append(r, chunk), all) /\ Known(l, all)
               /\ Len(all) = Len(e) + 1 /\ Len(e) \in Nat
               /\ Names(all) = Append(Names(e), <<u, p>>)
  <1> DEFINE x == Entry(u, p, ok)
  <1>1. x.action = "login" /\ x.username = u /\ x.password = p
    BY DEF Entry
  <1> HIDE DEF x
  <1>2. /\ Base(K, l, Append(r, chunk), Append(e, x)) /\ Known(l, Append(e, x))
        /\ Len(Append(e, x)) = Len(e) + 1 /\ Len(e) \in Nat
        /\ Names(Append(e, x)) = Append(Names(e), <<x.username, x.password>>)
    BY ONLY <1>1, HearingOne, Base(K, "open", r, e), chunk \in K, l \in {"open", "closing", "lost"}
  <1>3. Names(Append(e, x)) = Append(Names(e), <<u, p>>)
    BY <1>1, <1>2, Zenon
  <1> QED BY <1>2, <1>3 DEF x

\* No logins at the start.
LEMMA NoLogins == Matching(Connected, "login") = <<>> /\ Matching(<<>>, "login") = <<>>
  <1> DEFINE e == [action |-> "connection"]
  <1>1. e.action # "login" /\ Connected = <<e>> /\ <<e>> = Append(<<>>, e)
    BY DEF Connected
  <1> HIDE DEF e
  <1>2. Matching(Append(<<>>, e), "login") = Matching(<<>>, "login")
    BY <1>1, NoEntries, MatchingEntry
  <1> QED BY <1>1, <1>2, NoMatching

\* The rows at the start.
LEMMA Starting ==
    ASSUME NEW v PROVE IsRow([c \in Conns |-> v]) /\ \A c \in Conns : [d \in Conns |-> v][c] = v
  BY DEF IsRow

\* What Base says.
LEMMA Basics ==
    ASSUME NEW K, NEW l, NEW r, NEW e, Base(K, l, r, e)
    PROVE  /\ l \in Links /\ r \in Seq(K) /\ IsLog(r) /\ IsLog(e)
           /\ l = "none" => r = <<>> /\ e = <<>> /\ Len(r) = 0 /\ Names(e) = <<>>
           /\ Known(l, e) => (l = "none" <=> e = <<>>)
  <1>1. l \in Links /\ r \in Seq(K) /\ IsLog(e) /\ (l = "none" => r = <<>> /\ e = <<>>)
    BY DEF Base
  <1>2. e = <<>> => ~(Len(e) > 0)
    BY NoEntries
  <1>3. Known(l, e) => (l = "none" <=> e = <<>>)
    BY <1>1, <1>2 DEF Known
  <1>4. Names(<<>>) = <<>> /\ Len(<<>>) = 0
    BY NoEntries
  <1>5. l = "none" => Len(r) = 0 /\ Names(e) = <<>>
    BY <1>1, <1>4, Zenon
  <1> QED BY <1>1, <1>3, <1>5, SequenceIsLog

\* The same with names for what the variables become.
LEMMA Reading ==
    ASSUME NEW K, NEW l, NEW r, NEW e, Base(K, l, r, e), NEW chunk, NEW t, t = Append(r, chunk)
    PROVE  /\ Len(r) \in Nat /\ Len(t) = Len(r) + 1 /\ t[Len(r) + 1] = chunk
           /\ DOMAIN r = 1 .. Len(r) /\ DOMAIN t = 1 .. Len(r) + 1
           /\ \A i \in 1 .. Len(r) : t[i] = r[i]
           /\ r = <<>> <=> Len(r) = 0
  <1>1. r \in Seq(K) /\ IsLog(r)
    BY SequenceIsLog DEF Base
  <1>2. r = <<>> <=> Len(r) = 0
    BY <1>1, EmptySeq
  <1> QED BY <1>1, <1>2, LogAppend

Open(K, r, e) == Base(K, "open", r, e)

\* A chunk was read and nothing logged.
LEMMA ReadingNothing ==
    ASSUME NEW K, NEW r, NEW e, Open(K, r, e), Known("open", e), NEW chunk \in K,
           NEW t, t = Append(r, chunk), NEW l \in {"open", "closing", "lost"}
    PROVE  Base(K, l, t, e) /\ Known(l, e)
  BY HearingNothing DEF Open

\* A login of u with p.
IsLogin(x, u, p) == x.action = "login" /\ x.username = u /\ x.password = p

\* The entry of a login is a login.
LEMMA EntryIsLogin == ASSUME NEW u, NEW p, NEW ok PROVE IsLogin(Entry(u, p, ok), u, p)
  BY DEF Entry, IsLogin

\* What is known when a login of u with p follows a log e.
LoggedIn(K, l, t, e, f, u, p) ==
    /\ Base(K, l, t, f) /\ Known(l, f)
    /\ Len(f) = Len(e) + 1 /\ Len(e) \in Nat
    /\ Names(f) = Append(Names(e), <<u, p>>)

\* A chunk was read and a login logged.
LEMMA ReadingLogin ==
    ASSUME NEW K, NEW r, NEW e, Open(K, r, e), NEW chunk \in K,
           NEW x, NEW u, NEW p, IsLogin(x, u, p),
           NEW t, t = Append(r, chunk), NEW f, f = Append(e, x),
           NEW l \in {"open", "closing", "lost"}
    PROVE  LoggedIn(K, l, t, e, f, u, p)
  <1>1. x.action = "login" /\ x.username = u /\ x.password = p
    BY DEF IsLogin
  <1>2. Base(K, "open", r, e) /\ chunk \in K /\ l \in {"open", "closing", "lost"}
    BY DEF Open
  <1>3. /\ Base(K, l, Append(r, chunk), Append(e, x))
        /\ Known(l, Append(e, x)) /\ Len(Append(e, x)) = Len(e) + 1 /\ Len(e) \in Nat
        /\ Names(Append(e, x)) = Append(Names(e), <<x.username, x.password>>)
    BY ONLY <1>1, <1>2, HearingOne
  <1> QED BY <1>1, <1>3, Zenon DEF LoggedIn

\* Lines and a login, or lines alone.
Entered(K, l, t, e, es, f) ==
    /\ Base(K, l, t, f) /\ Known(l, f)
    /\ Names(es) = <<>> => Names(f) = Names(e)
    /\ \A x : Names(es) = <<x>> => Names(f) = Append(Names(e), x)
    /\ Data(f, "command") = Data(e, "command") \o Data(es, "command")

\* A chunk was read and entries that make up to one login.
LEMMA ReadingEntries ==
    ASSUME NEW K, NEW r, NEW e, Open(K, r, e), Known("open", e), NEW chunk \in K, NEW es, IsLog(es),
           NEW t, t = Append(r, chunk), NEW f, f = e \o es,
           NEW l \in {"open", "closing", "lost"}
    PROVE  Entered(K, l, t, e, es, f)
  <1>1. Base(K, "open", r, e) /\ chunk \in K /\ l \in {"open", "closing", "lost"} /\ IsLog(es) /\ Known("open", e)
    BY DEF Open
  <1>2. /\ Base(K, l, Append(r, chunk), e \o es)
        /\ Known("open", e) => Known(l, e \o es)
        /\ Names(es) = <<>> => Names(e \o es) = Names(e)
        /\ \A x : Names(es) = <<x>> => Names(e \o es) = Append(Names(e), x)
        /\ Data(e \o es, "command") = Data(e, "command") \o Data(es, "command")
    BY ONLY <1>1, Hearing
  <1> QED BY <1>1, <1>2, Zenon DEF Entered

\* The first login.
LEMMA FirstLogin ==
    ASSUME NEW n, n = <<>>, NEW x, NEW q, q = Append(n, x) PROVE q = <<x>> /\ q # <<>>
  OBVIOUS

\* A sequence of one element.
LEMMA OneElement == \A y : Append(<<>>, y) = <<y>>
  OBVIOUS

\* What a log is with one more entry.
Enters(e, x, f) ==
    /\ IsLog(f) /\ Len(f) = Len(e) + 1 /\ Len(e) \in Nat
    /\ x.action = "login" =>
         /\ Matching(f, "login") = Append(Matching(e, "login"), x)
         /\ Names(f) = Append(Names(e), <<x.username, x.password>>)
    /\ x.action # "login" => Matching(f, "login") = Matching(e, "login") /\ Names(f) = Names(e)
    /\ x.action = "connection" => Data(f, "connection") = Append(Data(e, "connection"), x.data)
    /\ x.action # "connection" => Data(f, "connection") = Data(e, "connection")

\* A login is added to a log.
LEMMA EntersLog ==
    ASSUME NEW e, IsLog(e), NEW x, NEW f, f = Append(e, x)
    PROVE  Enters(e, x, f)
  <1>1. PICK T : e \in Seq(T)
    BY DEF IsLog
  <1> DEFINE S == T \union {x}
  <1>2. e \in Seq(S) /\ x \in S
    <2>1. \A u \in Seq(T) : u \in Seq(S)
      OBVIOUS
    <2> QED BY <1>1, <2>1
  <1> HIDE DEF S
  <1>3. /\ Names(Append(e, x)) =
             IF x.action = "login" THEN Append(Names(e), <<x.username, x.password>>) ELSE Names(e)
        /\ \A action : Data(Append(e, x), action) =
             IF x.action = action THEN Append(Data(e, action), x.data) ELSE Data(e, action)
    BY <1>2, OneEntry
  <1>4. /\ x.action = "login" => Matching(f, "login") = Append(Matching(e, "login"), x)
        /\ x.action # "login" => Matching(f, "login") = Matching(e, "login")
    BY MatchingEntry
  <1>5. IsLog(f) /\ Len(f) = Len(e) + 1 /\ Len(e) \in Nat
    BY LogAppend
  <1>6. /\ x.action = "login" => Names(f) = Append(Names(e), <<x.username, x.password>>)
        /\ x.action # "login" => Names(f) = Names(e)
        /\ x.action = "connection" => Data(f, "connection") = Append(Data(e, "connection"), x.data)
        /\ x.action # "connection" => Data(f, "connection") = Data(e, "connection")
    BY <1>3, Zenon
  <1> QED BY <1>4, <1>5, <1>6 DEF Enters

\* What a server module says of the logins is Names.
LEMMA IsNames ==
    ASSUME NEW c \in Conns
    PROVE  Telnet!Captured(c) = Names(events[c])
  <1>1. Telnet!Logins(c) = Matching(events[c], "login")
    BY DEF Telnet!Logins, Telnet!Matching, Matching, Telnet!Positions, Positions, Telnet!At, At
  <1> QED BY <1>1 DEF Telnet!Captured, Names

-------------------------------------------------------------------------------
(* postgres (postgres_server.py:45-65): the state says which of the three chunks comes next,
   and the user is the one of the startup message *)

PostgresAnswered(r) ==
    Len(r) >= 3 /\ r[2].kind = "startup" /\ r[2].user # NoUser /\ r[3].kind = "password"

PostgresOffers(r) == IF PostgresAnswered(r) THEN {<<r[2].user, r[3].password>>} ELSE {}

PostgresOK(l, r, e, s, u) ==
    /\ Base(Chunks.postgres, l, r, e) /\ Known(l, e)
    /\ s \in 0 .. 3 /\ (s < 3 => u = NoUser) /\ Len(r) <= 3
    /\ l = "open" => /\ s \in 1 .. 3 /\ Len(r) = s - 1 /\ Names(e) = <<>>
                     /\ s = 3 => u = Postgres!StartupUser(r[2])
    /\ l \in {"closing", "lost"} =>
          Names(e) = IF PostgresAnswered(r) THEN <<<<r[2].user, r[3].password>>>> ELSE <<>>

PostgresInv == Rows /\ \A c \in Conns : PostgresOK(link[c], read[c], events[c], state[c], user[c])

PostgresMoves(c) == Frame(c) /\ Moved(c, PostgresOffers(read[c]), PostgresOffers(read'[c]))

\* Of a step of one connection, only that one needs a look.
LEMMA PostgresFrame ==
    ASSUME PostgresInv, NEW c \in Conns, Frame(c),
           PostgresOK(link'[c], read'[c], events'[c], state'[c], user'[c])
    PROVE  PostgresInv'
  BY DEF PostgresInv, Frame

\* One more chunk.
LEMMA PostgresReads ==
    ASSUME NEW r, NEW e, NEW s, NEW u, PostgresOK("open", r, e, s, u), NEW chunk \in Chunks.postgres
    PROVE  LET t == Append(r, chunk)
           IN  /\ Len(r) = s - 1 /\ Len(t) = s /\ t[s] = chunk /\ s \in 1 .. 3
               /\ s = 3 => t[2] = r[2]
               /\ PostgresOffers(r) = {}
  <1>1. IsLog(r) /\ Len(r) = s - 1 /\ s \in 1 .. 3
    BY SequenceIsLog DEF PostgresOK, Base
  <1>2. /\ Len(Append(r, chunk)) = s /\ Append(r, chunk)[s] = chunk
        /\ \A i \in 1 .. s - 1 : Append(r, chunk)[i] = r[i]
    <2>1. /\ Len(Append(r, chunk)) = Len(r) + 1 /\ Append(r, chunk)[Len(r) + 1] = chunk
          /\ \A i \in 1 .. Len(r) : Append(r, chunk)[i] = r[i]
      BY <1>1, LogAppend
    <2>2. Len(r) + 1 = s
      BY <1>1
    <2> QED BY <1>1, <2>1, <2>2
  <1>3. s = 3 => Append(r, chunk)[2] = r[2]
    BY <1>1, <1>2
  <1>4. PostgresOffers(r) = {}
    BY <1>1 DEF PostgresOffers, PostgresAnswered
  <1> QED BY <1>1, <1>2, <1>3, <1>4

\* Every step of the honeypot keeps its invariant, and is one LoginCapture allows.
LEMMA PostgresStep ==
    ASSUME PostgresInv, Postgres!Next, UNCHANGED <<server, buffer, answers, replies>>
    PROVE  PostgresInv' /\ \E c \in Conns : PostgresMoves(c)
  <1>0. Rows
    BY DEF PostgresInv
  <1>1. ASSUME NEW c \in Conns, Postgres!ConnectionMade(c) PROVE PostgresInv' /\ PostgresMoves(c)
    <2>1. /\ link[c] = "none" /\ link'[c] = "open" /\ read'[c] = read[c] /\ events'[c] = Connected
          /\ state'[c] = 1 /\ user'[c] = NoUser /\ Frame(c)
      BY <1>0, <1>1 DEF Postgres!ConnectionMade, Postgres!Accept, Connected, Rows, IsRow, Frame
    <2>2. read[c] = <<>> /\ events[c] = <<>>
      BY <2>1 DEF PostgresInv, PostgresOK, Base
    <2>3. PostgresOK("open", <<>>, Connected, 1, NoUser)
      BY Coming, NoEntries DEF PostgresOK
    <2>4. PostgresInv'
      BY <2>1, <2>2, <2>3, PostgresFrame
    <2> QED BY <2>1, <2>2, <2>4, Coming, NoEntries DEF PostgresMoves, Moved, Moves, PhaseOf
  <1>2. ASSUME NEW c \in Conns, Postgres!Lost(c) PROVE PostgresInv' /\ PostgresMoves(c)
    <2>1. /\ link[c] \in {"open", "closing"} /\ link'[c] = "lost" /\ read'[c] = read[c]
          /\ events'[c] = events[c] /\ state'[c] = 1 /\ user'[c] = NoUser /\ Frame(c)
      BY <1>0, <1>2 DEF Postgres!Lost, Postgres!ConnectionLost, Rows, IsRow, Frame
    <2>2. PostgresOK(link[c], read[c], events[c], state[c], user[c])
      BY DEF PostgresInv
    <2>3. PostgresOK("lost", read[c], events[c], 1, NoUser)
      <3>1. Base(Chunks.postgres, "lost", read[c], events[c]) /\ Known("lost", events[c])
        BY <2>1, <2>2, Going DEF PostgresOK
      <3>2. link[c] = "open" => Len(read[c]) < 3 /\ Names(events[c]) = <<>>
        BY <2>2 DEF PostgresOK
      <3> QED BY <2>1, <2>2, <3>1, <3>2 DEF PostgresOK, PostgresAnswered
    <2>4. PostgresInv'
      BY <2>1, <2>3, PostgresFrame
    <2> QED BY <2>1, <2>4 DEF PostgresMoves, Moved, Moves, PhaseOf
  \* A chunk that is no password after a startup message logs nothing.
  <1>3. ASSUME NEW c \in Conns, NEW chunk \in Chunks.postgres, NEW l \in {"open", "closing", "lost"},
               NEW s \in 1 .. 3, NEW u,
               link[c] = "open", link'[c] = l, read'[c] = Append(read[c], chunk),
               events'[c] = events[c], state'[c] = s, user'[c] = u, Frame(c),
               s < 3 => u = NoUser,
               l = "open" => s = state[c] + 1 /\ (s = 3 => u = Postgres!StartupUser(chunk)),
               state[c] = 3 => ~(user[c] # NoUser /\ chunk.kind = "password")
        PROVE  PostgresInv' /\ PostgresMoves(c)
    <2> DEFINE r == read[c]  e == events[c]  t == Append(r, chunk)
    <2>1. PostgresOK("open", r, e, state[c], user[c])
      BY <1>3 DEF PostgresInv
    <2>2. /\ Len(r) = state[c] - 1 /\ Len(t) = state[c] /\ t[state[c]] = chunk /\ state[c] \in 1 .. 3
          /\ state[c] = 3 => t[2] = r[2]
          /\ PostgresOffers(r) = {}
      BY <2>1, PostgresReads
    <2>3. Base(Chunks.postgres, l, t, e) /\ Known(l, e)
      BY <2>1, HearingNothing DEF PostgresOK
    <2>4. ~PostgresAnswered(t)
      <3>1. state[c] = 3 => user[c] = Postgres!StartupUser(t[2])
        BY <2>1, <2>2 DEF PostgresOK
      <3> QED BY <1>3, <2>2, <3>1 DEF PostgresAnswered, Postgres!StartupUser
    <2>5. Names(e) = <<>>
      BY <2>1 DEF PostgresOK
    <2> HIDE DEF r, e, t
    <2>6. PostgresOK(l, t, e, s, u)
      <3>1. l = "open" => Len(t) = s - 1 /\ (s = 3 => t[2] = chunk)
        BY <1>3, <2>2
      <3> QED BY <1>3, <2>2, <2>3, <2>4, <2>5, <3>1 DEF PostgresOK
    <2>7. PostgresInv'
      BY <1>3, <2>6, PostgresFrame DEF r, e, t
    <2>8. PostgresOffers(r) \subseteq PostgresOffers(t)
      BY <2>2
    <2> QED BY <1>3, <2>7, <2>8 DEF PostgresMoves, Moved, Moves, PhaseOf, r, e, t
  <1>4. ASSUME NEW c \in Conns, NEW chunk \in Chunks.postgres, Postgres!EncryptionRefused(c, chunk)
        PROVE  PostgresInv' /\ PostgresMoves(c)
    <2>1. /\ link[c] = "open" /\ link'[c] = "open" /\ read'[c] = Append(read[c], chunk)
          /\ events'[c] = events[c] /\ state'[c] = 2 /\ user'[c] = user[c] /\ Frame(c) /\ state[c] = 1
      BY <1>0, <1>4 DEF Postgres!EncryptionRefused, Postgres!Received, Rows, IsRow, Frame
    <2>2. PostgresOK("open", read[c], events[c], 1, user[c])
      BY <2>1 DEF PostgresInv
    <2>3. user[c] = NoUser
      BY <2>2 DEF PostgresOK
    <2> QED BY <1>3, <2>1, <2>3
  <1>5. ASSUME NEW c \in Conns, NEW chunk \in Chunks.postgres, Postgres!StartupRead(c, chunk)
        PROVE  PostgresInv' /\ PostgresMoves(c)
    <2>1. /\ link[c] = "open" /\ link'[c] = "open" /\ read'[c] = Append(read[c], chunk)
          /\ events'[c] = events[c] /\ state'[c] = 3 /\ user'[c] = Postgres!StartupUser(chunk)
          /\ Frame(c) /\ state[c] = 2
      BY <1>0, <1>5 DEF Postgres!StartupRead, Postgres!Received, Rows, IsRow, Frame
    <2> QED BY <1>3, <2>1
  <1>6. ASSUME NEW c \in Conns, NEW chunk \in Chunks.postgres, Postgres!Undecodable(c, chunk)
        PROVE  PostgresInv' /\ PostgresMoves(c)
    <2>1. /\ link[c] = "open" /\ link'[c] = "lost" /\ read'[c] = Append(read[c], chunk)
          /\ events'[c] = events[c] /\ state'[c] = state[c] /\ user'[c] = user[c] /\ Frame(c)
          /\ chunk.kind = "binary"
      BY <1>0, <1>6 DEF Postgres!Undecodable, Postgres!Received, Postgres!Raises, Rows, IsRow, Frame
    <2>2. (state[c] < 3 => user[c] = NoUser) /\ state[c] \in 1 .. 3
      BY <2>1 DEF PostgresInv, PostgresOK
    <2> QED BY <1>3, <2>1, <2>2
  <1>7. ASSUME NEW c \in Conns, NEW chunk \in Chunks.postgres, Postgres!NoPassword(c, chunk)
        PROVE  PostgresInv' /\ PostgresMoves(c)
    <2>1. /\ link[c] = "open" /\ link'[c] = "closing" /\ read'[c] = Append(read[c], chunk)
          /\ events'[c] = events[c] /\ state'[c] = state[c] /\ user'[c] = user[c] /\ Frame(c)
          /\ state[c] = 3 /\ (user[c] = NoUser \/ chunk.kind # "password")
      BY <1>0, <1>7 DEF Postgres!NoPassword, Postgres!Received, Postgres!LoseConnection, Rows, IsRow, Frame
    <2> QED BY <1>3, <2>1
  <1>8. ASSUME NEW c \in Conns, NEW chunk \in Chunks.postgres, Postgres!PasswordRead(c, chunk)
        PROVE  PostgresInv' /\ PostgresMoves(c)
    <2> DEFINE r == read[c]  e == events[c]  t == Append(r, chunk)  K == Chunks.postgres
               u == user[c]  p == chunk.password  ok == Postgres!LoginIsCorrect(u, p)
               all == Append(e, Entry(u, p, ok))
    <2>1. /\ link[c] = "open" /\ link'[c] = "closing" /\ read'[c] = t /\ events'[c] = all
          /\ state'[c] = 3 /\ user'[c] = u /\ Frame(c)
          /\ state[c] = 3 /\ u # NoUser /\ chunk.kind = "password"
      BY <1>0, <1>8 DEF Postgres!PasswordRead, Postgres!Received, Postgres!LoseConnection,
                        Postgres!CheckLogin, Postgres!Log, Postgres!LoginEvent, Entry, Rows, IsRow, Frame
    <2>2. PostgresOK("open", r, e, 3, u)
      BY <2>1 DEF PostgresInv
    <2>3. /\ Len(r) = 2 /\ Len(t) = 3 /\ t[3] = chunk /\ t[2] = r[2] /\ PostgresOffers(r) = {}
      <3>1. PostgresOK("open", r, e, state[c], u)
        BY <2>1, <2>2
      <3> HIDE DEF r, e, u
      <3>2. /\ Len(r) = state[c] - 1 /\ Len(t) = state[c] /\ t[state[c]] = chunk
            /\ state[c] = 3 => t[2] = r[2]
            /\ PostgresOffers(r) = {}
        BY <3>1, PostgresReads
      <3> QED BY <2>1, <3>2
    <2>4. u = Postgres!StartupUser(t[2]) /\ Names(e) = <<>> /\ Base(K, "open", r, e)
      BY <2>2, <2>3 DEF PostgresOK
    <2>5. t[2].kind = "startup" /\ t[2].user = u
      BY <2>1, <2>4 DEF Postgres!StartupUser
    <2>6. PostgresAnswered(t) /\ t[3].password = p
      BY <2>1, <2>3, <2>5 DEF PostgresAnswered
    <2>7. ok \in BOOLEAN /\ chunk \in K
      BY DEF Postgres!LoginIsCorrect
    <2> HIDE DEF r, e, K, u, p, ok
    <2>8. Base(K, "closing", t, all) /\ Known("closing", all) /\ Names(all) = Append(Names(e), <<u, p>>)
      <3>1. t = Append(r, chunk) /\ all = Append(e, Entry(u, p, ok))
        OBVIOUS
      <3> HIDE DEF t, all
      <3> DEFINE x == Entry(u, p, ok)
      <3>2. IsLogin(x, u, p) /\ all = Append(e, x)
        BY <3>1, EntryIsLogin
      <3> HIDE DEF x
      <3>3. Open(K, r, e)
        BY <2>4 DEF Open
      <3>4. LoggedIn(K, "closing", t, e, all, u, p)
        BY <2>7, <3>1, <3>2, <3>3, ReadingLogin
      <3> QED BY <3>4 DEF LoggedIn
    <2> HIDE DEF t, all
    <2>9. Append(<<>>, <<u, p>>) = <<<<u, p>>>>
      OBVIOUS
    <2>10. Names(all) = <<<<u, p>>>>
      BY <2>4, <2>8, <2>9, Zenon
    <2>11. PostgresOK("closing", t, all, 3, u)
      <3>1. 3 \in 0 .. 3 /\ ~(3 < 3) /\ Len(t) <= 3
        BY <2>3
      <3> QED BY <2>5, <2>6, <2>8, <2>10, <3>1 DEF PostgresOK, K
    <2>12. PostgresInv'
      BY <2>1, <2>11, PostgresFrame
    <2>13. <<u, p>> \in PostgresOffers(t)
      BY <2>5, <2>6 DEF PostgresOffers
    <2>14. Moves("open", "closing", PostgresOffers(r), PostgresOffers(t), Names(e), Names(all))
      BY <2>3, <2>8, <2>13 DEF Moves, PhaseOf
    <2> QED BY <2>1, <2>12, <2>14 DEF PostgresMoves, Moved, r, e
  <1> QED BY <1>1, <1>2, <1>4, <1>5, <1>6, <1>7, <1>8 DEF Postgres!Next

\* The invariant holds at the start.
LEMMA PostgresBegins ==
    ASSUME Postgres!Init, buffer = Nothing, answers = Nothing, replies = Nothing
    PROVE  PostgresInv
  <1>1. /\ link = [c \in Conns |-> "none"] /\ read = [c \in Conns |-> <<>>]
        /\ events = [c \in Conns |-> <<>>] /\ state = [c \in Conns |-> 0] /\ user = [c \in Conns |-> NoUser]
    BY DEF Postgres!Init, Postgres!ConnectionsInit
  <1>2. Rows
    BY <1>1 DEF Rows, IsRow, Nothing
  <1>3. PostgresOK("none", <<>>, <<>>, 0, NoUser)
    BY Coming, NoEntries DEF PostgresOK
  <1> QED BY <1>1, <1>2, <1>3 DEF PostgresInv

\* The invariant implies the properties of the honeypot, and what is offered is what was said.
LEMMA PostgresSafe == PostgresInv => Postgres!TypeOK /\ Postgres!ThreeChunks
  <1> SUFFICES ASSUME PostgresInv PROVE Postgres!TypeOK /\ Postgres!ThreeChunks
    OBVIOUS
  <1>1. ASSUME NEW c \in Conns
        PROVE  /\ link[c] \in Links /\ read[c] \in Seq(Chunks.postgres)
               /\ link[c] = "none" <=> events[c] = <<>>
               /\ state[c] \in 0 .. 3 /\ (state[c] < 3 => user[c] = NoUser)
    <2>1. PostgresOK(link[c], read[c], events[c], state[c], user[c])
      BY DEF PostgresInv
    <2> QED BY <2>1, Basics DEF PostgresOK
  <1>2. Postgres!TypeOK
    BY <1>1 DEF PostgresInv, Rows, IsRow, Postgres!TypeOK, Postgres!ConnectionsTypeOK, Links
  <1>3. ASSUME NEW c \in Conns
        PROVE  /\ Len(read[c]) <= 3
               /\ Len(read[c]) = 3 => link[c] \in {"closing", "lost"}
               /\ Postgres!Captured(c) = IF Postgres!Answered(c)
                                         THEN <<<<read[c][2].user, read[c][3].password>>>> ELSE <<>>
    <2>1. Postgres!Captured(c) = Names(events[c])
      <3>1. Postgres!Logins(c) = Matching(events[c], "login")
        BY DEF Postgres!Logins, Postgres!Matching, Matching, Postgres!Positions, Positions, Postgres!At, At
      <3> QED BY <3>1 DEF Postgres!Captured, Names
    <2>2. PostgresOK(link[c], read[c], events[c], state[c], user[c])
      BY DEF PostgresInv
    <2>3. Postgres!Answered(c) <=> PostgresAnswered(read[c])
      BY DEF Postgres!Answered, PostgresAnswered
    <2>4. link[c] \in Links /\ (link[c] = "none" => Len(read[c]) = 0 /\ Names(events[c]) = <<>>)
      BY <2>2, Basics DEF PostgresOK
    <2>5. \A x : <<x>> # <<>>
      OBVIOUS
    <2>6. CASE link[c] = "none"
      BY <2>1, <2>3, <2>4, <2>6 DEF PostgresAnswered
    <2>7. CASE link[c] = "open"
      <3>1. Names(events[c]) = <<>> /\ Len(read[c]) = state[c] - 1 /\ state[c] \in 1 .. 3
        BY <2>2, <2>7 DEF PostgresOK
      <3>2. ~(Len(read[c]) >= 3) /\ Len(read[c]) # 3 /\ Len(read[c]) <= 3
        BY <3>1
      <3> QED BY <2>1, <2>3, <2>7, <3>1, <3>2 DEF PostgresAnswered
    <2>8. CASE link[c] \in {"closing", "lost"}
      BY <2>1, <2>2, <2>3, <2>5, <2>8 DEF PostgresOK
    <2> QED BY <2>4, <2>6, <2>7, <2>8 DEF Links
  <1> QED BY <1>2, <1>3 DEF Postgres!ThreeChunks

-------------------------------------------------------------------------------
(* mysql (mysql_server.py:76-140): as many answers as entries, and a login for every chunk *)

MysqlTry(login, chunk) ==
    /\ login.username = chunk.user
    /\ login.password \in {<<form, chunk.hash>> : form \in {"word", "hash", "packet", "field"}}
    /\ login.status = "success" <=>
          ~WordsAreText /\ chunk.user = Configured.mysql[1] /\ chunk.hash \in MysqlWords

MysqlLog(logins, r) == Len(logins) = Len(r) /\ \A i \in 1 .. Len(r) : MysqlTry(logins[i], r[i])

MysqlOK(l, r, e, p) ==
    /\ Base(Chunks.mysql, l, r, e) /\ Known(l, e)
    /\ p \in Seq({"greeting", "denied", "too_many"}) /\ Len(p) = Len(e)
    /\ MysqlLog(Matching(e, "login"), r)

MysqlInv == Rows /\ \A c \in Conns : MysqlOK(link[c], read[c], events[c], replies[c])

MysqlOffers(r) ==
    {<<r[i].user, <<form, r[i].hash>>>> : i \in DOMAIN r, form \in {"word", "hash", "packet", "field"}}

\* Of a step of one connection, only that one needs a look.
LEMMA MysqlFrame ==
    ASSUME MysqlInv, NEW c \in Conns, Frame(c), MysqlOK(link'[c], read'[c], events'[c], replies'[c])
    PROVE  MysqlInv'
  BY DEF MysqlInv, Frame

\* What was offered stays offered, and the last packet is offered in each of its forms.
LEMMA MysqlOffersGrow ==
    ASSUME NEW K, NEW r \in Seq(K), NEW chunk
    PROVE  /\ MysqlOffers(r) \subseteq MysqlOffers(Append(r, chunk))
           /\ \A form \in {"word", "hash", "packet", "field"} :
                 <<chunk.user, <<form, chunk.hash>>>> \in MysqlOffers(Append(r, chunk))
  <1> DEFINE t == Append(r, chunk)
             n == Len(r)
  <1>1. /\ n \in Nat /\ DOMAIN r = 1 .. n /\ DOMAIN t = 1 .. n + 1 /\ t[n + 1] = chunk
        /\ \A i \in 1 .. n : t[i] = r[i]
    BY SequenceIsLog, LogAppend
  <1> HIDE DEF t, n
  <1>2. n + 1 \in DOMAIN t /\ \A i \in DOMAIN r : i \in DOMAIN t /\ t[i] = r[i]
    BY <1>1
  <1>3. MysqlOffers(r) \subseteq MysqlOffers(t)
    BY <1>2 DEF MysqlOffers
  <1>4. \A form \in {"word", "hash", "packet", "field"} :
           <<t[n + 1].user, <<form, t[n + 1].hash>>>> \in MysqlOffers(t)
    BY <1>2 DEF MysqlOffers
  <1> QED BY <1>1, <1>3, <1>4 DEF t

\* A login packet was read: the invariant holds, and the login is one that was offered.
LEMMA MysqlHears ==
    ASSUME MysqlInv, NEW c \in Conns, NEW chunk \in Chunks.mysql, Frame(c),
           NEW form \in {"word", "hash", "packet", "field"}, NEW ok \in BOOLEAN,
           NEW packet \in {"denied", "too_many"},
           link[c] = "open", link'[c] = "open", read'[c] = Append(read[c], chunk),
           events'[c] = Append(events[c], Entry(chunk.user, <<form, chunk.hash>>, ok)),
           replies'[c] = Append(replies[c], packet),
           ok <=> ~WordsAreText /\ chunk.user = Configured.mysql[1] /\ chunk.hash \in MysqlWords
    PROVE  MysqlInv' /\ Moved(c, MysqlOffers(read[c]), MysqlOffers(read'[c]))
  <1> DEFINE r == read[c]
             e == events[c]
             x == Entry(chunk.user, <<form, chunk.hash>>, ok)
             M == Matching(e, "login")
  <1>0. MysqlOK("open", r, e, replies[c])
    BY DEF MysqlInv
  <1>1. /\ x.action = "login" /\ x.username = chunk.user /\ x.password = <<form, chunk.hash>>
        /\ x.status = "success" <=> ok
    BY EntryFields
  <1> HIDE DEF x
  <1>2. /\ Base(Chunks.mysql, "open", r, e) /\ Known("open", e)
        /\ IsLog(e) /\ IsLog(r) /\ r \in Seq(Chunks.mysql)
    BY <1>0, SequenceIsLog DEF MysqlOK, Base
  <1>3. /\ Base(Chunks.mysql, "open", Append(r, chunk), Append(e, x)) /\ Known("open", Append(e, x))
        /\ Len(Append(e, x)) = Len(e) + 1 /\ Len(e) \in Nat
        /\ Names(Append(e, x)) = Append(Names(e), <<chunk.user, <<form, chunk.hash>>>>)
    <2> DEFINE K == Chunks.mysql
               u == chunk.user
               p == <<form, chunk.hash>>
    <2>1. Base(K, "open", r, e) /\ chunk \in K
      BY <1>2
    <2> HIDE DEF r, e, K, u, p
    <2>2. LET all == Append(e, Entry(u, p, ok))
          IN  /\ Base(K, "open", Append(r, chunk), all) /\ Known("open", all)
              /\ Len(all) = Len(e) + 1 /\ Len(e) \in Nat
              /\ Names(all) = Append(Names(e), <<u, p>>)
      BY <2>1, HearingLogin
    <2> QED BY <2>2 DEF r, e, K, u, p, x
  <1>5. Matching(Append(e, x), "login") = Append(M, x) /\ IsLog(M)
    BY <1>1, <1>2, MatchingEntry
  <1>6. MysqlLog(M, r)
    BY <1>0 DEF MysqlOK
  <1> HIDE DEF M
  <1>7. MysqlLog(Append(M, x), Append(r, chunk))
    <2>1. MysqlTry(x, chunk)
      BY <1>1 DEF MysqlTry
    <2>2. /\ Len(Append(r, chunk)) = Len(r) + 1 /\ Append(r, chunk)[Len(r) + 1] = chunk /\ Len(r) \in Nat
          /\ \A i \in 1 .. Len(r) : Append(r, chunk)[i] = r[i]
      BY <1>2, LogAppend
    <2>3. /\ Len(Append(M, x)) = Len(M) + 1 /\ Append(M, x)[Len(M) + 1] = x
          /\ \A i \in 1 .. Len(M) : Append(M, x)[i] = M[i]
      BY <1>5, LogAppend
    <2> QED BY <1>6, <2>1, <2>2, <2>3 DEF MysqlLog
  <1>8. /\ Append(replies[c], packet) \in Seq({"greeting", "denied", "too_many"})
        /\ Len(Append(replies[c], packet)) = Len(e) + 1
    BY <1>0, <1>3, AppendProperties DEF MysqlOK
  <1>9. MysqlOK("open", Append(r, chunk), Append(e, x), Append(replies[c], packet))
    BY <1>3, <1>5, <1>7, <1>8 DEF MysqlOK
  <1>10. MysqlInv'
    BY <1>9, MysqlFrame DEF x
  <1>11. Moved(c, MysqlOffers(read[c]), MysqlOffers(read'[c]))
    <2>1. /\ MysqlOffers(r) \subseteq MysqlOffers(Append(r, chunk))
          /\ <<chunk.user, <<form, chunk.hash>>>> \in MysqlOffers(Append(r, chunk))
      BY <1>2, MysqlOffersGrow
    <2>2. Names(events'[c]) = Append(Names(events[c]), <<chunk.user, <<form, chunk.hash>>>>)
      BY <1>3 DEF x
    <2> QED BY <2>1, <2>2 DEF Moved, Moves, PhaseOf
  <1> QED BY <1>10, <1>11

MysqlMoves(c) == Frame(c) /\ Moved(c, MysqlOffers(read[c]), MysqlOffers(read'[c]))

\* Every step of the honeypot keeps its invariant, and is one LoginCapture allows.
LEMMA MysqlStep ==
    ASSUME MysqlInv, Mysql!Next, UNCHANGED <<server, state, user, buffer, answers>>
    PROVE  MysqlInv' /\ \E c \in Conns : MysqlMoves(c)
  <1>0. Rows
    BY DEF MysqlInv
  <1>1. ASSUME NEW c \in Conns, Mysql!ConnectionMade(c) PROVE MysqlInv' /\ MysqlMoves(c)
    <2>1. /\ link[c] = "none" /\ link'[c] = "open" /\ read'[c] = read[c] /\ events'[c] = Connected
          /\ replies'[c] = Append(replies[c], "greeting") /\ Frame(c)
      BY <1>0, <1>1 DEF Mysql!ConnectionMade, Mysql!Accept, Mysql!Reply, Connected, Rows, IsRow, Frame
    <2>2. MysqlOK("none", read[c], events[c], replies[c])
      BY <2>1 DEF MysqlInv
    <2>3. read[c] = <<>> /\ events[c] = <<>> /\ replies[c] \in Seq({"greeting", "denied", "too_many"})
          /\ Len(replies[c]) = 0
      BY <2>2, NoEntries DEF MysqlOK, Base
    <2>4. MysqlOK("open", <<>>, Connected, Append(replies[c], "greeting"))
      <3>2. MysqlLog(<<>>, <<>>)
        BY NoEntries DEF MysqlLog
      <3>3. /\ Append(replies[c], "greeting") \in Seq({"greeting", "denied", "too_many"})
            /\ Len(Append(replies[c], "greeting")) = 1
        BY <2>3, AppendProperties
      <3> QED BY <3>2, <3>3, Coming, NoLogins DEF MysqlOK
    <2>5. MysqlInv'
      BY <2>1, <2>3, <2>4, MysqlFrame
    <2> QED BY <2>1, <2>3, <2>5, Coming, NoEntries DEF MysqlMoves, Moved, Moves, PhaseOf
  <1>2. ASSUME NEW c \in Conns, Mysql!Lost(c) PROVE MysqlInv' /\ MysqlMoves(c)
    <2>1. /\ link[c] \in {"open", "closing"} /\ link'[c] = "lost" /\ read'[c] = read[c]
          /\ events'[c] = events[c] /\ replies'[c] = replies[c] /\ Frame(c)
      BY <1>0, <1>2 DEF Mysql!Lost, Mysql!ConnectionLost, Rows, IsRow, Frame
    <2>2. MysqlOK(link[c], read[c], events[c], replies[c])
      BY DEF MysqlInv
    <2>3. MysqlOK("lost", read[c], events[c], replies[c])
      BY <2>1, <2>2, Going DEF MysqlOK
    <2>4. MysqlInv'
      BY <2>1, <2>3, MysqlFrame
    <2> QED BY <2>1, <2>4 DEF MysqlMoves, Moved, Moves, PhaseOf
  <1>3. ASSUME NEW c \in Conns, NEW chunk \in Chunks.mysql, Mysql!KnownPassword(c, chunk)
        PROVE  MysqlInv' /\ MysqlMoves(c)
    <2>1. /\ link[c] = "open" /\ link'[c] = "open" /\ read'[c] = Append(read[c], chunk)
          /\ events'[c] = Append(events[c], Entry(chunk.user, <<"word", chunk.hash>>, TRUE))
          /\ replies'[c] = Append(replies[c], "too_many") /\ Frame(c)
      BY <1>0, <1>3
         DEF Mysql!KnownPassword, Mysql!Received, Mysql!Log, Mysql!LoginEvent, Mysql!Reply, Entry, Rows, IsRow, Frame
    <2>2. ~WordsAreText /\ chunk.user = Configured.mysql[1] /\ chunk.hash \in MysqlWords
      BY <1>3 DEF Mysql!KnownPassword, Mysql!Decodes
    <2> QED BY <2>1, <2>2, MysqlHears DEF MysqlMoves
  <1>4. ASSUME NEW c \in Conns, NEW chunk \in Chunks.mysql, Mysql!WrongPassword(c, chunk)
        PROVE  MysqlInv' /\ MysqlMoves(c)
    <2>1. /\ link[c] = "open" /\ link'[c] = "open" /\ read'[c] = Append(read[c], chunk)
          /\ events'[c] = Append(events[c], Entry(chunk.user, <<"hash", chunk.hash>>, FALSE))
          /\ replies'[c] = Append(replies[c], "denied") /\ Frame(c)
      BY <1>0, <1>4
         DEF Mysql!WrongPassword, Mysql!Received, Mysql!Log, Mysql!LoginEvent, Mysql!Reply, Entry, Rows, IsRow, Frame
    <2>2. ~(~WordsAreText /\ chunk.user = Configured.mysql[1] /\ chunk.hash \in MysqlWords)
      BY <1>4 DEF Mysql!WrongPassword, Mysql!Decodes
    <2> QED BY <2>1, <2>2, MysqlHears DEF MysqlMoves
  <1>5. ASSUME NEW c \in Conns, NEW chunk \in Chunks.mysql, Mysql!CutPassword(c, chunk)
        PROVE  MysqlInv' /\ MysqlMoves(c)
    <2>1. /\ link[c] = "open" /\ link'[c] = "open" /\ read'[c] = Append(read[c], chunk)
          /\ events'[c] = Append(events[c], Entry(chunk.user, <<"packet", chunk.hash>>, FALSE))
          /\ replies'[c] = Append(replies[c], "denied") /\ Frame(c)
      BY <1>0, <1>5
         DEF Mysql!CutPassword, Mysql!Received, Mysql!Log, Mysql!LoginEvent, Mysql!Reply, Entry, Rows, IsRow, Frame
    <2>2. chunk.hash \notin MysqlWords
      BY <1>5, MysqlAssumption DEF Mysql!CutPassword
    <2> QED BY <2>1, <2>2, MysqlHears DEF MysqlMoves
  <1>6. ASSUME NEW c \in Conns, NEW chunk \in Chunks.mysql, Mysql!NoPassword(c, chunk)
        PROVE  MysqlInv' /\ MysqlMoves(c)
    <2>1. /\ link[c] = "open" /\ link'[c] = "open" /\ read'[c] = Append(read[c], chunk)
          /\ events'[c] = Append(events[c], Entry(chunk.user, <<"field", chunk.hash>>, FALSE))
          /\ replies'[c] = Append(replies[c], "too_many") /\ Frame(c)
      BY <1>0, <1>6
         DEF Mysql!NoPassword, Mysql!Received, Mysql!Log, Mysql!LoginEvent, Mysql!Reply, Entry, Rows, IsRow, Frame
    <2>2. chunk.hash \notin MysqlWords
      BY <1>6, MysqlAssumption DEF Mysql!NoPassword
    <2> QED BY <2>1, <2>2, MysqlHears DEF MysqlMoves
  <1> QED BY <1>1, <1>2, <1>3, <1>4, <1>5, <1>6 DEF Mysql!Next

\* The invariant holds at the start.
LEMMA MysqlBegins ==
    ASSUME Mysql!Init, state = Nothing, user = Nothing, buffer = Nothing, answers = Nothing
    PROVE  MysqlInv
  <1>1. /\ link = [c \in Conns |-> "none"] /\ read = [c \in Conns |-> <<>>]
        /\ events = [c \in Conns |-> <<>>] /\ replies = [c \in Conns |-> <<>>]
    BY DEF Mysql!Init, Mysql!ConnectionsInit
  <1>2. Rows
    BY <1>1 DEF Rows, IsRow, Nothing
  <1>3. MysqlOK("none", <<>>, <<>>, <<>>)
    <2>1. MysqlLog(<<>>, <<>>) /\ <<>> \in Seq({"greeting", "denied", "too_many"})
      BY NoEntries DEF MysqlLog
    <2> QED BY <2>1, Coming, NoLogins DEF MysqlOK
  <1> QED BY <1>1, <1>2, <1>3 DEF MysqlInv

\* The invariant implies the properties of the honeypot, and what is offered is what was said.
LEMMA MysqlSafe == MysqlInv => Mysql!TypeOK /\ Mysql!EveryTryIsLogged
  <1> SUFFICES ASSUME MysqlInv PROVE Mysql!TypeOK /\ Mysql!EveryTryIsLogged
    OBVIOUS
  <1>1. ASSUME NEW c \in Conns
        PROVE  /\ link[c] \in Links /\ read[c] \in Seq(Chunks.mysql)
               /\ link[c] = "none" <=> events[c] = <<>>
               /\ replies[c] \in Seq({"greeting", "denied", "too_many"}) /\ Len(replies[c]) = Len(events[c])
               /\ MysqlLog(Matching(events[c], "login"), read[c])
    BY NoEntries DEF MysqlInv, MysqlOK, Base, Known
  <1>2. Mysql!TypeOK
    BY <1>1 DEF MysqlInv, Rows, IsRow, Mysql!TypeOK, Mysql!ConnectionsTypeOK, Links
  <1>3. ASSUME NEW c \in Conns
        PROVE  LET tries == Mysql!Logins(c)
               IN  /\ Len(tries) = Len(read[c])
                   /\ \A i \in DOMAIN tries :
                         /\ tries[i].username = read[c][i].user
                         /\ tries[i].password[2] = read[c][i].hash
                         /\ tries[i].status = "success" <=>
                               /\ ~WordsAreText
                               /\ read[c][i].user = Configured.mysql[1]
                               /\ read[c][i].hash \in MysqlWords
    <2> DEFINE M == Matching(events[c], "login")
    <2>1. Mysql!Logins(c) = M
      BY DEF Mysql!Logins, Mysql!Matching, Matching, Mysql!Positions, Positions, Mysql!At, At
    <2>2. IsLog(M)
      BY MatchingEntry DEF MysqlInv, MysqlOK, Base
    <2>3. DOMAIN M = 1 .. Len(M)
      BY <2>2, LogAppend
    <2>4. MysqlLog(M, read[c])
      BY <1>1
    <2> HIDE DEF M
    <2>5. \A i \in DOMAIN M : MysqlTry(M[i], read[c][i])
      BY <2>3, <2>4 DEF MysqlLog
    <2>6. \A i \in DOMAIN M : M[i].password[2] = read[c][i].hash
      BY <2>5 DEF MysqlTry
    <2> QED BY <2>1, <2>4, <2>5, <2>6 DEF MysqlLog, MysqlTry
  <1>4. Mysql!EveryTryIsLogged
    BY <1>3 DEF Mysql!EveryTryIsLogged
  <1> QED BY <1>2, <1>4

-------------------------------------------------------------------------------
(* vnc (vnc_server.py:21-94): who has not answered the challenge has no login in the log;
   what a response is taken for, whatever the words and the configured password are *)

\* The configured password is the last candidate.
LEMMA VncCandidates ==
    /\ DOMAIN Vnc!Candidates = 1 .. Len(Vnc!Candidates) /\ Len(Vnc!Candidates) \in Nat
    /\ Len(Vnc!Candidates) \in DOMAIN Vnc!Candidates
    /\ Vnc!Candidates[Len(Vnc!Candidates)] = Configured.vnc[2]
  <1> DEFINE w == Configured.vnc[2]
  <1>1. IsLog(VncWords)
    BY VncAssumption, SequenceIsLog
  <1>2. Vnc!Candidates = Append(VncWords, w)
    BY DEF Vnc!Candidates
  <1> HIDE DEF w
  <1>3. /\ Len(VncWords) \in Nat /\ Len(Append(VncWords, w)) = Len(VncWords) + 1
        /\ DOMAIN Append(VncWords, w) = 1 .. Len(VncWords) + 1
        /\ Append(VncWords, w)[Len(VncWords) + 1] = w
    BY <1>1, LogAppend
  <1> QED BY <1>2, <1>3 DEF w

\* The word a known response is decoded to is the last one with that response.
LEMMA VncDecoded ==
    ASSUME NEW response
    PROVE  /\ Vnc!IsKnown(response) => /\ Encode[Vnc!Decode(response)] = response
                                       /\ \E i \in DOMAIN Vnc!Candidates : Vnc!Candidates[i] = Vnc!Decode(response)
           /\ ~Vnc!IsKnown(response) => Vnc!Decode(response) = "None"
           /\ response = Encode[Configured.vnc[2]] =>
                Vnc!IsKnown(response) /\ Vnc!Decode(response) = Configured.vnc[2]
  <1> DEFINE C == Vnc!Candidates
             n == Len(C)
             T == {i \in DOMAIN C : Encode[C[i]] = response}
  <1>1. Vnc!Matches(response) = T
    BY DEF Vnc!Matches
  <1>2. n \in Nat /\ DOMAIN C = 1 .. n /\ n \in DOMAIN C /\ C[n] = Configured.vnc[2]
    BY VncCandidates
  <1>3. Vnc!IsKnown(response) <=> T # {}
    BY <1>1 DEF Vnc!IsKnown
  <1>4. Vnc!Decode(response) = IF T # {} THEN C[Latest(T)] ELSE "None"
    BY <1>1, <1>3 DEF Vnc!Decode, Vnc!KnownPassword, Vnc!Latest, Latest
  <1> HIDE DEF C
  <1>5. T \in SUBSET (1 .. n) /\ \A i \in T : i \in DOMAIN C /\ Encode[C[i]] = response
    BY <1>2
  <1>6. response = Encode[Configured.vnc[2]] => n \in T
    BY <1>2
  <1> HIDE DEF T
  <1>7. T # {} => Latest(T) \in T /\ \A j \in T : j <= Latest(T)
    BY <1>2, <1>5, LatestIs
  <1>8. n \in T => Latest(T) = n
    <2> DEFINE m == Latest(T)
    <2> HIDE DEF m, n
    <2>1. n \in T => m \in 1 .. n /\ n <= m
      BY <1>5, <1>7 DEF m
    <2>2. n \in T => m = n
      BY <1>2, <2>1
    <2> QED BY <2>2 DEF m
  <1>9. CASE T = {}
    BY <1>3, <1>4, <1>6, <1>9
  <1>10. CASE T # {}
    <2>1. Latest(T) \in T /\ Vnc!Decode(response) = C[Latest(T)] /\ Vnc!IsKnown(response)
      BY <1>3, <1>4, <1>7, <1>10
    <2>2. Encode[Vnc!Decode(response)] = response /\ Latest(T) \in DOMAIN C
      BY <1>5, <2>1
    <2>3. response = Encode[Configured.vnc[2]] => Vnc!Decode(response) = Configured.vnc[2]
      BY <1>2, <1>6, <1>8, <2>1
    <2> QED BY <2>1, <2>2, <2>3 DEF C
  <1> QED BY <1>9, <1>10

VncAnswering(r) ==
    {i \in DOMAIN r : \E v, k \in 1 .. i - 1 : v < k /\ r[v] = "version" /\ r[k] = "security"}

VncOffers(r) == {<<"", Vnc!Stands(r[i])>> : i \in VncAnswering(r)}

VncShown(n) == [i \in DOMAIN n |-> <<n[i][1], Vnc!Response(n[i][2])>>]

\* No login, or that of the last chunk.
VncTried(M, r) ==
    \/ M = <<>>
    \/ \E x : /\ M = <<x>>
              /\ x.status = "success" <=> Vnc!Decode(r[Len(r)]) = Configured.vnc[2]

VncShaken(r) == \E v, k \in 1 .. Len(r) : v < k /\ r[v] = "version" /\ r[k] = "security"

VncOK(l, r, e, s) ==
    /\ Base(Chunks.vnc, l, r, e) /\ Known(l, e) /\ s \in 0 .. 3
    /\ l = "open" =>
          /\ s \in 1 .. 3 /\ Matching(e, "login") = <<>> /\ Names(e) = <<>>
          /\ s >= 2 => \E v \in 1 .. Len(r) : r[v] = "version"
          /\ s = 3 => VncShaken(r)
    /\ l \in {"closing", "lost"} => s \in {0, 3} /\ VncTried(Matching(e, "login"), r)

VncInv == Rows /\ \A c \in Conns : VncOK(link[c], read[c], events[c], state[c])

VncMoves(c) == Frame(c) /\ Moves(link[c], link'[c], VncOffers(read[c]), VncOffers(read'[c]),
                                 VncShown(Names(events[c])), VncShown(Names(events'[c])))

\* Of a step of one connection, only that one needs a look.
LEMMA VncFrame ==
    ASSUME VncInv, NEW c \in Conns, Frame(c),
           VncOK(link'[c], read'[c], events'[c], state'[c])
    PROVE  VncInv'
  BY DEF VncInv, Frame

\* A connection nobody has made, and one that was just made.
LEMMA VncComes == VncOK("none", <<>>, <<>>, 0) /\ VncOK("open", <<>>, Connected, 1)
  BY Coming, NoLogins DEF VncOK

\* A connection is lost.
LEMMA VncGoes ==
    ASSUME NEW l \in {"open", "closing"}, NEW r, NEW e, NEW s, VncOK(l, r, e, s)
    PROVE  VncOK("lost", r, e, 0)
  <1>1. Base(Chunks.vnc, "lost", r, e) /\ Known("lost", e)
    BY Going DEF VncOK
  <1> QED BY <1>1 DEF VncOK, VncTried

\* One more chunk was read.
LEMMA VncOneMore ==
    ASSUME NEW r, IsLog(r), NEW chunk, NEW t, t = Append(r, chunk)
    PROVE  /\ VncOffers(r) \subseteq VncOffers(t)
           /\ VncShaken(r) => <<"", Vnc!Stands(chunk)>> \in VncOffers(t)
           /\ t[Len(t)] = chunk
           /\ Len(r) \in Nat /\ Len(t) = Len(r) + 1 /\ t[Len(r) + 1] = chunk
           /\ \A i \in 1 .. Len(r) : t[i] = r[i]
  <1> DEFINE n == Len(r)
  <1>1. /\ n \in Nat /\ Len(t) = n + 1 /\ t[n + 1] = chunk
        /\ DOMAIN r = 1 .. n /\ DOMAIN t = 1 .. n + 1
        /\ \A i \in 1 .. n : t[i] = r[i]
    BY LogAppend
  <1> HIDE DEF n
  <1>2. VncAnswering(r) \subseteq VncAnswering(t)
    <2>1. ASSUME NEW i \in VncAnswering(r) PROVE i \in VncAnswering(t)
      <3>1. i \in 1 .. n
        BY <1>1 DEF VncAnswering
      <3>2. PICK v, k \in 1 .. i - 1 : v < k /\ r[v] = "version" /\ r[k] = "security"
        BY DEF VncAnswering
      <3>3. v \in 1 .. n /\ k \in 1 .. n /\ i \in DOMAIN t
        BY <1>1, <3>1
      <3>4. t[v] = "version" /\ t[k] = "security"
        BY <1>1, <3>2, <3>3
      <3> QED BY <3>2, <3>3, <3>4 DEF VncAnswering
    <2> QED BY <2>1
  <1>3. \A i \in VncAnswering(r) : t[i] = r[i]
    BY <1>1 DEF VncAnswering
  <1>4. \A q, y : y \in VncOffers(q) <=> \E i \in VncAnswering(q) : y = <<"", Vnc!Stands(q[i])>>
    BY DEF VncOffers
  <1>5. ASSUME NEW y \in VncOffers(r) PROVE y \in VncOffers(t)
    <2>1. PICK i \in VncAnswering(r) : y = <<"", Vnc!Stands(r[i])>>
      BY <1>4
    <2>2. i \in VncAnswering(t) /\ t[i] = r[i]
      BY <1>2, <1>3
    <2> QED BY <1>4, <2>1, <2>2
  <1>6. ASSUME \E v, k \in 1 .. n : v < k /\ r[v] = "version" /\ r[k] = "security"
        PROVE  <<"", Vnc!Stands(chunk)>> \in VncOffers(t)
    <2>1. PICK v, k \in 1 .. n : v < k /\ r[v] = "version" /\ r[k] = "security"
      BY <1>6
    <2>2. t[v] = "version" /\ t[k] = "security" /\ n + 1 - 1 = n /\ n + 1 \in DOMAIN t
      BY <1>1, <2>1
    <2>3. v \in 1 .. (n + 1) - 1 /\ k \in 1 .. (n + 1) - 1
      BY <1>1, <2>1
    <2>4. n + 1 \in VncAnswering(t)
      BY <2>1, <2>2, <2>3 DEF VncAnswering
    <2> QED BY <1>1, <1>4, <2>4
  <1> QED BY <1>1, <1>5, <1>6 DEF n, VncShaken

\* The same, one fact at a time.
LEMMA VncKeeps == ASSUME NEW r, IsLog(r), NEW chunk, NEW t, t = Append(r, chunk) PROVE VncOffers(r) \subseteq VncOffers(t)
  BY VncOneMore

\* What the last chunk adds to what is offered.
LEMMA VncGains ==
    ASSUME NEW r, IsLog(r), VncShaken(r), NEW chunk, NEW t, t = Append(r, chunk)
    PROVE  <<"", Vnc!Stands(chunk)>> \in VncOffers(t)
  BY VncOneMore

\* The responses that the passwords in the log stand for: of none, and of one.
LEMMA VncShowing == VncShown(<<>>) = <<>> /\ \A u, p : VncShown(<<<<u, p>>>>) = <<<<u, Vnc!Response(p)>>>>
  <1>1. DOMAIN <<>> = {}
    OBVIOUS
  <1>2. \A f : f = [i \in {} |-> f[i]] => f = <<>>
    OBVIOUS
  <1>3. VncShown(<<>>) = <<>>
    BY <1>1 DEF VncShown
  <1>4. ASSUME NEW u, NEW p PROVE VncShown(<<<<u, p>>>>) = <<<<u, Vnc!Response(p)>>>>
    <2> DEFINE x == <<u, p>>
    <2>1. x[1] = u /\ x[2] = p
      OBVIOUS
    <2> HIDE DEF x
    <2>2. DOMAIN <<x>> = {1} /\ <<x>>[1] = x
      OBVIOUS
    <2>3. VncShown(<<x>>) = [i \in {1} |-> <<u, Vnc!Response(p)>>]
      BY <2>1, <2>2 DEF VncShown
    <2> DEFINE y == <<u, Vnc!Response(p)>>
    <2> HIDE DEF y
    <2>4. [i \in {1} |-> y] = <<y>>
      OBVIOUS
    <2> QED BY <2>3, <2>4 DEF x, y
  <1> QED BY <1>3, <1>4

\* A message of the handshake, or one that is ignored.
LEMMA VncShakes ==
    ASSUME NEW r, NEW e, NEW s \in {1, 2}, VncOK("open", r, e, s), NEW chunk \in Chunks.vnc,
           NEW t, t = Append(r, chunk), NEW z,
           \/ z = s
           \/ z = s + 1 /\ (s = 1 => chunk = "version") /\ (s = 2 => chunk = "security")
    PROVE  VncOK("open", t, e, z) /\ VncOffers(r) \subseteq VncOffers(t)
  <1>1. /\ Open(Chunks.vnc, r, e) /\ Known("open", e) /\ IsLog(r) /\ Matching(e, "login") = <<>> /\ Names(e) = <<>>
        /\ s >= 2 => \E v \in 1 .. Len(r) : r[v] = "version"
    BY SequenceIsLog DEF VncOK, Open, Base
  <1>a. VncOffers(r) \subseteq VncOffers(t)
    BY <1>1, VncKeeps
  <1>2. /\ Len(r) \in Nat /\ Len(t) = Len(r) + 1
        /\ t[Len(r) + 1] = chunk /\ \A i \in 1 .. Len(r) : t[i] = r[i]
    BY <1>1, LogAppend
  <1>3. Base(Chunks.vnc, "open", t, e) /\ Known("open", e)
    BY <1>1, ReadingNothing
  <1>4. z >= 2 => \E v \in 1 .. Len(t) : t[v] = "version"
    <2>1. CASE s = 1
      <3>1. z >= 2 => t[Len(t)] = "version" /\ Len(t) \in 1 .. Len(t)
        BY <1>2, <2>1
      <3> QED BY <3>1
    <2>2. CASE s = 2
      BY <1>1, <1>2, <2>2
    <2> QED BY <2>1, <2>2
  <1>5. z = 3 => \E v, k \in 1 .. Len(t) : v < k /\ t[v] = "version" /\ t[k] = "security"
    <2>1. CASE z = 3
      <3>1. s = 2 /\ t[Len(t)] = "security"
        BY <1>2, <2>1
      <3>2. PICK v \in 1 .. Len(r) : r[v] = "version"
        BY <1>1, <3>1
      <3>3. v \in 1 .. Len(t) /\ Len(t) \in 1 .. Len(t) /\ v < Len(t) /\ t[v] = "version"
        BY <1>2, <3>2
      <3> QED BY <3>1, <3>3
    <2> QED BY <2>1
  <1> QED BY <1>1, <1>a, <1>2, <1>3, <1>4, <1>5 DEF VncOK, VncShaken

\* The response to the challenge.
LEMMA VncAnswers ==
    ASSUME NEW r, NEW e, VncOK("open", r, e, 3), NEW chunk \in Chunks.vnc,
           NEW t, t = Append(r, chunk), NEW x, IsLogin(x, "", Vnc!Decode(chunk)),
           x.status = "success" <=> Vnc!Decode(chunk) = Configured.vnc[2],
           NEW f, f = Append(e, x)
    PROVE  /\ VncOK("closing", t, f, 3)
           /\ Moves("open", "closing", VncOffers(r), VncOffers(t), VncShown(Names(e)), VncShown(Names(f)))
  <1> DEFINE p == Vnc!Decode(chunk)
  <1>1. /\ Open(Chunks.vnc, r, e) /\ IsLog(r) /\ IsLog(e) /\ Matching(e, "login") = <<>> /\ Names(e) = <<>>
        /\ VncShaken(r)
    BY SequenceIsLog DEF VncOK, Open, Base
  <1>a. VncOffers(r) \subseteq VncOffers(t)
    BY <1>1, VncKeeps
  <1>b. <<"", Vnc!Stands(chunk)>> \in VncOffers(t)
    BY <1>1, VncGains
  <1>2. t[Len(t)] = chunk
    <2>1. Len(t) = Len(r) + 1 /\ t[Len(r) + 1] = chunk
      BY <1>1, LogAppend
    <2> QED BY <2>1
  <1>3. LoggedIn(Chunks.vnc, "closing", t, e, f, "", p)
    BY <1>1, ReadingLogin
  <1> HIDE DEF p
  <1>4. /\ Base(Chunks.vnc, "closing", t, f) /\ Known("closing", f)
        /\ Names(f) = Append(Names(e), <<"", p>>)
    BY <1>3 DEF LoggedIn
  <1>5. Names(f) = <<<<"", p>>>>
    BY <1>1, <1>4, FirstLogin
  <1>6. Matching(f, "login") = <<x>>
    <2>1. x.action = "login"
      BY DEF IsLogin
    <2>2. Matching(f, "login") = Append(Matching(e, "login"), x)
      BY <1>1, <2>1, MatchingEntry
    <2> QED BY <1>1, <2>2, FirstLogin
  <1>7. VncTried(Matching(f, "login"), t)
    BY <1>2, <1>6 DEF VncTried
  <1>8. VncOK("closing", t, f, 3)
    BY <1>4, <1>7 DEF VncOK
  <1>9. Vnc!Response(p) = Vnc!Stands(chunk)
    BY VncDecoded DEF Vnc!Response, Vnc!Stands, p
  <1>10. VncShown(Names(e)) = <<>> /\ VncShown(Names(f)) = <<<<"", Vnc!Stands(chunk)>>>>
    BY <1>1, <1>5, <1>9, VncShowing
  <1>12. VncShown(Names(f)) = Append(VncShown(Names(e)), <<"", Vnc!Stands(chunk)>>)
    BY <1>10, OneElement, Zenon
  <1> QED BY <1>a, <1>b, <1>8, <1>12 DEF Moves, PhaseOf

\* Every step of the honeypot keeps its invariant, and is one LoginCapture allows.
LEMMA VncStep ==
    ASSUME VncInv, Vnc!Next, UNCHANGED <<server, user, buffer, answers, replies>>
    PROVE  VncInv' /\ \E c \in Conns : VncMoves(c)
  <1>0. Rows
    BY DEF VncInv
  <1>1. ASSUME NEW c \in Conns, Vnc!ConnectionMade(c) PROVE VncInv' /\ VncMoves(c)
    <2>1. /\ link[c] = "none" /\ link'[c] = "open" /\ read'[c] = read[c] /\ events'[c] = Connected
          /\ state'[c] = 1 /\ Frame(c)
      BY <1>0, <1>1 DEF Vnc!ConnectionMade, Vnc!Accept, Connected, Rows, IsRow, Frame
    <2>2. VncOK("none", read[c], events[c], state[c])
      BY <2>1 DEF VncInv
    <2>3. read[c] = <<>> /\ events[c] = <<>>
      BY <2>2 DEF VncOK, Base
    <2>4. VncOK("open", <<>>, Connected, 1)
      BY VncComes
    <2>5. VncInv'
      BY <2>1, <2>3, <2>4, VncFrame
    <2> QED BY <2>1, <2>3, <2>5, Coming, NoEntries DEF VncMoves, Moved, Moves, PhaseOf
  <1>2. ASSUME NEW c \in Conns, Vnc!Lost(c) PROVE VncInv' /\ VncMoves(c)
    <2>1. /\ link[c] \in {"open", "closing"} /\ link'[c] = "lost" /\ read'[c] = read[c]
          /\ events'[c] = events[c] /\ state'[c] = 0 /\ Frame(c)
      BY <1>0, <1>2 DEF Vnc!Lost, Vnc!ConnectionLost, Rows, IsRow, Frame
    <2>2. VncOK(link[c], read[c], events[c], state[c])
      BY DEF VncInv
    <2>3. VncOK("lost", read[c], events[c], 0)
      BY <2>1, <2>2, VncGoes
    <2>4. VncInv'
      BY <2>1, <2>3, VncFrame
    <2> QED BY <2>1, <2>4 DEF VncMoves, Moved, Moves, PhaseOf
  <1>3. ASSUME NEW c \in Conns, NEW chunk \in Chunks.vnc, Vnc!Handshake(c, chunk)
        PROVE  VncInv' /\ VncMoves(c)
    <2>1. /\ link[c] = "open" /\ read'[c] = Append(read[c], chunk) /\ Frame(c)
          /\ link'[c] = "open" /\ events'[c] = events[c] /\ state[c] \in {1, 2}
          /\ state'[c] = IF chunk = Vnc!Expected(c) THEN state[c] + 1 ELSE state[c]
      BY <1>0, <1>3 DEF Vnc!Handshake, Vnc!Received, Rows, IsRow, Frame
    <2>2. VncOK("open", read[c], events[c], state[c])
      BY <2>1 DEF VncInv
    <2>3. (state[c] = 1 => Vnc!Expected(c) = "version") /\ (state[c] = 2 => Vnc!Expected(c) = "security")
      BY DEF Vnc!Expected
    <2>4. /\ VncOK("open", read'[c], events[c], state'[c])
          /\ VncOffers(read[c]) \subseteq VncOffers(read'[c])
      BY <2>1, <2>2, <2>3, VncShakes
    <2>5. VncInv'
      BY <2>1, <2>4, VncFrame
    <2> QED BY <2>1, <2>4, <2>5 DEF VncMoves, Moves, PhaseOf
  <1>4. ASSUME NEW c \in Conns, NEW chunk \in Chunks.vnc, Vnc!HandleLogin(c, chunk)
        PROVE  VncInv' /\ VncMoves(c)
    <2> DEFINE p == Vnc!Decode(chunk)
               x == Entry("", p, p = Configured.vnc[2])
    <2>1. /\ link[c] = "open" /\ read'[c] = Append(read[c], chunk) /\ Frame(c)
          /\ link'[c] = "closing" /\ events'[c] = Append(events[c], x)
          /\ state[c] = 3 /\ state'[c] = 3
      BY <1>0, <1>4 DEF Vnc!HandleLogin, Vnc!Received, Vnc!Log, Vnc!LoginEvent, Vnc!LoseConnection,
                        Entry, Rows, IsRow, Frame
    <2>2. VncOK("open", read[c], events[c], 3)
      BY <2>1 DEF VncInv
    <2>3. IsLogin(x, "", p) /\ (x.status = "success" <=> p = Configured.vnc[2])
      BY EntryIsLogin DEF Entry
    <2> HIDE DEF x
    <2>4. /\ VncOK("closing", read'[c], events'[c], 3)
          /\ Moves("open", "closing", VncOffers(read[c]), VncOffers(read'[c]),
                   VncShown(Names(events[c])), VncShown(Names(events'[c])))
      BY <2>1, <2>2, <2>3, VncAnswers
    <2>5. VncInv'
      BY <2>1, <2>4, VncFrame
    <2> QED BY <2>1, <2>4, <2>5 DEF VncMoves
  <1> QED BY <1>1, <1>2, <1>3, <1>4 DEF Vnc!Next

\* The invariant holds at the start.
LEMMA VncBegins ==
    ASSUME Vnc!Init, user = Nothing, buffer = Nothing, answers = Nothing, replies = Nothing
    PROVE  VncInv
  <1>1. /\ link = [c \in Conns |-> "none"] /\ read = [c \in Conns |-> <<>>]
        /\ events = [c \in Conns |-> <<>>] /\ state = [c \in Conns |-> 0]
    BY DEF Vnc!Init, Vnc!ConnectionsInit
  <1>2. Rows
    BY <1>1 DEF Rows, IsRow, Nothing
  <1>3. VncOK("none", <<>>, <<>>, 0)
    BY VncComes
  <1> QED BY <1>1, <1>2, <1>3 DEF VncInv

\* The invariant implies the properties of the honeypot, and what is offered is what was said.
LEMMA VncSafe ==
    ASSUME VncInv
    PROVE  /\ Vnc!TypeOK /\ Vnc!SuccessIsConfigured
           /\ \A c \in Conns : /\ Vnc!Offered(c) = VncOffers(read[c])
                               /\ Vnc!Shown(c) = VncShown(Names(events[c]))
  <1>1. ASSUME NEW c \in Conns
        PROVE  /\ link[c] \in Links /\ read[c] \in Seq(Chunks.vnc)
               /\ link[c] = "none" <=> events[c] = <<>>
               /\ state[c] \in 0 .. 3
               /\ link[c] \in {"none", "open"} => Matching(events[c], "login") = <<>> /\ Names(events[c]) = <<>>
               /\ link[c] \in {"closing", "lost"} =>
                     state[c] \in {0, 3} /\ VncTried(Matching(events[c], "login"), read[c])
    <2>1. VncOK(link[c], read[c], events[c], state[c])
      BY DEF VncInv
    <2> QED BY <2>1, Basics, NoLogins DEF VncOK
  <1>2. \A c \in Conns : Vnc!Captured(c) = Names(events[c])
    BY IsNames DEF Vnc!Captured, Telnet!Captured, Vnc!Logins, Telnet!Logins, Vnc!Matching, Telnet!Matching,
             Vnc!Positions, Telnet!Positions, Vnc!At, Telnet!At
  <1>3. \A c \in Conns : Names(events[c]) # <<>> => state[c] \in {0, 3} /\ link[c] \in {"closing", "lost"}
    BY <1>1 DEF Links
  <1>4. Vnc!TypeOK
    BY <1>1, <1>2, <1>3 DEF VncInv, Rows, IsRow, Vnc!TypeOK, Vnc!ConnectionsTypeOK, Links
  <1>5. ASSUME NEW c \in Conns
        PROVE  \A i \in DOMAIN Vnc!Logins(c) :
                  LET response == read[c][Len(read[c])]
                  IN  Vnc!Logins(c)[i].status = "success" <=>
                        \/ response = Encode[Configured.vnc[2]]
                        \/ Configured.vnc[2] = "None" /\ ~Vnc!IsKnown(response)
    <2> DEFINE response == read[c][Len(read[c])]
               M == Matching(events[c], "login")
    <2>1. Vnc!Logins(c) = M
      BY DEF Vnc!Logins, Vnc!Matching, Matching, Vnc!Positions, Positions, Vnc!At, At
    <2>2. M = <<>> \/ \E x : M = <<x>> /\ (x.status = "success" <=> Vnc!Decode(response) = Configured.vnc[2])
      BY <1>1 DEF VncTried, Links
    <2>3. DOMAIN <<>> = {} /\ \A x : DOMAIN <<x>> = {1} /\ <<x>>[1] = x
      OBVIOUS
    <2> HIDE DEF M, response
    <2>4. \A i \in DOMAIN M : M[i].status = "success" <=> Vnc!Decode(response) = Configured.vnc[2]
      BY <2>2, <2>3
    <2>5. Vnc!Decode(response) = Configured.vnc[2] <=>
            \/ response = Encode[Configured.vnc[2]]
            \/ Configured.vnc[2] = "None" /\ ~Vnc!IsKnown(response)
      BY VncDecoded
    <2> QED BY <2>1, <2>4, <2>5 DEF response
  <1>6. Vnc!SuccessIsConfigured
    BY <1>5 DEF Vnc!SuccessIsConfigured
  <1>7. \A c \in Conns : Vnc!Offered(c) = VncOffers(read[c])
    BY DEF Vnc!Offered, VncOffers, Vnc!Answering, VncAnswering
  <1>8. \A c \in Conns : Vnc!Shown(c) = VncShown(Names(events[c]))
    BY <1>2 DEF Vnc!Shown, VncShown
  <1> QED BY <1>4, <1>6, <1>7, <1>8

-------------------------------------------------------------------------------
(* ldap (ldap_server.py:41-88): the logins are those of the first two chunks with credentials *)

LdapSeen(r) == At(r, {i \in 1 .. Ldap!AtMost(Len(r), 2) : ~Ldap!IsAnonymous(r[i])})

LdapOffers(r) == UNION {Ldap!Readable(r[i]) : i \in DOMAIN r}

\* What is read of a chunk, and whose name and password the logins have.
LdapRead(chunk) == <<Ldap!Username(chunk), Ldap!Password(chunk)>>
LdapShown(n) == [i \in DOMAIN n |-> Ldap!Origin(n[i])]

\* The names are the credentials of the tries.
LdapNames(n, tries) == Len(n) = Len(tries) /\ \A i \in 1 .. Len(tries) : n[i] = LdapRead(tries[i])

LdapOK(l, r, e, s) ==
    /\ Base(Chunks.ldap, l, r, e) /\ Known(l, e) /\ s \in 0 .. 3
    /\ l = "open" => s \in 1 .. 3 /\ Len(r) = s - 1
    /\ LdapNames(Names(e), LdapSeen(r))

LdapInv == Rows /\ \A c \in Conns : LdapOK(link[c], read[c], events[c], state[c])

LdapMoves(c) == Frame(c) /\ Moves(link[c], link'[c], LdapOffers(read[c]), LdapOffers(read'[c]),
                                   LdapShown(Names(events[c])), LdapShown(Names(events'[c])))

\* Of a step of one connection, only that one needs a look.
LEMMA LdapFrame ==
    ASSUME LdapInv, NEW c \in Conns, Frame(c),
           LdapOK(link'[c], read'[c], events'[c], state'[c])
    PROVE  LdapInv'
  BY DEF LdapInv, Frame

\* A connection nobody has made, and one that was just made.
LEMMA LdapComes == LdapOK("none", <<>>, <<>>, 0) /\ LdapOK("open", <<>>, Connected, 1)
  <1>1. LdapSeen(<<>>) = <<>>
    BY AtEmpty DEF LdapSeen
  <1>2. LdapNames(<<>>, <<>>)
    BY NoEntries DEF LdapNames
  <1> QED BY <1>1, <1>2, Coming, NoEntries DEF LdapOK

\* A connection is lost.
LEMMA LdapGoes ==
    ASSUME NEW l \in {"open", "closing"}, NEW r, NEW e, NEW s, LdapOK(l, r, e, s)
    PROVE  LdapOK("lost", r, e, 0)
  BY Going DEF LdapOK

\* A range is empty if it has no bytes.
LEMMA LdapRange ==
    ASSUME NEW of, NEW skip, NEW count
    PROVE  /\ Ldap!Range(of, skip, count) = Ldap!Empty <=> count = 0
           /\ Ldap!Range(of, skip, count).of \in {of, ""}
           /\ Ldap!Empty.of = ""
  BY DEF Ldap!Range, Ldap!Empty

\* When there is nothing, by itself.
LEMMA LdapVoid ==
    ASSUME NEW of, NEW skip, NEW count
    PROVE  Ldap!Range(of, skip, count) = Ldap!Empty <=> count = 0
  BY DEF Ldap!Range, Ldap!Empty

\* The bytes of a length.
LEMMA LdapLength ==
    ASSUME NEW n \in Nat, n < 256 * 256
    PROVE  /\ n < 128 => Ldap!LengthBytes(n) = <<n>>
           /\ Ldap!IsMisread(n) => Ldap!LengthBytes(n) = <<129, n>>
           /\ n >= 256 => \E hi, lo \in Nat : Ldap!LengthBytes(n) = <<130, hi, lo>> /\ hi * 256 + lo = n
  <1>1. n >= 256 => \E hi, lo \in Nat : Ldap!LengthBytes(n) = <<130, hi, lo>> /\ hi * 256 + lo = n
    <2> SUFFICES ASSUME n >= 256
                 PROVE  \E hi, lo \in Nat : Ldap!LengthBytes(n) = <<130, hi, lo>> /\ hi * 256 + lo = n
      OBVIOUS
    <2> DEFINE x == n \div 256  y == n % 256
    <2>1. Ldap!LengthBytes(n) = <<130, x, y>>
      BY DEF Ldap!LengthBytes
    <2>2. x \in Nat /\ y \in Nat /\ x * 256 + y = n
      OBVIOUS
    <2> HIDE DEF x, y
    <2> QED BY <2>1, <2>2
  <1> QED BY <1>1 DEF Ldap!LengthBytes, Ldap!IsMisread

\* A name is read by the first of these bytes.
LEMMA LdapName ==
    ASSUME NEW u, NEW m \in Nat, m < 256 * 256
    PROVE  /\ Ldap!LengthBytes(m)[1] = 0 <=> m = 0
           /\ m < 128 => Ldap!Range(u, 1, Ldap!LengthBytes(m)[1]) = Ldap!Whole(u, m)
  <1>1. CASE m < 128
    <2>1. Ldap!LengthBytes(m) = <<m>> /\ <<m>>[1] = m /\ Len(<<m>>) = 1
      BY <1>1, LdapLength
    <2> QED BY <2>1 DEF Ldap!Whole
  <1>2. CASE Ldap!IsMisread(m)
    <2>1. Ldap!LengthBytes(m) = <<129, m>> /\ <<129, m>>[1] = 129
      BY <1>2, LdapLength
    <2> QED BY <1>2, <2>1 DEF Ldap!IsMisread
  <1>3. CASE m >= 256
    <2>1. PICK hi, lo \in Nat : Ldap!LengthBytes(m) = <<130, hi, lo>>
      BY <1>3, LdapLength
    <2> QED BY <1>3, <2>1
  <1> QED BY <1>1, <1>2, <1>3 DEF Ldap!IsMisread

\* A password is a range of the packet, and which one.
LEMMA LdapSlice ==
    ASSUME NEW p, NEW n \in Nat, n < 256 * 256, NEW k \in 0 .. n
    PROVE  /\ \E skip, count : /\ Ldap!Slice(p, n, k) = Ldap!Range(p, skip, count)
                               /\ count = 0 <=> n = k /\ ~Ldap!IsMisread(n)
           /\ k = 0 /\ ~Ldap!IsMisread(n) => Ldap!Slice(p, n, k) = Ldap!Whole(p, n)
  <1>1. CASE n < 128
    <2> DEFINE bytes == <<n>>
    <2>1. Ldap!LengthBytes(n) = bytes
      BY <1>1, LdapLength
    <2>2. bytes[1] = n /\ Len(bytes) = 1 /\ n # 130
      BY <1>1
    <2> HIDE DEF bytes
    <2>3. Ldap!Slice(p, n, k) = Ldap!Range(p, 1, Ldap!AtMost(n, 1 + n - k - 1))
      BY <2>1, <2>2 DEF Ldap!Slice
    <2>4. Ldap!AtMost(n, 1 + n - k - 1) = n - k
      BY DEF Ldap!AtMost
    <2>5. Ldap!Slice(p, n, k) = Ldap!Range(p, 1, n - k) /\ (n - k = 0 <=> n = k /\ ~Ldap!IsMisread(n))
      BY <1>1, <2>3, <2>4 DEF Ldap!IsMisread
    <2>6. Ldap!Whole(p, n) = Ldap!Range(p, 1, n)
      BY <2>1, <2>2 DEF Ldap!Whole
    <2> QED BY <2>5, <2>6
  <1>2. CASE Ldap!IsMisread(n)
    <2> DEFINE bytes == <<129, n>>
    <2>1. Ldap!LengthBytes(n) = bytes
      BY <1>2, LdapLength
    <2>2. bytes[1] = 129 /\ Len(bytes) = 2
      OBVIOUS
    <2> HIDE DEF bytes
    <2>3. Ldap!Slice(p, n, k) = Ldap!Range(p, 1, Ldap!AtMost(129, 2 + n - k - 1))
      BY <2>1, <2>2 DEF Ldap!Slice
    <2>4. Ldap!AtMost(129, 2 + n - k - 1) # 0
      BY <1>2 DEF Ldap!AtMost, Ldap!IsMisread
    <2> QED BY <1>2, <2>3, <2>4
  <1>3. CASE n >= 256
    <2>1. PICK hi, lo \in Nat : Ldap!LengthBytes(n) = <<130, hi, lo>> /\ hi * 256 + lo = n
      BY <1>3, LdapLength
    <2> DEFINE bytes == <<130, hi, lo>>
    <2>2. bytes[1] = 130 /\ bytes[2] = hi /\ bytes[3] = lo /\ Len(bytes) = 3 /\ Ldap!LengthBytes(n) = bytes
      BY <2>1
    <2> HIDE DEF bytes
    <2>3. Ldap!Slice(p, n, k) = Ldap!Range(p, 3, Ldap!AtMost(n, 3 + n - k - 3))
      BY <2>1, <2>2 DEF Ldap!Slice
    <2>4. Ldap!AtMost(n, 3 + n - k - 3) = n - k
      BY DEF Ldap!AtMost
    <2>5. Ldap!Slice(p, n, k) = Ldap!Range(p, 3, n - k) /\ (n - k = 0 <=> n = k /\ ~Ldap!IsMisread(n))
      BY <1>3, <2>3, <2>4 DEF Ldap!IsMisread
    <2>6. Ldap!Whole(p, n) = Ldap!Range(p, 3, n)
      BY <2>2 DEF Ldap!Whole
    <2> QED BY <2>5, <2>6
  <1> QED BY <1>1, <1>2, <1>3 DEF Ldap!IsMisread

\* The code's parser and what a client means by a bind.
LEMMA LdapParsed ==
    ASSUME NEW chunk \in Chunks.ldap
    PROVE  /\ Ldap!HasCredentials(chunk) <=> ~Ldap!IsAnonymous(chunk)
           /\ Ldap!IsPlain(chunk) => LdapRead(chunk) = Ldap!Given(chunk)
           /\ Ldap!Origin(LdapRead(chunk)) \in Ldap!Readable(chunk)
  <1> DEFINE u == Ldap!Username(chunk)  p == Ldap!Password(chunk)
             whole == Ldap!Whole(chunk.user, chunk.size)
             secret == Ldap!Whole(chunk.password, chunk.length)
  <1>1. LdapRead(chunk) = <<u, p>> /\ Ldap!Origin(LdapRead(chunk)) = <<u.of, p.of>>
    BY DEF LdapRead, Ldap!Origin
  <1>2. CASE chunk.kind = "other"
    <2>1. u = Ldap!Empty /\ p = Ldap!Empty
      BY <1>2 DEF Ldap!Username, Ldap!Password, Ldap!IsSimple
    <2>2. Ldap!Given(chunk) = <<Ldap!Empty, Ldap!Empty>> /\ Ldap!Readable(chunk) = {Ldap!Origin(Ldap!Given(chunk))}
      BY <1>2 DEF Ldap!Given, Ldap!Readable, Ldap!IsPlain
    <2>3. ~Ldap!HasCredentials(chunk) /\ Ldap!IsAnonymous(chunk)
      BY <1>2, <2>1 DEF Ldap!HasCredentials, Ldap!IsAnonymous
    <2> QED BY <1>1, <2>1, <2>2, <2>3
  <1>3. CASE chunk.kind # "other"
    <2>1. chunk.size \in Nat /\ chunk.size < 256 * 256
      BY <1>3, LdapAssumption
    <2>2. (u = Ldap!Empty <=> chunk.size = 0) /\ u.of \in {chunk.user, ""} /\ (chunk.size < 128 => u = whole)
      <3> DEFINE m == chunk.size  v == chunk.user  first == Ldap!LengthBytes(m)[1]
      <3>1. u = Ldap!Range(v, 1, first)
        BY <1>3 DEF Ldap!Username
      <3>2. m \in Nat /\ m < 256 * 256
        BY <2>1
      <3> HIDE DEF m, v, u
      <3>3. (first = 0 <=> m = 0) /\ (m < 128 => Ldap!Range(v, 1, first) = Ldap!Whole(v, m))
        BY <3>2, LdapName
      <3> HIDE DEF first
      <3>4. (u = Ldap!Empty <=> m = 0) /\ u.of \in {v, ""} /\ (m < 128 => u = Ldap!Whole(v, m))
        BY <3>1, <3>3, LdapRange
      <3> QED BY <3>4 DEF m, v
    <2>3. CASE chunk.kind # "bind"
      <3>1. p = Ldap!Empty /\ p.of = ""
        BY <2>3, LdapRange DEF Ldap!Password, Ldap!IsSimple
      <3>2. Ldap!HasCredentials(chunk) <=> ~Ldap!IsAnonymous(chunk)
        BY <1>3, <2>2, <2>3, <3>1 DEF Ldap!HasCredentials, Ldap!IsAnonymous
      <3>3. Ldap!Given(chunk) = <<whole, Ldap!Empty>>
        BY <1>3, <2>3 DEF Ldap!Given
      <3>4. Ldap!IsPlain(chunk) => LdapRead(chunk) = Ldap!Given(chunk)
        <4>1. Ldap!IsPlain(chunk) => chunk.size < 128
          BY <1>3, <2>3 DEF Ldap!IsPlain
        <4> QED BY <1>1, <2>2, <3>1, <3>3, <4>1
      <3>5. Ldap!Readable(chunk) = IF Ldap!IsPlain(chunk) THEN {Ldap!Origin(Ldap!Given(chunk))}
                                   ELSE {chunk.user, ""} \X {""}
        BY <2>3 DEF Ldap!Readable
      <3> QED BY <1>1, <2>2, <3>1, <3>2, <3>4, <3>5
    <2>4. CASE chunk.kind = "bind"
      <3> DEFINE n == chunk.length  k == chunk.cut  w == chunk.password
      <3>1. n \in Nat /\ n < 256 * 256 /\ k \in 0 .. n
        BY <2>4, LdapAssumption
      <3>2. p = IF chunk.size <= 128 THEN Ldap!Slice(w, n, k) ELSE Ldap!Empty
        BY <2>4 DEF Ldap!Password, Ldap!IsSimple
      <3>3. /\ Ldap!Slice(w, n, k) = Ldap!Empty <=> n = k /\ ~Ldap!IsMisread(n)
            /\ Ldap!Slice(w, n, k).of \in {w, ""}
            /\ k = 0 /\ ~Ldap!IsMisread(n) => Ldap!Slice(w, n, k) = secret
        <4> HIDE DEF n, k, w
        <4>1. PICK skip, count : /\ Ldap!Slice(w, n, k) = Ldap!Range(w, skip, count)
                                 /\ count = 0 <=> n = k /\ ~Ldap!IsMisread(n)
          BY <3>1, LdapSlice
        <4>2. k = 0 /\ ~Ldap!IsMisread(n) => Ldap!Slice(w, n, k) = Ldap!Whole(w, n)
          BY <3>1, LdapSlice
        <4>3. Ldap!Whole(w, n) = secret
          BY DEF n, w
        <4>4. Ldap!Slice(w, n, k) = Ldap!Empty <=> count = 0
          <5>1. Ldap!Range(w, skip, count) = Ldap!Empty <=> count = 0
            BY LdapVoid
          <5> QED BY <4>1, <5>1
        <4>5. Ldap!Slice(w, n, k).of \in {w, ""}
          BY <4>1, LdapRange
        <4> HIDE DEF secret
        <4> QED BY <4>1, <4>2, <4>3, <4>4, <4>5
      <3>4. p.of \in {w, ""}
        BY <3>2, <3>3, LdapRange
      <3>5. chunk.size = 0 => chunk.size <= 128
        BY <2>1
      <3>6. Ldap!HasCredentials(chunk) <=> ~Ldap!IsAnonymous(chunk)
        <4> HIDE DEF u, p
        <4>1. Ldap!HasCredentials(chunk) <=> u # Ldap!Empty \/ p # Ldap!Empty
          BY DEF Ldap!HasCredentials, u, p
        <4>2. Ldap!IsAnonymous(chunk) <=> chunk.size = 0 /\ n = k /\ ~Ldap!IsMisread(n)
          BY <2>4 DEF Ldap!IsAnonymous
        <4> QED BY <2>2, <3>2, <3>3, <3>5, <4>1, <4>2
      <3>7. Ldap!Given(chunk) = <<whole, secret>>
        BY <2>4 DEF Ldap!Given
      <3>8. Ldap!IsPlain(chunk) => LdapRead(chunk) = Ldap!Given(chunk)
        <4>1. Ldap!IsPlain(chunk) => chunk.size < 128 /\ chunk.size <= 128 /\ k = 0 /\ ~Ldap!IsMisread(n)
          BY <2>1, <2>4 DEF Ldap!IsPlain
        <4> QED BY <1>1, <2>2, <3>2, <3>3, <3>7, <4>1
      <3>9. Ldap!Readable(chunk) = IF Ldap!IsPlain(chunk) THEN {Ldap!Origin(Ldap!Given(chunk))}
                                   ELSE {chunk.user, ""} \X {w, ""}
        BY <2>4 DEF Ldap!Readable
      <3> QED BY <1>1, <2>2, <3>4, <3>6, <3>8, <3>9
    <2> QED BY <2>3, <2>4
  <1> QED BY <1>2, <1>3

\* One more login, as it is shown, and none.
LEMMA LdapShowing ==
    /\ LdapShown(<<>>) = <<>>
    /\ \A n : IsLog(n) => \A x : LdapShown(Append(n, x)) = Append(LdapShown(n), Ldap!Origin(x))
  <1>1. LdapShown(<<>>) = <<>>
    <2>1. DOMAIN <<>> = {}
      OBVIOUS
    <2> QED BY <2>1 DEF LdapShown
  <1>2. ASSUME NEW n, IsLog(n), NEW x
        PROVE  LdapShown(Append(n, x)) = Append(LdapShown(n), Ldap!Origin(x))
    <2> DEFINE m == Append(n, x)  k == Len(n)  o(y) == Ldap!Origin(y)
    <2>1. /\ k \in Nat /\ DOMAIN n = 1 .. k /\ DOMAIN m = 1 .. k + 1 /\ m[k + 1] = x
          /\ \A i \in 1 .. k : m[i] = n[i]
      BY <1>2, LogAppend
    <2> HIDE DEF m, k, o
    <2>2. LdapShown(m) = [i \in 1 .. k + 1 |-> o(m[i])] /\ LdapShown(n) = [i \in 1 .. k |-> o(n[i])]
      BY <2>1 DEF LdapShown, o
    <2>3. Append([i \in 1 .. k |-> o(n[i])], o(x)) = [i \in 1 .. k + 1 |-> o(m[i])]
      BY <2>1
    <2> QED BY <2>2, <2>3 DEF m, o
  <1> QED BY <1>1, <1>2

\* A first or a second chunk is a try, if it has credentials, and a third one is none.
LEMMA LdapOneMore ==
    ASSUME NEW r \in Seq(Chunks.ldap), NEW chunk \in Chunks.ldap, NEW t, t = Append(r, chunk)
    PROVE  /\ Len(r) <= 1 => LdapSeen(t) = IF Ldap!HasCredentials(chunk) THEN Append(LdapSeen(r), chunk)
                                           ELSE LdapSeen(r)
           /\ Len(r) = 2 => LdapSeen(t) = LdapSeen(r)
           /\ LdapOffers(r) \subseteq LdapOffers(t) /\ Ldap!Origin(LdapRead(chunk)) \in LdapOffers(t)
           /\ IsLog(LdapSeen(r)) /\ Len(t) = Len(r) + 1 /\ Len(r) \in Nat
  <1> DEFINE given(x) == ~Ldap!IsAnonymous(x)
             I == {i \in 1 .. Ldap!AtMost(Len(r), 2) : given(r[i])}
             J == {i \in 1 .. Ldap!AtMost(Len(t), 2) : given(t[i])}
  <1>1. /\ Len(r) \in Nat /\ Len(t) = Len(r) + 1 /\ t[Len(r) + 1] = chunk
        /\ DOMAIN r = 1 .. Len(r) /\ DOMAIN t = 1 .. Len(r) + 1
        /\ \A i \in 1 .. Len(r) : t[i] = r[i]
    BY SequenceIsLog, LogAppend
  <1>2. LdapSeen(r) = At(r, I) /\ LdapSeen(t) = At(t, J)
    BY DEF LdapSeen
  <1>3. At(r, I) \in Seq(Chunks.ldap)
    BY AtType
  <1>4. given(chunk) <=> Ldap!HasCredentials(chunk)
    BY LdapParsed
  <1> DEFINE n == Len(r)
  <1>5. n \in Nat /\ Len(t) = n + 1
    BY <1>1
  <1> HIDE DEF given
  <1>6. Len(r) <= 1 => (\A i \in 1 .. n : i \in I <=> i \in J) /\ (n + 1 \in J <=> given(chunk))
    BY <1>1 DEF Ldap!AtMost
  <1>7. Len(r) = 2 => (\A i \in 1 .. n : i \in I <=> i \in J) /\ n + 1 \notin J
    BY <1>1 DEF Ldap!AtMost
  <1> HIDE DEF I, J
  <1>8. (\A i \in 1 .. Len(r) : i \in I <=> i \in J)
         => At(t, J) = IF Len(r) + 1 \in J THEN Append(At(r, I), chunk) ELSE At(r, I)
    BY AtAppend
  <1>9. LdapOffers(r) \subseteq LdapOffers(t) /\ Ldap!Origin(LdapRead(chunk)) \in LdapOffers(t)
    <2>1. Ldap!Origin(LdapRead(chunk)) \in Ldap!Readable(chunk)
      BY LdapParsed
    <2>2. DOMAIN r \subseteq DOMAIN t /\ n + 1 \in DOMAIN t /\ t[n + 1] = chunk
          /\ \A i \in DOMAIN r : t[i] = r[i]
      BY <1>1
    <2> QED BY <2>1, <2>2 DEF LdapOffers
  <1>10. Len(r) <= 1 => LdapSeen(t) = IF given(chunk) THEN Append(LdapSeen(r), chunk) ELSE LdapSeen(r)
    BY <1>2, <1>6, <1>8
  <1>11. Len(r) = 2 => LdapSeen(t) = LdapSeen(r)
    BY <1>2, <1>7, <1>8
  <1> QED BY <1>1, <1>2, <1>3, <1>4, <1>9, <1>10, <1>11, SequenceIsLog

\* What is read, and what it makes of the connection.
LEMMA LdapReads ==
    ASSUME NEW r, NEW e, NEW s, LdapOK("open", r, e, s), NEW chunk \in Chunks.ldap,
           NEW t, t = Append(r, chunk), NEW f, NEW l, NEW z,
           \/ /\ s \in {1, 2} /\ l = "open" /\ z = s + 1
              /\ \/ ~Ldap!HasCredentials(chunk) /\ f = e
                 \/ /\ Ldap!HasCredentials(chunk)
                    /\ \E x : f = Append(e, x) /\ IsLogin(x, Ldap!Username(chunk), Ldap!Password(chunk))
           \/ s = 3 /\ l = "closing" /\ z = s /\ f = e
    PROVE  /\ LdapOK(l, t, f, z)
           /\ Moves("open", l, LdapOffers(r), LdapOffers(t), LdapShown(Names(e)), LdapShown(Names(f)))
  <1>1. /\ Open(Chunks.ldap, r, e) /\ Known("open", e) /\ r \in Seq(Chunks.ldap) /\ IsLog(Names(e))
        /\ s \in 1 .. 3 /\ Len(r) = s - 1 /\ LdapNames(Names(e), LdapSeen(r))
    BY EntryType DEF LdapOK, Open, Base
  <1>2. /\ Len(r) <= 1 => LdapSeen(t) = IF Ldap!HasCredentials(chunk) THEN Append(LdapSeen(r), chunk)
                                        ELSE LdapSeen(r)
        /\ Len(r) = 2 => LdapSeen(t) = LdapSeen(r)
        /\ LdapOffers(r) \subseteq LdapOffers(t) /\ Ldap!Origin(LdapRead(chunk)) \in LdapOffers(t)
        /\ IsLog(LdapSeen(r)) /\ Len(t) = Len(r) + 1
    BY <1>1, LdapOneMore
  <1>3. l \in {"open", "closing"} /\ z \in 1 .. 3 /\ (l = "open" => Len(t) = z - 1)
    BY <1>1, <1>2
  <1>4. CASE f = e /\ LdapSeen(t) = LdapSeen(r)
    <2>1. Base(Chunks.ldap, l, t, f) /\ Known(l, f)
      BY <1>1, <1>3, <1>4, ReadingNothing
    <2> QED BY <1>1, <1>2, <1>3, <1>4, <2>1 DEF LdapOK, Moves, PhaseOf
  <1>5. CASE /\ LdapSeen(t) = Append(LdapSeen(r), chunk)
             /\ \E x : f = Append(e, x) /\ IsLogin(x, Ldap!Username(chunk), Ldap!Password(chunk))
    <2> DEFINE u == Ldap!Username(chunk)  p == Ldap!Password(chunk)  g == LdapRead(chunk)
               tries == LdapSeen(r)  more == LdapSeen(t)
    <2>1. PICK x : f = Append(e, x) /\ IsLogin(x, u, p)
      BY <1>5
    <2>2. <<u, p>> = g
      BY DEF LdapRead
    <2> HIDE DEF u, p
    <2>3. LoggedIn(Chunks.ldap, l, t, e, f, u, p)
      BY <1>1, <1>3, <2>1, ReadingLogin
    <2>4. Names(f) = Append(Names(e), g) /\ Base(Chunks.ldap, l, t, f) /\ Known(l, f)
      BY <2>2, <2>3 DEF LoggedIn
    <2>5. LdapNames(Names(f), more)
      <3>1. IsLog(tries) /\ more = Append(tries, chunk) /\ LdapNames(Names(e), tries)
        BY <1>1, <1>2, <1>5
      <3> HIDE DEF tries, more, g
      <3>2. /\ Len(more) = Len(tries) + 1 /\ Len(tries) \in Nat /\ more[Len(tries) + 1] = chunk
            /\ \A i \in 1 .. Len(tries) : more[i] = tries[i]
        BY <3>1, LogAppend
      <3>3. /\ Len(Names(f)) = Len(Names(e)) + 1 /\ Names(f)[Len(Names(e)) + 1] = g
            /\ \A i \in 1 .. Len(Names(e)) : Names(f)[i] = Names(e)[i]
        BY <1>1, <2>4, LogAppend
      <3> QED BY <3>1, <3>2, <3>3 DEF LdapNames, g
    <2>6. LdapShown(Names(f)) = Append(LdapShown(Names(e)), Ldap!Origin(g))
      BY <1>1, <2>4, LdapShowing
    <2> QED BY <1>2, <1>3, <2>4, <2>5, <2>6 DEF LdapOK, Moves, PhaseOf
  <1>6. CASE s \in {1, 2}
    <2>1. Len(r) <= 1
      BY <1>1, <1>6
    <2>2. CASE Ldap!HasCredentials(chunk)
      BY <1>2, <1>5, <1>6, <2>1, <2>2
    <2>3. CASE ~Ldap!HasCredentials(chunk)
      BY <1>2, <1>4, <1>6, <2>1, <2>3
    <2> QED BY <2>2, <2>3
  <1>7. CASE s = 3
    BY <1>1, <1>2, <1>4, <1>7
  <1> QED BY <1>1, <1>6, <1>7

\* Every step of the honeypot keeps its invariant, and is one LoginCapture allows.
LEMMA LdapStep ==
    ASSUME LdapInv, Ldap!Next, UNCHANGED <<server, user, buffer, answers, replies>>
    PROVE  LdapInv' /\ \E c \in Conns : LdapMoves(c)
  <1>0. Rows
    BY DEF LdapInv
  <1>1. ASSUME NEW c \in Conns, Ldap!ConnectionMade(c) PROVE LdapInv' /\ LdapMoves(c)
    <2>1. /\ link[c] = "none" /\ link'[c] = "open" /\ read'[c] = read[c] /\ events'[c] = Connected
          /\ state'[c] = 1 /\ Frame(c)
      BY <1>0, <1>1 DEF Ldap!ConnectionMade, Ldap!Accept, Connected, Rows, IsRow, Frame
    <2>2. LdapOK("none", read[c], events[c], state[c])
      BY <2>1 DEF LdapInv
    <2>3. read[c] = <<>> /\ events[c] = <<>>
      BY <2>2 DEF LdapOK, Base
    <2>4. LdapOK("open", <<>>, Connected, 1)
      BY LdapComes
    <2>5. LdapInv'
      BY <2>1, <2>3, <2>4, LdapFrame
    <2> QED BY <2>1, <2>3, <2>5, Coming, NoEntries DEF LdapMoves, Moves, PhaseOf
  <1>2. ASSUME NEW c \in Conns, Ldap!Lost(c) PROVE LdapInv' /\ LdapMoves(c)
    <2>1. /\ link[c] \in {"open", "closing"} /\ link'[c] = "lost" /\ read'[c] = read[c]
          /\ events'[c] = events[c] /\ state'[c] = 0 /\ Frame(c)
      BY <1>0, <1>2 DEF Ldap!Lost, Ldap!ConnectionLost, Rows, IsRow, Frame
    <2>2. LdapOK(link[c], read[c], events[c], state[c])
      BY DEF LdapInv
    <2>3. LdapOK("lost", read[c], events[c], 0)
      BY <2>1, <2>2, LdapGoes
    <2>4. LdapInv'
      BY <2>1, <2>3, LdapFrame
    <2> QED BY <2>1, <2>4 DEF LdapMoves, Moves, PhaseOf
  <1>3. ASSUME NEW c \in Conns, NEW chunk \in Chunks.ldap,
               Ldap!Bind(c, chunk) \/ Ldap!ThirdChunk(c, chunk)
        PROVE  LdapInv' /\ LdapMoves(c)
    <2>1. /\ link[c] = "open" /\ read'[c] = Append(read[c], chunk) /\ Frame(c)
          /\ \/ /\ state[c] \in {1, 2} /\ link'[c] = "open" /\ state'[c] = state[c] + 1
                /\ \/ ~Ldap!HasCredentials(chunk) /\ events'[c] = events[c]
                   \/ /\ Ldap!HasCredentials(chunk)
                      /\ \E x : /\ events'[c] = Append(events[c], x)
                                /\ IsLogin(x, Ldap!Username(chunk), Ldap!Password(chunk))
             \/ state[c] = 3 /\ link'[c] = "closing" /\ state'[c] = state[c] /\ events'[c] = events[c]
      <3>1. CASE Ldap!ThirdChunk(c, chunk)
        BY <1>0, <3>1 DEF Ldap!ThirdChunk, Ldap!Received, Ldap!LoseConnection, Rows, IsRow, Frame
      <3>2. CASE Ldap!Bind(c, chunk)
        <4> DEFINE u == Ldap!Username(chunk)  p == Ldap!Password(chunk)
                   x == Entry(u, p, Ldap!LoginIsCorrect(u, p))
        <4>1. Ldap!LoginSeen(c, chunk) =>
                \/ ~Ldap!HasCredentials(chunk) /\ events' = events
                \/ Ldap!HasCredentials(chunk) /\ events' = [events EXCEPT ![c] = Append(@, x)]
          BY Zenon DEF Ldap!LoginSeen, Ldap!CheckLogin, Ldap!Log, Ldap!LoginEvent, Entry
        <4>2. IsLogin(x, u, p)
          BY EntryIsLogin
        <4> HIDE DEF u, p, x
        <4>3. /\ link[c] = "open" /\ read'[c] = Append(read[c], chunk) /\ Frame(c)
              /\ state[c] \in {1, 2} /\ link'[c] = "open" /\ state'[c] = state[c] + 1
              /\ \/ ~Ldap!HasCredentials(chunk) /\ events'[c] = events[c]
                 \/ Ldap!HasCredentials(chunk) /\ events'[c] = Append(events[c], x)
          BY <1>0, <3>2, <4>1 DEF Ldap!Bind, Ldap!Received, Rows, IsRow, Frame
        <4> QED BY <4>2, <4>3 DEF u, p
      <3> QED BY <1>3, <3>1, <3>2
    <2>2. LdapOK("open", read[c], events[c], state[c])
      BY <2>1 DEF LdapInv
    <2>3. /\ LdapOK(link'[c], read'[c], events'[c], state'[c])
          /\ Moves("open", link'[c], LdapOffers(read[c]), LdapOffers(read'[c]),
                   LdapShown(Names(events[c])), LdapShown(Names(events'[c])))
      BY <2>1, <2>2, LdapReads
    <2>4. LdapInv'
      BY <2>1, <2>3, LdapFrame
    <2> QED BY <2>1, <2>3, <2>4 DEF LdapMoves
  <1> QED BY <1>1, <1>2, <1>3 DEF Ldap!Next

\* The invariant holds at the start.
LEMMA LdapBegins ==
    ASSUME Ldap!Init, user = Nothing, buffer = Nothing, answers = Nothing, replies = Nothing
    PROVE  LdapInv
  <1>1. /\ link = [c \in Conns |-> "none"] /\ read = [c \in Conns |-> <<>>]
        /\ events = [c \in Conns |-> <<>>] /\ state = [c \in Conns |-> 0]
    BY DEF Ldap!Init, Ldap!ConnectionsInit
  <1>2. Rows
    BY <1>1 DEF Rows, IsRow, Nothing
  <1>3. LdapOK("none", <<>>, <<>>, 0)
    BY LdapComes
  <1> QED BY <1>1, <1>2, <1>3 DEF LdapInv

\* The invariant implies the properties of the honeypot, and what is offered is what was said.
LEMMA LdapSafe ==
    ASSUME LdapInv
    PROVE  /\ Ldap!TypeOK /\ Ldap!TwoTries
           /\ \A c \in Conns : /\ Ldap!Offered(c) = LdapOffers(read[c])
                               /\ Ldap!Shown(c) = LdapShown(Names(events[c]))
  <1>1. ASSUME NEW c \in Conns
        PROVE  /\ link[c] \in Links /\ read[c] \in Seq(Chunks.ldap)
               /\ link[c] = "none" <=> events[c] = <<>>
               /\ state[c] \in 0 .. 3
               /\ link[c] = "open" => Len(read[c]) = state[c] - 1
               /\ LdapNames(Names(events[c]), LdapSeen(read[c]))
    <2>1. LdapOK(link[c], read[c], events[c], state[c])
      BY DEF LdapInv
    <2> QED BY <2>1, Basics DEF LdapOK
  <1>2. Ldap!TypeOK
    <2>1. \A c \in Conns : link[c] = "open" /\ state[c] < 3 => state[c] = Len(read[c]) + 1
      BY <1>1
    <2> QED BY <1>1, <2>1 DEF LdapInv, Rows, IsRow, Ldap!TypeOK, Ldap!ConnectionsTypeOK, Links
  <1>3. \A c \in Conns : Ldap!Captured(c) = Names(events[c])
    BY IsNames DEF Ldap!Captured, Telnet!Captured, Ldap!Logins, Telnet!Logins, Ldap!Matching, Telnet!Matching,
             Ldap!Positions, Telnet!Positions, Ldap!At, Telnet!At
  <1>4. ASSUME NEW c \in Conns
        PROVE  LET seen == LdapSeen(read[c])
               IN  /\ Len(Ldap!Captured(c)) = Len(seen)
                   /\ \A i \in DOMAIN seen : Ldap!IsPlain(seen[i]) => Ldap!Captured(c)[i] = Ldap!Given(seen[i])
                   /\ Len(read[c]) > 2 => link[c] # "open"
    <2> DEFINE seen == LdapSeen(read[c])
    <2>1. seen \in Seq(Chunks.ldap)
      BY <1>1, AtType DEF LdapSeen
    <2> HIDE DEF seen
    <2>2. DOMAIN seen = 1 .. Len(seen)
      BY <2>1
    <2>3. LdapNames(Names(events[c]), seen)
      BY <1>1 DEF seen
    <2>4. Len(read[c]) > 2 => link[c] # "open"
      BY <1>1
    <2>5. \A i \in DOMAIN seen : seen[i] \in Chunks.ldap
      BY <2>1
    <2>6. \A i \in DOMAIN seen : Ldap!IsPlain(seen[i]) => LdapRead(seen[i]) = Ldap!Given(seen[i])
      BY <2>5, LdapParsed
    <2> QED BY <1>3, <2>2, <2>3, <2>4, <2>6 DEF LdapNames, seen
  <1>5. \A r : LdapSeen(r) = Ldap!At(r, {i \in 1 .. Ldap!AtMost(Len(r), 2) : ~Ldap!IsAnonymous(r[i])})
    BY DEF LdapSeen, At, Ldap!At
  <1>6. Ldap!TwoTries
    BY <1>4, <1>5 DEF Ldap!TwoTries
  <1>7. \A c \in Conns : Ldap!Offered(c) = LdapOffers(read[c])
    BY DEF Ldap!Offered, LdapOffers
  <1>8. \A c \in Conns : Ldap!Shown(c) = LdapShown(Names(events[c]))
    BY <1>3 DEF Ldap!Shown, LdapShown
  <1> QED BY <1>2, <1>6, <1>7, <1>8

-------------------------------------------------------------------------------
(* mssql (mssql_server.py:74-108): what is lost of a password, character by character, and as
   many refusals as logins *)

\* The value of one bit is turned round.
LEMMA MssqlFlip ==
    ASSUME NEW y, NEW w, NEW z, NEW bit \in {0, 1}, (y \div w) % 2 = bit,
           bit = 1 => y - w = z, bit = 0 => y + w = z
    PROVE  Mssql!Flip(y, w) = z
  BY DEF Mssql!Flip

\* The first bit of a number.
LEMMA MssqlHalf ==
    ASSUME NEW w \in Nat, NEW c \in Nat, c < w + w
    PROVE  \E bit \in {0, 1}, d \in Nat : d < w /\ c = w * bit + d
  <1>1. CASE c < w
    BY <1>1
  <1>2. CASE c >= w
    <2>1. 1 \in {0, 1} /\ c - w \in Nat /\ c - w < w /\ c = w * 1 + (c - w)
      BY <1>2
    <2> QED BY <2>1
  <1> QED BY <1>1, <1>2

\* A byte by its bits.
MssqlByte(b7, b6, b5, b4, b3, b2, b1, b0) ==
    128 * b7 + 64 * b6 + 32 * b5 + 16 * b4 + 8 * b3 + 4 * b2 + 2 * b1 + b0

\* A character of ASCII in bits.
LEMMA MssqlBits ==
    ASSUME NEW b \in Nat, b < 128
    PROVE  \E b6, b5, b4, b3, b2, b1, b0 \in {0, 1} : b = MssqlByte(0, b6, b5, b4, b3, b2, b1, b0)
  <1>1. PICK b6 \in {0, 1}, c6 \in Nat : c6 < 64 /\ b = 64 * b6 + c6
    <2>1. 64 \in Nat /\ b \in Nat /\ b < 64 + 64
      OBVIOUS
    <2> QED BY <2>1, MssqlHalf
  <1>2. PICK b5 \in {0, 1}, c5 \in Nat : c5 < 32 /\ c6 = 32 * b5 + c5
    <2>1. 32 \in Nat /\ c6 \in Nat /\ c6 < 32 + 32
      BY <1>1
    <2> QED BY <2>1, MssqlHalf
  <1>3. PICK b4 \in {0, 1}, c4 \in Nat : c4 < 16 /\ c5 = 16 * b4 + c4
    <2>1. 16 \in Nat /\ c5 \in Nat /\ c5 < 16 + 16
      BY <1>2
    <2> QED BY <2>1, MssqlHalf
  <1>4. PICK b3 \in {0, 1}, c3 \in Nat : c3 < 8 /\ c4 = 8 * b3 + c3
    <2>1. 8 \in Nat /\ c4 \in Nat /\ c4 < 8 + 8
      BY <1>3
    <2> QED BY <2>1, MssqlHalf
  <1>5. PICK b2 \in {0, 1}, c2 \in Nat : c2 < 4 /\ c3 = 4 * b2 + c2
    <2>1. 4 \in Nat /\ c3 \in Nat /\ c3 < 4 + 4
      BY <1>4
    <2> QED BY <2>1, MssqlHalf
  <1>6. PICK b1 \in {0, 1}, c1 \in Nat : c1 < 2 /\ c2 = 2 * b1 + c1
    <2>1. 2 \in Nat /\ c2 \in Nat /\ c2 < 2 + 2
      BY <1>5
    <2> QED BY <2>1, MssqlHalf
  <1>7. c1 \in {0, 1}
    BY <1>6
  <1>8. b = MssqlByte(0, b6, b5, b4, b3, b2, b1, c1)
    BY <1>1, <1>2, <1>3, <1>4, <1>5, <1>6, <1>7 DEF MssqlByte
  <1> QED BY <1>7, <1>8

\* The exclusive or with 0xA5.
LEMMA MssqlXor ==
    ASSUME NEW b7 \in {0, 1}, NEW b6 \in {0, 1}, NEW b5 \in {0, 1}, NEW b4 \in {0, 1},
           NEW b3 \in {0, 1}, NEW b2 \in {0, 1}, NEW b1 \in {0, 1}, NEW b0 \in {0, 1}
    PROVE  Mssql!XorA5(MssqlByte(b7, b6, b5, b4, b3, b2, b1, b0)) =
             MssqlByte(1 - b7, b6, 1 - b5, b4, b3, 1 - b2, b1, 1 - b0)
  <1> DEFINE y0 == MssqlByte(b7, b6, b5, b4, b3, b2, b1, b0)
             y1 == MssqlByte(1 - b7, b6, b5, b4, b3, b2, b1, b0)
             y2 == MssqlByte(1 - b7, b6, 1 - b5, b4, b3, b2, b1, b0)
             y3 == MssqlByte(1 - b7, b6, 1 - b5, b4, b3, 1 - b2, b1, b0)
             y4 == MssqlByte(1 - b7, b6, 1 - b5, b4, b3, 1 - b2, b1, 1 - b0)
  <1>1. Mssql!Flip(y0, 128) = y1
    <2> DEFINE lo == 64 * b6 + 32 * b5 + 16 * b4 + 8 * b3 + 4 * b2 + 2 * b1 + b0
    <2>1. lo \in Nat /\ lo < 128
      OBVIOUS
    <2>2. y0 = b7 * 128 + lo /\ y1 = (1 - b7) * 128 + lo
      BY DEF MssqlByte
    <2> HIDE DEF lo, y0, y1
    <2>3. y0 \div 128 = b7
      BY <2>1, <2>2
    <2>4. (y0 \div 128) % 2 = b7
      BY <2>1, <2>3
    <2>5. (b7 = 1 => y0 - 128 = y1) /\ (b7 = 0 => y0 + 128 = y1)
      BY <2>1, <2>2
    <2> QED BY <2>4, <2>5, MssqlFlip
  <1>2. Mssql!Flip(y1, 32) = y2
    <2> DEFINE lo == 16 * b4 + 8 * b3 + 4 * b2 + 2 * b1 + b0  hi == 2 * (1 - b7) + b6
    <2>1. lo \in Nat /\ lo < 32 /\ hi \in Nat
      OBVIOUS
    <2>2. y1 = hi * 64 + b5 * 32 + lo /\ y2 = hi * 64 + (1 - b5) * 32 + lo
      BY DEF MssqlByte
    <2> HIDE DEF lo, hi, y1, y2
    <2>3. y1 \div 32 = 2 * hi + b5
      BY <2>1, <2>2
    <2>4. (y1 \div 32) % 2 = b5
      BY <2>1, <2>3
    <2>5. (b5 = 1 => y1 - 32 = y2) /\ (b5 = 0 => y1 + 32 = y2)
      BY <2>1, <2>2
    <2> QED BY <2>4, <2>5, MssqlFlip
  <1>3. Mssql!Flip(y2, 4) = y3
    <2> DEFINE lo == 2 * b1 + b0
               hi == 16 * (1 - b7) + 8 * b6 + 4 * (1 - b5) + 2 * b4 + b3
    <2>1. lo \in Nat /\ lo < 4 /\ hi \in Nat
      OBVIOUS
    <2>2. y2 = hi * 8 + b2 * 4 + lo /\ y3 = hi * 8 + (1 - b2) * 4 + lo
      BY DEF MssqlByte
    <2> HIDE DEF lo, hi, y2, y3
    <2>3. y2 \div 4 = 2 * hi + b2
      BY <2>1, <2>2
    <2>4. (y2 \div 4) % 2 = b2
      BY <2>1, <2>3
    <2>5. (b2 = 1 => y2 - 4 = y3) /\ (b2 = 0 => y2 + 4 = y3)
      BY <2>1, <2>2
    <2> QED BY <2>4, <2>5, MssqlFlip
  <1>4. Mssql!Flip(y3, 1) = y4
    <2> DEFINE hi == 64 * (1 - b7) + 32 * b6 + 16 * (1 - b5) + 8 * b4 + 4 * b3 + 2 * (1 - b2) + b1
    <2>1. hi \in Nat
      OBVIOUS
    <2>2. y3 = hi * 2 + b0 /\ y4 = hi * 2 + (1 - b0)
      BY DEF MssqlByte
    <2> HIDE DEF hi, y3, y4
    <2>3. y3 \div 1 = 2 * hi + b0
      BY <2>1, <2>2
    <2>4. (y3 \div 1) % 2 = b0
      BY <2>1, <2>3
    <2>5. (b0 = 1 => y3 - 1 = y4) /\ (b0 = 0 => y3 + 1 = y4)
      BY <2>1, <2>2
    <2> QED BY <2>4, <2>5, MssqlFlip
  <1> HIDE DEF y0, y1, y2, y3, y4
  <1>5. Mssql!XorA5(y0) = y4
    BY <1>1, <1>2, <1>3, <1>4, Zenon DEF Mssql!XorA5
  <1> QED BY <1>5 DEF y0, y4

\* The halves of a byte are swapped.
LEMMA MssqlSwap ==
    ASSUME NEW b7 \in {0, 1}, NEW b6 \in {0, 1}, NEW b5 \in {0, 1}, NEW b4 \in {0, 1},
           NEW b3 \in {0, 1}, NEW b2 \in {0, 1}, NEW b1 \in {0, 1}, NEW b0 \in {0, 1}
    PROVE  Mssql!Swap(MssqlByte(b7, b6, b5, b4, b3, b2, b1, b0)) = MssqlByte(b3, b2, b1, b0, b7, b6, b5, b4)
  <1> DEFINE lo == 8 * b3 + 4 * b2 + 2 * b1 + b0
             hi == 8 * b7 + 4 * b6 + 2 * b5 + b4
  <1>1. lo \in Nat /\ lo < 16 /\ hi \in Nat /\ hi < 16
    OBVIOUS
  <1>2. /\ MssqlByte(b7, b6, b5, b4, b3, b2, b1, b0) = 16 * hi + lo
        /\ MssqlByte(b3, b2, b1, b0, b7, b6, b5, b4) = lo * 16 + hi
    BY DEF MssqlByte
  <1> HIDE DEF lo, hi
  <1>3. (16 * hi + lo) % 16 = lo /\ (16 * hi + lo) \div 16 = hi
    BY <1>1
  <1> QED BY <1>2, <1>3 DEF Mssql!Swap

\* The letter Z is a zero byte, no letter is a filler, and the others come back.
LEMMA MssqlLetter ==
    ASSUME NEW b \in Nat, 0 < b, b < 128
    PROVE  LET x == Mssql!XorA5(Mssql!Swap(b))
           IN  /\ x \in Nat /\ (x = 0 <=> b = 90) /\ x # 165
               /\ Mssql!Swap(Mssql!XorA5(x)) = b
  <1>1. PICK b6, b5, b4, b3, b2, b1, b0 \in {0, 1} : b = MssqlByte(0, b6, b5, b4, b3, b2, b1, b0)
    BY MssqlBits
  <1>2. 0 \in {0, 1} /\ \A i \in {0, 1} : 1 - i \in {0, 1} /\ 1 - (1 - i) = i
    OBVIOUS
  <1>3. Mssql!Swap(b) = MssqlByte(b3, b2, b1, b0, 0, b6, b5, b4)
    BY <1>1, <1>2, MssqlSwap
  <1> DEFINE x == MssqlByte(1 - b3, b2, 1 - b1, b0, 0, 1 - b6, b5, 1 - b4)
  <1>4. Mssql!XorA5(Mssql!Swap(b)) = x
    BY <1>2, <1>3, MssqlXor
  <1>5. x \in Nat /\ (x = 0 <=> b = 90) /\ x # 165
    BY <1>1 DEF MssqlByte
  <1> DEFINE d3 == 1 - b3  d1 == 1 - b1  d6 == 1 - b6  d4 == 1 - b4
  <1>6. d3 \in {0, 1} /\ d1 \in {0, 1} /\ d6 \in {0, 1} /\ d4 \in {0, 1}
    OBVIOUS
  <1>7. 1 - d3 = b3 /\ 1 - d1 = b1 /\ 1 - d6 = b6 /\ 1 - d4 = b4
    OBVIOUS
  <1>8. x = MssqlByte(d3, b2, d1, b0, 0, d6, b5, d4)
    OBVIOUS
  <1> HIDE DEF d3, d1, d6, d4, x
  <1>9. Mssql!XorA5(MssqlByte(d3, b2, d1, b0, 0, d6, b5, d4)) =
          MssqlByte(1 - d3, b2, 1 - d1, b0, 0, 1 - d6, b5, 1 - d4)
    BY <1>2, <1>6, MssqlXor
  <1>10. Mssql!XorA5(x) = MssqlByte(b3, b2, b1, b0, 0, b6, b5, b4)
    BY <1>7, <1>8, <1>9, Zenon
  <1>11. Mssql!Swap(MssqlByte(b3, b2, b1, b0, 0, b6, b5, b4)) = MssqlByte(0, b6, b5, b4, b3, b2, b1, b0)
    BY <1>2, MssqlSwap
  <1> QED BY <1>1, <1>4, <1>5, <1>10, <1>11, Zenon

\* The zero byte of a character is sent as 0xA5.
LEMMA MssqlFiller == Mssql!XorA5(Mssql!Swap(0)) = 165
  <1>1. 0 \in {0, 1} /\ 1 - 0 = 1
    OBVIOUS
  <1>2. Mssql!Swap(MssqlByte(0, 0, 0, 0, 0, 0, 0, 0)) = MssqlByte(0, 0, 0, 0, 0, 0, 0, 0)
    BY <1>1, MssqlSwap
  <1>3. Mssql!XorA5(MssqlByte(0, 0, 0, 0, 0, 0, 0, 0)) = MssqlByte(1 - 0, 0, 1 - 0, 0, 0, 1 - 0, 0, 1 - 0)
    BY <1>1, MssqlXor
  <1>4. MssqlByte(0, 0, 0, 0, 0, 0, 0, 0) = 0 /\ MssqlByte(1 - 0, 0, 1 - 0, 0, 0, 1 - 0, 0, 1 - 0) = 165
    BY DEF MssqlByte
  <1> QED BY <1>2, <1>3, <1>4

\* What arrives is what was sent without the Zs.
LEMMA MssqlPassword ==
    ASSUME NEW q \in Seq(Letters)
    PROVE  Mssql!Decrypted(Mssql!Obfuscated(q)) = Dropping(q, {90})
  <1> DEFINE D == {0, 165}
             Z == {90}
             code(s) == [i \in DOMAIN s |-> <<Mssql!XorA5(Mssql!Swap(s[i])), Mssql!XorA5(Mssql!Swap(0))>>]
             kept(s) == Dropping(Joined(code(s)), D)
             plain(s) == [i \in DOMAIN s |-> Mssql!Swap(Mssql!XorA5(s[i]))]
             P == {s \in Seq(Letters) : /\ code(s) \in Seq(Seq(Nat)) /\ kept(s) \in Seq(Nat)
                                         /\ plain(kept(s)) = Dropping(s, Z)}
  <1>1. \A bytes : Mssql!Joined(bytes) = Joined(bytes)
    BY DEF Mssql!Joined, Joined
  <1>2. \A s, X : Mssql!Dropping(s, X) = Dropping(s, X)
    BY DEF Mssql!Dropping, Dropping, Mssql!At, At
  <1>3. Mssql!Decrypted(Mssql!Obfuscated(q)) = plain(kept(q))
    <2>1. Mssql!Obfuscated(q) = Joined(code(q))
      BY <1>1 DEF Mssql!Obfuscated
    <2> DEFINE bytes == Joined(code(q))
    <2> HIDE DEF code
    <2>2. Mssql!Decrypted(bytes) = plain(kept(q))
      <3>1. Mssql!Decrypted(bytes) = [i \in DOMAIN Mssql!Dropping(bytes, D) |->
                                        Mssql!Swap(Mssql!XorA5(Mssql!Dropping(bytes, D)[i]))]
        BY DEF Mssql!Decrypted
      <3>2. Mssql!Dropping(bytes, D) = kept(q)
        BY <1>2
      <3> QED BY <3>1, <3>2
    <2> QED BY <2>1, <2>2
  <1> HIDE DEF D, Z
  <1>4. <<>> \in P
    <2>1. <<>> \in Seq(Letters) /\ <<>> \in Seq(Seq(Nat)) /\ <<>> \in Seq(Nat) /\ DOMAIN <<>> = {}
      OBVIOUS
    <2>2. code(<<>>) = <<>> /\ plain(<<>>) = <<>>
      <3>1. \A f : f = [i \in {} |-> f[i]] => f = <<>>
        OBVIOUS
      <3> QED BY <2>1
    <2>3. kept(<<>>) = <<>>
      <3> HIDE DEF code
      <3> QED BY <2>2, JoinedEmpty, DroppingEmpty
    <2>4. code(<<>>) \in Seq(Seq(Nat)) /\ kept(<<>>) \in Seq(Nat)
      BY <2>1, <2>2, <2>3
    <2> HIDE DEF code, kept, plain
    <2> QED BY <2>1, <2>2, <2>3, <2>4, DroppingEmpty
  <1>5. ASSUME NEW s \in Seq(Letters), NEW e \in Letters, s \in P PROVE Append(s, e) \in P
    <2> DEFINE t == Append(s, e)
               x == Mssql!XorA5(Mssql!Swap(e))
               pair == <<x, Mssql!XorA5(Mssql!Swap(0))>>
               n == Len(s)
    <2>1. code(s) \in Seq(Seq(Nat)) /\ kept(s) \in Seq(Nat) /\ plain(kept(s)) = Dropping(s, Z)
      BY <1>5
    <2>2. /\ n \in Nat /\ DOMAIN s = 1 .. n /\ DOMAIN t = 1 .. n + 1 /\ t[n + 1] = e
          /\ \A i \in 1 .. n : t[i] = s[i]
      BY SequenceIsLog, LogAppend
    <2>3. t \in Seq(Letters) /\ Dropping(t, Z) = IF e \in Z THEN Dropping(s, Z) ELSE Append(Dropping(s, Z), e)
      BY AppendProperties, DroppingAppend
    <2>4. e \in Nat /\ 0 < e /\ e < 128
      BY <1>5 DEF Letters
    <2> HIDE DEF t
    <2>5. x \in Nat /\ (x = 0 <=> e = 90) /\ x # 165 /\ Mssql!Swap(Mssql!XorA5(x)) = e
      BY <2>4, MssqlLetter
    <2>6. pair = <<x, 165>>
      BY MssqlFiller
    <2> HIDE DEF x
    <2>7. code(t) = Append(code(s), pair)
      <3> DEFINE f == code(t)
                 g == code(s)
      <3>1. f = [i \in 1 .. n + 1 |-> f[i]] /\ g = [i \in 1 .. n |-> f[i]] /\ f[n + 1] = pair
        BY <2>2 DEF x
      <3> HIDE DEF f, g, pair, n
      <3>2. f = Append(g, f[n + 1])
        BY <2>2, <3>1, OneMore
      <3> QED BY <3>1, <3>2 DEF f, g
    <2> HIDE DEF code, plain, pair
    <2>8. pair \in Seq(Nat) /\ pair = Append(<<x>>, 165) /\ <<x>> \in Seq(Nat) /\ 165 \in Nat
          /\ <<x>> = Append(<<>>, x) /\ <<>> \in Seq(Nat)
      BY <2>5, <2>6
    <2>9. Dropping(pair, D) = IF e = 90 THEN <<>> ELSE <<x>>
      <3>0. ASSUME NEW y \in Seq(Nat), NEW z \in Nat
            PROVE  Dropping(Append(y, z), D) = IF z \in D THEN Dropping(y, D) ELSE Append(Dropping(y, D), z)
        BY DroppingAppend
      <3>1. Dropping(Append(<<x>>, 165), D) = Dropping(<<x>>, D)
        <4>1. 165 \in D
          BY DEF D
        <4> DEFINE y == <<x>>
        <4>2. y \in Seq(Nat)
          BY <2>8
        <4> HIDE DEF y
        <4>3. Dropping(Append(y, 165), D) = Dropping(y, D)
          BY <2>8, <3>0, <4>1, <4>2
        <4> QED BY <4>3 DEF y
      <3>2. Dropping(Append(<<>>, x), D) = IF x \in D THEN Dropping(<<>>, D)
                                                  ELSE Append(Dropping(<<>>, D), x)
        <4> DEFINE y == <<>>
        <4>1. y \in Seq(Nat)
          BY <2>8
        <4> HIDE DEF y
        <4>2. Dropping(Append(y, x), D) = IF x \in D THEN Dropping(y, D) ELSE Append(Dropping(y, D), x)
          BY <2>5, <3>0, <4>1
        <4> QED BY <4>2 DEF y
      <3>3. x \in D <=> e = 90
        BY <2>5 DEF D
      <3> QED BY <2>8, <3>1, <3>2, <3>3, DroppingEmpty
    <2>10. code(t) \in Seq(Seq(Nat)) /\ Joined(code(t)) = Joined(code(s)) \o pair
      <3>1. ASSUME NEW ss \in Seq(Seq(Nat)), NEW y \in Seq(Nat)
            PROVE  Append(ss, y) \in Seq(Seq(Nat)) /\ Joined(Append(ss, y)) = Joined(ss) \o y
        BY AppendProperties, JoinedAppend
      <3>2. /\ Append(code(s), pair) \in Seq(Seq(Nat))
            /\ Joined(Append(code(s), pair)) = Joined(code(s)) \o pair
        BY <2>1, <2>8, <3>1
      <3> QED BY <2>7, <3>2
    <2>11. kept(t) = kept(s) \o Dropping(pair, D)
      <3> DEFINE u == Joined(code(s))
      <3>1. u \in Seq(Nat)
        BY <2>1, JoinedType
      <3> HIDE DEF u
      <3>2. Dropping(u \o pair, D) = Dropping(u, D) \o Dropping(pair, D)
        <4>1. ASSUME NEW y \in Seq(Nat), NEW z \in Seq(Nat)
              PROVE  Dropping(y \o z, D) = Dropping(y, D) \o Dropping(z, D)
          BY DroppingConcat
        <4> QED BY <2>8, <3>1, <4>1
      <3> QED BY <2>10, <3>2 DEF u
    <2> HIDE DEF kept
    <2>12. CASE e = 90
      <3>1. kept(s) \o <<>> = kept(s)
        BY <2>1
      <3>2. kept(t) = kept(s)
        BY <2>9, <2>11, <2>12, <3>1
      <3> QED BY <2>1, <2>3, <2>10, <2>12, <3>2 DEF t, Z
    <2>13. CASE e # 90
      <3>1. kept(s) \o <<x>> = Append(kept(s), x)
        BY <2>1, <2>5
      <3>2. kept(t) = Append(kept(s), x)
        BY <2>9, <2>11, <2>13, <3>1
      <3>3. kept(t) \in Seq(Nat)
        BY <2>1, <2>5, <3>2, AppendProperties
      <3>4. plain(kept(t)) = Append(plain(kept(s)), e)
        <4> DEFINE m == Len(kept(s))
                   f == plain(kept(t))
                   g == plain(kept(s))
        <4>1. /\ m \in Nat /\ DOMAIN kept(s) = 1 .. m /\ DOMAIN kept(t) = 1 .. m + 1
              /\ kept(t)[m + 1] = x /\ \A i \in 1 .. m : kept(t)[i] = kept(s)[i]
          BY <2>1, <3>2, SequenceIsLog, LogAppend
        <4> HIDE DEF m
        <4>2. f = [i \in 1 .. m + 1 |-> f[i]] /\ g = [i \in 1 .. m |-> f[i]] /\ f[m + 1] = e
          BY <2>5, <4>1 DEF plain
        <4> HIDE DEF f, g
        <4>3. f = Append(g, f[m + 1])
          BY <4>1, <4>2, OneMore
        <4> QED BY <4>2, <4>3 DEF f, g
      <3> QED BY <2>1, <2>3, <2>10, <2>13, <3>3, <3>4 DEF t, Z
    <2> QED BY <2>12, <2>13
  <1> HIDE DEF P
  <1>6. q \in P
    BY <1>4, <1>5, GrowingSequence
  <1> QED BY <1>3, <1>6 DEF P, Z

(* mssql: the connections *)

MssqlOffers(r) ==
    {<<r[i].user, Dropping(r[i].password, {90})>> : i \in {k \in DOMAIN r : r[k].kind = "login"}}

MssqlCount(n, a) == Len(n) = Len(Dropping(a, {"prelogin"}))

MssqlOK(l, r, e, a) ==
    /\ Base(Chunks.mssql, l, r, e) /\ Known(l, e)
    /\ a \in Seq({"prelogin", "failed"}) /\ MssqlCount(Names(e), a)
    /\ l = "none" => a = <<>>

MssqlInv == Rows /\ \A c \in Conns : MssqlOK(link[c], read[c], events[c], replies[c])

MssqlMoves(c) == Frame(c) /\ Moved(c, MssqlOffers(read[c]), MssqlOffers(read'[c]))

\* Of a step of one connection, only that one needs a look.
LEMMA MssqlFrame ==
    ASSUME MssqlInv, NEW c \in Conns, Frame(c),
           MssqlOK(link'[c], read'[c], events'[c], replies'[c])
    PROVE  MssqlInv'
  BY DEF MssqlInv, Frame

\* A connection nobody has made, and one that was just made.
LEMMA MssqlComes == MssqlOK("none", <<>>, <<>>, <<>>) /\ MssqlOK("open", <<>>, Connected, <<>>)
  <1>1. <<>> \in Seq({"prelogin", "failed"})
    OBVIOUS
  <1> QED BY <1>1, DroppingEmpty, Coming, NoEntries, Zenon DEF MssqlOK, MssqlCount

\* A connection is lost.
LEMMA MssqlGoes ==
    ASSUME NEW l \in {"open", "closing"}, NEW r, NEW e, NEW a, MssqlOK(l, r, e, a)
    PROVE  MssqlOK("lost", r, e, a)
  BY Going DEF MssqlOK

\* A refusal for every login.
LEMMA MssqlReplies ==
    ASSUME NEW a \in Seq({"prelogin", "failed"}), NEW n, IsLog(n), MssqlCount(n, a), NEW m, NEW z,
           \/ m = n /\ z = a
           \/ m = n /\ z = Append(a, "prelogin")
           \/ \E x : m = Append(n, x) /\ z = Append(a, "failed")
    PROVE  MssqlCount(m, z) /\ z \in Seq({"prelogin", "failed"})
  <1> DEFINE S == {"prelogin", "failed"}  D == {"prelogin"}
  <1>1. "prelogin" \in S /\ "failed" \in S /\ a \in Seq(S) /\ "prelogin" \in D /\ "failed" \notin D
        /\ Len(n) = Len(Dropping(a, D))
    BY DEF MssqlCount
  <1> HIDE DEF S, D
  <1>2. /\ Append(a, "prelogin") \in Seq(S) /\ Append(a, "failed") \in Seq(S)
        /\ Dropping(Append(a, "prelogin"), D) = Dropping(a, D)
        /\ Dropping(Append(a, "failed"), D) = Append(Dropping(a, D), "failed")
    BY <1>1, AppendProperties, DroppingAppend
  <1>3. Len(Append(Dropping(a, D), "failed")) = Len(Dropping(a, D)) + 1
    BY <1>1, DroppingType, AppendProperties
  <1>4. \A x : Len(Append(n, x)) = Len(n) + 1
    BY LogAppend
  <1>5. z \in Seq(S) /\ Len(m) = Len(Dropping(z, D))
    BY <1>1, <1>2, <1>3, <1>4
  <1> QED BY <1>5 DEF MssqlCount, S, D

\* One more chunk was read.
LEMMA MssqlOneMore ==
    ASSUME NEW r, IsLog(r), NEW chunk, NEW t, t = Append(r, chunk)
    PROVE  /\ MssqlOffers(r) \subseteq MssqlOffers(t)
           /\ chunk.kind = "login" => <<chunk.user, Dropping(chunk.password, {90})>> \in MssqlOffers(t)
  <1>1. /\ t[Len(r) + 1] = chunk /\ Len(r) \in Nat
        /\ DOMAIN r = 1 .. Len(r) /\ DOMAIN t = 1 .. Len(r) + 1
        /\ \A i \in 1 .. Len(r) : t[i] = r[i]
    BY LogAppend
  <1> DEFINE given(x) == <<x.user, Dropping(x.password, {90})>>
  <1>2. \A s, y : y \in MssqlOffers(s) <=> \E i \in DOMAIN s : s[i].kind = "login" /\ y = given(s[i])
    BY DEF MssqlOffers
  <1> HIDE DEF given
  <1>3. ASSUME NEW y \in MssqlOffers(r) PROVE y \in MssqlOffers(t)
    <2>1. PICK i \in DOMAIN r : r[i].kind = "login" /\ y = given(r[i])
      BY <1>2
    <2>2. i \in DOMAIN t /\ t[i] = r[i]
      BY <1>1
    <2> QED BY <1>2, <2>1, <2>2
  <1>4. ASSUME chunk.kind = "login" PROVE given(chunk) \in MssqlOffers(t)
    <2>1. Len(r) + 1 \in DOMAIN t /\ t[Len(r) + 1].kind = "login"
      BY <1>1, <1>4
    <2> QED BY <1>1, <1>2, <2>1
  <1> QED BY <1>3, <1>4 DEF given

\* What a chunk does to the log and the replies.
MssqlHeard(chunk, e, a, f, z) ==
    \/ f = e /\ (z = a \/ z = Append(a, "prelogin"))
    \/ /\ chunk.kind = "login" /\ z = Append(a, "failed")
       /\ \E x : /\ f = Append(e, x)
                 /\ IsLogin(x, chunk.user, Mssql!Decrypted(Mssql!Obfuscated(chunk.password)))

\* What is read, and what it makes of the connection.
LEMMA MssqlReads ==
    ASSUME NEW r, NEW e, NEW a, MssqlOK("open", r, e, a), NEW chunk \in Chunks.mssql,
           NEW t, t = Append(r, chunk), NEW f, NEW l \in {"open", "lost"}, NEW z,
           MssqlHeard(chunk, e, a, f, z)
    PROVE  MssqlOK(l, t, f, z) /\ Moves("open", l, MssqlOffers(r), MssqlOffers(t), Names(e), Names(f))
  <1>1. /\ Open(Chunks.mssql, r, e) /\ Known("open", e) /\ IsLog(r) /\ IsLog(Names(e))
        /\ a \in Seq({"prelogin", "failed"}) /\ MssqlCount(Names(e), a)
    BY EntryType, SequenceIsLog DEF MssqlOK, Open, Base
  <1>2. /\ MssqlOffers(r) \subseteq MssqlOffers(t)
        /\ chunk.kind = "login" => <<chunk.user, Dropping(chunk.password, {90})>> \in MssqlOffers(t)
    BY <1>1, MssqlOneMore
  <1>3. CASE f = e /\ (z = a \/ z = Append(a, "prelogin"))
    <2>1. Base(Chunks.mssql, l, t, f) /\ Known(l, f)
      BY <1>1, <1>3, ReadingNothing
    <2>2. MssqlCount(Names(f), z) /\ z \in Seq({"prelogin", "failed"})
      BY <1>1, <1>3, MssqlReplies
    <2> QED BY <1>2, <1>3, <2>1, <2>2 DEF MssqlOK, Moves, PhaseOf
  <1>4. CASE /\ chunk.kind = "login" /\ z = Append(a, "failed")
             /\ \E x : /\ f = Append(e, x)
                       /\ IsLogin(x, chunk.user, Mssql!Decrypted(Mssql!Obfuscated(chunk.password)))
    <2> DEFINE u == chunk.user  p == Dropping(chunk.password, {90})
    <2>1. Mssql!Decrypted(Mssql!Obfuscated(chunk.password)) = p
      BY <1>4, MssqlPassword, MssqlAssumption
    <2>2. PICK x : f = Append(e, x) /\ IsLogin(x, u, p)
      BY <1>4, <2>1
    <2>3. <<u, p>> \in MssqlOffers(t)
      BY <1>2, <1>4
    <2> HIDE DEF u, p
    <2>4. LoggedIn(Chunks.mssql, l, t, e, f, u, p)
      BY <1>1, <2>2, ReadingLogin
    <2>5. Base(Chunks.mssql, l, t, f) /\ Known(l, f) /\ Names(f) = Append(Names(e), <<u, p>>)
      BY <2>4 DEF LoggedIn
    <2>6. MssqlCount(Names(f), z) /\ z \in Seq({"prelogin", "failed"})
      BY <1>1, <1>4, <2>5, MssqlReplies
    <2> QED BY <1>2, <2>3, <2>5, <2>6 DEF MssqlOK, Moves, PhaseOf
  <1> QED BY <1>3, <1>4 DEF MssqlHeard

\* Every step of the honeypot keeps its invariant, and is one LoginCapture allows.
LEMMA MssqlStep ==
    ASSUME MssqlInv, Mssql!Next, UNCHANGED <<server, state, user, buffer, answers>>
    PROVE  MssqlInv' /\ \E c \in Conns : MssqlMoves(c)
  <1>0. Rows
    BY DEF MssqlInv
  <1>1. ASSUME NEW c \in Conns, Mssql!ConnectionMade(c) PROVE MssqlInv' /\ MssqlMoves(c)
    <2>1. /\ link[c] = "none" /\ link'[c] = "open" /\ read'[c] = read[c] /\ events'[c] = Connected
          /\ replies'[c] = replies[c] /\ Frame(c)
      BY <1>0, <1>1 DEF Mssql!ConnectionMade, Mssql!Accept, Connected, Rows, IsRow, Frame
    <2>2. MssqlOK("none", read[c], events[c], replies[c])
      BY <2>1 DEF MssqlInv
    <2>3. read[c] = <<>> /\ events[c] = <<>> /\ replies[c] = <<>>
      BY <2>2 DEF MssqlOK, Base
    <2>4. MssqlOK("open", <<>>, Connected, <<>>)
      BY MssqlComes
    <2>5. MssqlInv'
      BY <2>1, <2>3, <2>4, MssqlFrame
    <2> QED BY <2>1, <2>3, <2>5, Coming, NoEntries DEF MssqlMoves, Moved, Moves, PhaseOf
  <1>2. ASSUME NEW c \in Conns, Mssql!Lost(c) PROVE MssqlInv' /\ MssqlMoves(c)
    <2>1. /\ link[c] \in {"open", "closing"} /\ link'[c] = "lost" /\ read'[c] = read[c]
          /\ events'[c] = events[c] /\ replies'[c] = replies[c] /\ Frame(c)
      BY <1>0, <1>2 DEF Mssql!Lost, Mssql!ConnectionLost, Rows, IsRow, Frame
    <2>2. MssqlOK(link[c], read[c], events[c], replies[c])
      BY DEF MssqlInv
    <2>3. MssqlOK("lost", read[c], events[c], replies[c])
      BY <2>1, <2>2, MssqlGoes
    <2>4. MssqlInv'
      BY <2>1, <2>3, MssqlFrame
    <2> QED BY <2>1, <2>4 DEF MssqlMoves, Moved, Moves, PhaseOf
  <1>3. ASSUME NEW c \in Conns, NEW chunk \in Chunks.mssql,
               Mssql!PreLogin(c, chunk) \/ Mssql!Unreadable(c, chunk) \/ Mssql!Ignored(c, chunk)
                 \/ Mssql!HandleLogin(c, chunk)
        PROVE  MssqlInv' /\ MssqlMoves(c)
    <2> DEFINE u == chunk.user  p == Mssql!Decrypted(Mssql!Obfuscated(chunk.password))
    <2>1. /\ link[c] = "open" /\ read'[c] = Append(read[c], chunk) /\ Frame(c) /\ link'[c] \in {"open", "lost"}
          /\ MssqlHeard(chunk, events[c], replies[c], events'[c], replies'[c])
      <3>1. CASE Mssql!PreLogin(c, chunk) \/ Mssql!Unreadable(c, chunk) \/ Mssql!Ignored(c, chunk)
        BY <1>0, <3>1 DEF Mssql!PreLogin, Mssql!Unreadable, Mssql!Ignored, Mssql!Received, Mssql!Reply,
                          Mssql!Raises, Rows, IsRow, Frame, MssqlHeard
      <3>2. CASE Mssql!HandleLogin(c, chunk)
        <4>1. Mssql!CheckLogin(c, u, p) /\ chunk.kind = "login"
          BY <3>2 DEF Mssql!HandleLogin
        <4> DEFINE x == Entry(u, p, Mssql!LoginIsCorrect(u, p))
        <4> HIDE DEF u, p
        <4>2. IsLogin(x, u, p)
          BY EntryIsLogin
        <4>3. events' = [events EXCEPT ![c] = Append(@, x)]
          BY <4>1 DEF Mssql!CheckLogin, Mssql!Log, Mssql!LoginEvent, Entry
        <4> HIDE DEF x
        <4>4. /\ link[c] = "open" /\ read'[c] = Append(read[c], chunk) /\ Frame(c) /\ link'[c] = "open"
              /\ replies'[c] = Append(replies[c], "failed") /\ events'[c] = Append(events[c], x)
          BY <1>0, <3>2, <4>3 DEF Mssql!HandleLogin, Mssql!Received, Mssql!Reply, Rows, IsRow, Frame
        <4> QED BY <4>1, <4>2, <4>4 DEF MssqlHeard, u, p
      <3> QED BY <1>3, <3>1, <3>2
    <2>2. MssqlOK("open", read[c], events[c], replies[c])
      BY <2>1 DEF MssqlInv
    <2>3. /\ MssqlOK(link'[c], read'[c], events'[c], replies'[c])
          /\ Moves("open", link'[c], MssqlOffers(read[c]), MssqlOffers(read'[c]), Names(events[c]), Names(events'[c]))
      BY <2>1, <2>2, MssqlReads
    <2>4. MssqlInv'
      BY <2>1, <2>3, MssqlFrame
    <2> QED BY <2>1, <2>3, <2>4 DEF MssqlMoves, Moved
  <1> QED BY <1>1, <1>2, <1>3 DEF Mssql!Next

\* The invariant holds at the start.
LEMMA MssqlBegins ==
    ASSUME Mssql!Init, state = Nothing, user = Nothing, buffer = Nothing, answers = Nothing
    PROVE  MssqlInv
  <1>1. /\ link = [c \in Conns |-> "none"] /\ read = [c \in Conns |-> <<>>]
        /\ events = [c \in Conns |-> <<>>] /\ replies = [c \in Conns |-> <<>>]
    BY DEF Mssql!Init, Mssql!ConnectionsInit
  <1>2. Rows
    BY <1>1 DEF Rows, IsRow, Nothing
  <1>3. MssqlOK("none", <<>>, <<>>, <<>>)
    BY MssqlComes
  <1> QED BY <1>1, <1>2, <1>3 DEF MssqlInv

\* The invariant implies the properties of the honeypot, and what is offered is what was said.
LEMMA MssqlSafe ==
    ASSUME MssqlInv
    PROVE  Mssql!TypeOK /\ \A c \in Conns : Mssql!Offered(c) = MssqlOffers(read[c])
  <1>1. ASSUME NEW c \in Conns
        PROVE  /\ link[c] \in Links /\ read[c] \in Seq(Chunks.mssql)
               /\ link[c] = "none" <=> events[c] = <<>>
               /\ replies[c] \in Seq({"prelogin", "failed"})
               /\ Len(Names(events[c])) = Len(Dropping(replies[c], {"prelogin"}))
    <2>1. MssqlOK(link[c], read[c], events[c], replies[c])
      BY DEF MssqlInv
    <2> QED BY <2>1, Basics DEF MssqlOK, MssqlCount
  <1>2. \A c \in Conns : Mssql!Captured(c) = Names(events[c])
    BY IsNames DEF Mssql!Captured, Telnet!Captured, Mssql!Logins, Telnet!Logins, Mssql!Matching, Telnet!Matching,
             Mssql!Positions, Telnet!Positions, Mssql!At, Telnet!At
  <1>3. \A s, D : Mssql!Dropping(s, D) = Dropping(s, D)
    BY DEF Mssql!Dropping, Dropping, Mssql!At, At
  <1>4. Mssql!TypeOK
    BY <1>1, <1>2, <1>3 DEF MssqlInv, Rows, IsRow, Mssql!TypeOK, Mssql!ConnectionsTypeOK, Links
  <1>5. \A c \in Conns : Mssql!Offered(c) = MssqlOffers(read[c])
    BY <1>3 DEF Mssql!Offered, MssqlOffers
  <1> QED BY <1>4, <1>5

-------------------------------------------------------------------------------
(* redis (redis_server.py:23-75): nothing was read of an open connection, and a login is there
   if and only if the only request is one *)

RedisOffers(r) == UNION {Redis!Readable(r[i]) : i \in {k \in DOMAIN r : Redis!Logging(r[k])}}

\* What the only request leaves in the log.
RedisLogged(r) == IF Len(r) = 1 /\ Redis!Logging(r[1]) THEN <<Redis!Credentials(r[1])>> ELSE <<>>

RedisOK(l, r, e, a) ==
    /\ Base(Chunks.redis, l, r, e) /\ Known(l, e)
    /\ a \in Seq({"invalid password", "unknown command"})
    /\ l = "open" => r = <<>> /\ Names(e) = <<>>
    /\ l \in {"closing", "lost"} => Len(r) <= 1 /\ Names(e) = RedisLogged(r)

RedisInv == Rows /\ \A c \in Conns : RedisOK(link[c], read[c], events[c], replies[c])

RedisMoves(c) == Frame(c) /\ Moved(c, RedisOffers(read[c]), RedisOffers(read'[c]))

\* Of a step of one connection, only that one needs a look.
LEMMA RedisFrame ==
    ASSUME RedisInv, NEW c \in Conns, Frame(c),
           RedisOK(link'[c], read'[c], events'[c], replies'[c])
    PROVE  RedisInv'
  BY DEF RedisInv, Frame

\* The first digit of a number of one digit.
LEMMA RedisDigit == ASSUME NEW n, n < 10 PROVE Redis!FirstDigit(n) = n
  BY DEF Redis!FirstDigit

\* The code's parser, field by field.
LEMMA RedisField ==
    ASSUME NEW field
    PROVE  /\ Redis!IsShort(field) => Redis!Field(field) = field.text
           /\ Redis!Field(field) \in Redis!Readings(field)
  <1>1. Redis!IsShort(field) => Redis!FirstDigit(field.length) = field.length /\ field.chars = field.length
    BY RedisDigit DEF Redis!IsShort, Redis!IsWhole
  <1>2. Redis!IsShort(field) => Redis!Field(field) = field.text
    BY <1>1 DEF Redis!Field
  <1>3. Redis!Field(field) \in {field.text, ""}
    BY DEF Redis!Field
  <1> QED BY <1>2, <1>3 DEF Redis!Readings

\* What is taken for the credentials.
LEMMA RedisCredentials ==
    ASSUME NEW chunk, Redis!Logging(chunk)
    PROVE  /\ Redis!Credentials(chunk) \in Redis!Readable(chunk)
           /\ Redis!AreShort(chunk) => Redis!Credentials(chunk) = Redis!Meant(chunk)
           /\ Redis!Credentials(chunk) = <<Redis!Credentials(chunk)[1], Redis!Credentials(chunk)[2]>>
  <1> DEFINE one == chunk.args[1]  two == chunk.args[2]  d == Redis!Declared(chunk)
  <1>1. d \in {1, 2}
    BY DEF Redis!Logging, Redis!HasFields
  <1>2. Redis!Field(one) \in Redis!Readings(one) /\ Redis!Field(two) \in Redis!Readings(two)
    BY RedisField
  <1>3. CASE d = 2
    <2>1. Redis!Credentials(chunk) = <<Redis!Field(one), Redis!Field(two)>>
      BY <1>3 DEF Redis!Credentials
    <2>2. Redis!Readable(chunk) = Redis!Readings(one) \X Redis!Readings(two)
      BY <1>3 DEF Redis!Readable
    <2>3. Redis!Meant(chunk) = <<one.text, two.text>>
      BY <1>3 DEF Redis!Meant
    <2>4. Redis!AreShort(chunk) => Redis!IsShort(one) /\ Redis!IsShort(two)
      <3>1. 1 \in 1 .. d /\ 2 \in 1 .. d
        BY <1>3
      <3> QED BY <3>1 DEF Redis!AreShort
    <2> HIDE DEF one, two
    <2>5. /\ Redis!IsShort(one) => Redis!Field(one) = one.text
          /\ Redis!IsShort(two) => Redis!Field(two) = two.text
      BY RedisField
    <2>6. <<Redis!Field(one), Redis!Field(two)>> = <<<<Redis!Field(one), Redis!Field(two)>>[1], <<Redis!Field(one), Redis!Field(two)>>[2]>>
      OBVIOUS
    <2> QED BY <1>2, <2>1, <2>2, <2>3, <2>4, <2>5, <2>6
  <1>4. CASE d = 1
    <2>1. Redis!Credentials(chunk) = <<"", Redis!Field(one)>>
      BY <1>4 DEF Redis!Credentials
    <2>2. Redis!Readable(chunk) = {""} \X Redis!Readings(one)
      BY <1>4 DEF Redis!Readable
    <2>3. Redis!Meant(chunk) = <<"", one.text>>
      BY <1>4 DEF Redis!Meant
    <2>4. Redis!AreShort(chunk) => Redis!IsShort(one)
      <3>1. 1 \in 1 .. d
        BY <1>4
      <3> QED BY <3>1 DEF Redis!AreShort
    <2> HIDE DEF one, two
    <2>5. Redis!IsShort(one) => Redis!Field(one) = one.text
      BY RedisField
    <2>6. <<"", Redis!Field(one)>> = <<<<"", Redis!Field(one)>>[1], <<"", Redis!Field(one)>>[2]>>
      OBVIOUS
    <2> QED BY <1>2, <2>1, <2>2, <2>3, <2>4, <2>5, <2>6
  <1> QED BY <1>1, <1>3, <1>4

\* The only request.
LEMMA RedisFirst ==
    ASSUME NEW chunk, NEW t, t = Append(<<>>, chunk)
    PROVE  /\ RedisOffers(<<>>) = {} /\ Len(t) <= 1
           /\ Redis!Logging(chunk) => /\ RedisOffers(t) = Redis!Readable(chunk)
                                      /\ RedisLogged(t) = <<Redis!Credentials(chunk)>>
           /\ ~Redis!Logging(chunk) => RedisOffers(t) = {} /\ RedisLogged(t) = <<>>
  <1>1. DOMAIN <<>> = {} /\ Len(t) = 1 /\ DOMAIN t = {1} /\ t[1] = chunk
    OBVIOUS
  <1> QED BY <1>1 DEF RedisOffers, RedisLogged

\* What a request adds to the log: a login if it is one.
RedisHears(chunk, e, f) ==
    \/ ~Redis!Logging(chunk) /\ f = e
    \/ /\ Redis!Logging(chunk)
       /\ \E x : /\ f = Append(e, x)
                 /\ IsLogin(x, Redis!Credentials(chunk)[1], Redis!Credentials(chunk)[2])

RedisReading(l, r, t, e, f, b) ==
    RedisOK(l, t, f, b) /\ Moves("open", l, RedisOffers(r), RedisOffers(t), Names(e), Names(f))

\* What is read, and what it makes of the connection.
LEMMA RedisReads ==
    ASSUME NEW r, NEW e, NEW a, RedisOK("open", r, e, a), NEW chunk \in Chunks.redis,
           NEW t, t = Append(r, chunk), NEW f, NEW b, b \in Seq({"invalid password", "unknown command"}),
           NEW l \in {"closing", "lost"}, RedisHears(chunk, e, f)
    PROVE  RedisReading(l, r, t, e, f, b)
  <1>1. /\ Open(Chunks.redis, r, e) /\ Known("open", e) /\ r = <<>> /\ Names(e) = <<>>
    BY DEF RedisOK, Open
  <1>2. /\ RedisOffers(r) = {} /\ Len(t) <= 1
        /\ Redis!Logging(chunk) => /\ RedisOffers(t) = Redis!Readable(chunk)
                                   /\ RedisLogged(t) = <<Redis!Credentials(chunk)>>
        /\ ~Redis!Logging(chunk) => RedisOffers(t) = {} /\ RedisLogged(t) = <<>>
    BY <1>1, RedisFirst
  <1>3. CASE ~Redis!Logging(chunk)
    <2>1. f = e /\ Base(Chunks.redis, l, t, f) /\ Known(l, f)
      BY <1>1, <1>3, ReadingNothing DEF RedisHears
    <2> QED BY <1>1, <1>2, <1>3, <2>1 DEF RedisReading, RedisOK, Moves, PhaseOf
  <1>4. CASE Redis!Logging(chunk)
    <2> DEFINE u == Redis!Credentials(chunk)[1]  p == Redis!Credentials(chunk)[2]
    <2>1. PICK x : f = Append(e, x) /\ IsLogin(x, u, p)
      BY <1>4 DEF RedisHears
    <2>2. <<u, p>> = Redis!Credentials(chunk) /\ <<u, p>> \in RedisOffers(t)
      BY <1>2, <1>4, RedisCredentials
    <2> HIDE DEF u, p
    <2>3. LoggedIn(Chunks.redis, l, t, e, f, u, p)
      BY <1>1, <2>1, ReadingLogin
    <2>4. Names(f) = Append(Names(e), <<u, p>>) /\ Base(Chunks.redis, l, t, f) /\ Known(l, f)
      BY <2>3 DEF LoggedIn
    <2>5. Names(f) = <<<<u, p>>>>
      BY <1>1, <2>4, FirstLogin
    <2> QED BY <1>2, <1>4, <2>2, <2>4, <2>5 DEF RedisReading, RedisOK, Moves, PhaseOf
  <1> QED BY <1>3, <1>4

\* Every step of the honeypot keeps its invariant, and is one LoginCapture allows.
LEMMA RedisStep ==
    ASSUME RedisInv, Redis!Next, UNCHANGED <<server, state, user, buffer, answers>>
    PROVE  RedisInv' /\ \E c \in Conns : RedisMoves(c)
  <1>0. Rows
    BY DEF RedisInv
  <1>1. ASSUME NEW c \in Conns, Redis!ConnectionMade(c) PROVE RedisInv' /\ RedisMoves(c)
    <2>1. /\ link[c] = "none" /\ link'[c] = "open" /\ read'[c] = read[c] /\ events'[c] = Connected
          /\ replies'[c] = replies[c] /\ Frame(c)
      BY <1>0, <1>1 DEF Redis!ConnectionMade, Redis!Accept, Connected, Rows, IsRow, Frame
    <2>2. /\ read[c] = <<>> /\ events[c] = <<>>
          /\ replies[c] \in Seq({"invalid password", "unknown command"})
      BY <2>1 DEF RedisInv, RedisOK, Base
    <2>3. RedisOK("open", <<>>, Connected, replies[c])
      BY <2>2, Coming, NoEntries DEF RedisOK
    <2>4. RedisInv'
      BY <2>1, <2>2, <2>3, RedisFrame
    <2> QED BY <2>1, <2>2, <2>4, Coming, NoEntries DEF RedisMoves, Moved, Moves, PhaseOf
  <1>2. ASSUME NEW c \in Conns, Redis!Lost(c) PROVE RedisInv' /\ RedisMoves(c)
    <2>1. /\ link[c] \in {"open", "closing"} /\ link'[c] = "lost" /\ read'[c] = read[c]
          /\ events'[c] = events[c] /\ replies'[c] = replies[c] /\ Frame(c)
      BY <1>0, <1>2 DEF Redis!Lost, Redis!ConnectionLost, Rows, IsRow, Frame
    <2>2. RedisOK(link[c], read[c], events[c], replies[c])
      BY DEF RedisInv
    <2>3. RedisOK("lost", read[c], events[c], replies[c])
      <3>1. Base(Chunks.redis, "lost", read[c], events[c]) /\ Known("lost", events[c])
        BY <2>1, <2>2, Going DEF RedisOK
      <3>2. RedisLogged(<<>>) = <<>> /\ Len(<<>>) <= 1
        BY DEF RedisLogged
      <3>3. CASE link[c] = "open"
        BY <2>2, <3>1, <3>2, <3>3 DEF RedisOK
      <3> QED BY <2>1, <2>2, <3>1, <3>3 DEF RedisOK
    <2>4. RedisInv'
      BY <2>1, <2>3, RedisFrame
    <2> QED BY <2>1, <2>4 DEF RedisMoves, Moved, Moves, PhaseOf
  <1>3. ASSUME NEW c \in Conns, NEW chunk \in Chunks.redis,
               Redis!Auth(c, chunk) \/ Redis!TornAuth(c, chunk) \/ Redis!BareAuth(c, chunk)
               \/ Redis!Unknown(c, chunk)
        PROVE  RedisInv' /\ RedisMoves(c)
    <2>1. /\ link[c] = "open" /\ read'[c] = Append(read[c], chunk) /\ link'[c] \in {"closing", "lost"}
          /\ \/ replies'[c] = replies[c] \/ replies'[c] = Append(replies[c], "invalid password")
             \/ replies'[c] = Append(replies[c], "unknown command")
          /\ Frame(c)
      BY <1>0, <1>3 DEF Redis!Auth, Redis!TornAuth, Redis!BareAuth, Redis!Unknown, Redis!Received, Redis!Reply, Redis!Raises,
                        Redis!LoseConnection, Redis!CheckLogin, Redis!Log, Rows, IsRow, Frame
    <2>2. \/ ~Redis!Logging(chunk) /\ events'[c] = events[c]
          \/ /\ Redis!Logging(chunk)
             /\ \E x : /\ events'[c] = Append(events[c], x)
                       /\ IsLogin(x, Redis!Credentials(chunk)[1], Redis!Credentials(chunk)[2])
      <3>1. CASE Redis!Auth(c, chunk)
        <4>1. Redis!Logging(chunk) /\ Redis!CheckLogin(c, Redis!Credentials(chunk)[1], Redis!Credentials(chunk)[2])
          BY <3>1 DEF Redis!Auth
        <4> DEFINE u == Redis!Credentials(chunk)[1]  p == Redis!Credentials(chunk)[2]
        <4> HIDE DEF u, p
        <4>2. events'[c] = Append(events[c], Entry(u, p, Redis!LoginIsCorrect(u, p)))
          BY <1>0, <4>1 DEF u, p, Redis!CheckLogin, Redis!Log, Redis!LoginEvent, Entry, Rows, IsRow
        <4>3. IsLogin(Entry(u, p, Redis!LoginIsCorrect(u, p)), u, p)
          BY EntryIsLogin
        <4> QED BY <4>1, <4>2, <4>3 DEF u, p
      <3>2. CASE ~Redis!Auth(c, chunk)
        BY <1>3, <3>2 DEF Redis!TornAuth, Redis!BareAuth, Redis!Unknown, Redis!Logging
      <3> QED BY <3>1, <3>2
    <2>3. RedisOK("open", read[c], events[c], replies[c])
      BY <2>1 DEF RedisInv
    <2>4. replies'[c] \in Seq({"invalid password", "unknown command"})
      <3>1. replies[c] \in Seq({"invalid password", "unknown command"})
        BY <2>3 DEF RedisOK
      <3> QED BY <2>1, <3>1, AppendProperties
    <2>5. /\ RedisOK(link'[c], read'[c], events'[c], replies'[c])
          /\ Moves("open", link'[c], RedisOffers(read[c]), RedisOffers(read'[c]), Names(events[c]), Names(events'[c]))
      <3>1. RedisHears(chunk, events[c], events'[c])
        BY <2>2 DEF RedisHears
      <3>2. RedisReading(link'[c], read[c], read'[c], events[c], events'[c], replies'[c])
        BY <2>1, <2>3, <2>4, <3>1, RedisReads
      <3> QED BY <3>2 DEF RedisReading
    <2>6. RedisInv'
      BY <2>1, <2>5, RedisFrame
    <2> QED BY <2>1, <2>5, <2>6 DEF RedisMoves, Moved
  <1> QED BY <1>1, <1>2, <1>3 DEF Redis!Next

\* The invariant holds at the start.
LEMMA RedisBegins ==
    ASSUME Redis!Init, state = Nothing, user = Nothing, buffer = Nothing, answers = Nothing
    PROVE  RedisInv
  <1>1. /\ link = [c \in Conns |-> "none"] /\ read = [c \in Conns |-> <<>>]
        /\ events = [c \in Conns |-> <<>>] /\ replies = [c \in Conns |-> <<>>]
    BY DEF Redis!Init, Redis!ConnectionsInit
  <1>2. Rows
    BY <1>1 DEF Rows, IsRow, Nothing
  <1>3. RedisOK("none", <<>>, <<>>, <<>>)
    <2>1. <<>> \in Seq({"invalid password", "unknown command"})
      OBVIOUS
    <2> QED BY <2>1, Coming DEF RedisOK
  <1> QED BY <1>1, <1>2, <1>3 DEF RedisInv

\* The invariant implies the properties of the honeypot, and what is offered is what was said.
LEMMA RedisSafe == RedisInv => Redis!TypeOK /\ Redis!OneRequest /\ \A c \in Conns : Redis!Offered(c) = RedisOffers(read[c])
  <1> SUFFICES ASSUME RedisInv
               PROVE  Redis!TypeOK /\ Redis!OneRequest /\ \A c \in Conns : Redis!Offered(c) = RedisOffers(read[c])
    OBVIOUS
  <1>1. ASSUME NEW c \in Conns
        PROVE  /\ link[c] \in Links /\ read[c] \in Seq(Chunks.redis)
               /\ link[c] = "none" <=> events[c] = <<>>
               /\ replies[c] \in Seq({"invalid password", "unknown command"})
               /\ link[c] = "open" => read[c] = <<>>
               /\ Len(read[c]) <= 1
               /\ Names(events[c]) = RedisLogged(read[c])
    <2>1. RedisOK(link[c], read[c], events[c], replies[c])
      BY DEF RedisInv
    <2>2. RedisLogged(<<>>) = <<>> /\ Len(<<>>) <= 1 /\ Names(<<>>) = <<>>
      BY NoEntries DEF RedisLogged
    <2>3. /\ link[c] \in Links /\ read[c] \in Seq(Chunks.redis)
          /\ link[c] = "none" <=> events[c] = <<>>
          /\ link[c] = "none" => read[c] = <<>> /\ events[c] = <<>>
      BY <2>1, Basics DEF RedisOK
    <2>4. CASE link[c] \in {"none", "open"}
      BY <2>1, <2>2, <2>3, <2>4 DEF RedisOK
    <2>5. CASE link[c] \in {"closing", "lost"}
      BY <2>1, <2>3, <2>5 DEF RedisOK
    <2> QED BY <2>3, <2>4, <2>5 DEF Links
  <1>2. Redis!TypeOK
    BY <1>1 DEF RedisInv, Rows, IsRow, Redis!TypeOK, Redis!ConnectionsTypeOK, Links
  <1>3. ASSUME NEW c \in Conns
        PROVE  Redis!Captured(c) = Names(events[c]) /\ Redis!Offered(c) = RedisOffers(read[c])
    <2>1. Redis!Captured(c) = Telnet!Captured(c)
      BY DEF Redis!Captured, Telnet!Captured, Redis!Logins, Telnet!Logins, Redis!Matching, Telnet!Matching,
             Redis!Positions, Telnet!Positions, Redis!At, Telnet!At
    <2>2. Redis!Offered(c) = RedisOffers(read[c])
      BY DEF Redis!Offered, RedisOffers
    <2> QED BY <2>1, <2>2, IsNames
  <1>4. ASSUME NEW c \in Conns
        PROVE  /\ Len(read[c]) <= 1
               /\ Redis!Captured(c) # <<>> <=> Len(read[c]) = 1 /\ Redis!Logging(read[c][1])
               /\ Redis!Captured(c) # <<>> /\ Redis!AreShort(read[c][1]) => Redis!Captured(c) = <<Redis!Meant(read[c][1])>>
    <2>1. \A x : <<x>> # <<>>
      OBVIOUS
    <2>2. Redis!Logging(read[c][1]) /\ Redis!AreShort(read[c][1]) => Redis!Credentials(read[c][1]) = Redis!Meant(read[c][1])
      BY RedisCredentials
    <2> QED BY <1>1, <1>3, <2>1, <2>2 DEF RedisLogged
  <1> QED BY <1>2, <1>3, <1>4 DEF Redis!OneRequest
===============================================================================
