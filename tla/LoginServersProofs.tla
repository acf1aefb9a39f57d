-------------------------- MODULE LoginServersProofs --------------------------
(***************************************************************************)
(* The inductive invariants of the honeypots of LoginServers that read     *)
(* text, telnet, pop3, ftp, imap, smtp, irc and http, laid out as in       *)
(* PacketServersProofs, and the theorems about all thirteen: each of the   *)
(* properties of LoginServers but PasswordIsTheOneSent, which does not     *)
(* hold, for any clients, inputs, credentials and number of chunks.        *)
(***************************************************************************)
EXTENDS PacketServersProofs

-------------------------------------------------------------------------------
(* telnet (telnet_server.py:34-66): of the runs of text that were read, a first part has been
   answered and the rest waits in the buffer *)

TelnetRuns == [kind : {"command"}] \union [kind : {"text"}, data : Seq(STRING)]
TelnetTexts(b) == Dropping(b, {[kind |-> "command"]})

\* The logins of a peer whose answers these are.
TelnetNames(done) == [i \in 1 .. Len(done) - 1 |-> <<Telnet!Answer(done[1]), Telnet!Answer(done[i + 1])>>]

TelnetOffers(a) == {<<Telnet!Answer(a[1]), Telnet!Answer(a[i])>> : i \in 2 .. Len(a)}

\* Of the runs that were read, these have been passed on.
TelnetSplit(a, b, done) == done \in Seq(TelnetRuns) /\ a = done \o TelnetTexts(b)

TelnetDone(l, s, u, names, done) ==
    /\ names = TelnetNames(done)
    /\ s = "Username" => done = <<>>
    /\ s = "Password" => Len(done) > 0 /\ u = Telnet!Answer(done[1])
    /\ l = "open" => Len(done) < 2

TelnetOK(l, r, e, s, u, b, a) ==
    /\ Base(Chunks.telnet, l, r, e) /\ Known(l, e)
    /\ l = "none" => s = "none" /\ u = <<>> /\ b = <<>> /\ a = <<>>
    /\ s \in {"none", "Username", "Password"} /\ (s = "none" <=> l \in {"none", "lost"})
    /\ s = "Username" => l = "open" /\ u = <<>>
    /\ b \in Seq(TelnetRuns) /\ (l = "lost" => b = <<>>)
    /\ \E done : TelnetSplit(a, b, done) /\ TelnetDone(l, s, u, Names(e), done)

TelnetInv == Rows /\ \A c \in Conns : TelnetOK(link[c], read[c], events[c], state[c], user[c], buffer[c], answers[c])

TelnetMoves(c) == Frame(c) /\ Moved(c, TelnetOffers(answers[c]), TelnetOffers(answers'[c]))

\* Of a step of one connection, only that one needs a look.
LEMMA TelnetFrame ==
    ASSUME TelnetInv, NEW c \in Conns, Frame(c), TelnetOK(link'[c], read'[c], events'[c], state'[c], user'[c], buffer'[c], answers'[c])
    PROVE  TelnetInv'
  BY DEF TelnetInv, Frame

\* Of who has sent nothing.
LEMMA TelnetNothing ==
    /\ TelnetTexts(<<>>) = <<>> /\ TelnetNames(<<>>) = <<>> /\ <<>> \in Seq(TelnetRuns)
    /\ TelnetSplit(<<>>, <<>>, <<>>)
    /\ TelnetDone("none", "none", <<>>, <<>>, <<>>) /\ TelnetDone("open", "Username", <<>>, <<>>, <<>>)
  <1>1. TelnetTexts(<<>>) = <<>>
    BY DroppingEmpty DEF TelnetTexts
  <1>2. Len(<<>>) = 0 /\ <<>> \in Seq(TelnetRuns) /\ <<>> \o <<>> = <<>> /\ 1 .. 0 - 1 = {}
    OBVIOUS
  <1>3. TelnetNames(<<>>) = [i \in {} |-> <<Telnet!Answer(<<>>[1]), Telnet!Answer(<<>>[i + 1])>>]
    BY <1>2 DEF TelnetNames
  <1>4. TelnetNames(<<>>) = <<>>
    BY <1>3
  <1>5. TelnetSplit(<<>>, <<>>, <<>>)
    BY <1>1, <1>2 DEF TelnetSplit
  <1> QED BY <1>1, <1>2, <1>4, <1>5 DEF TelnetDone

\* A connection nobody has made, and one that was just made.
LEMMA TelnetComes ==
    /\ TelnetOK("none", <<>>, <<>>, "none", <<>>, <<>>, <<>>)
    /\ TelnetOK("open", <<>>, Connected, "Username", <<>>, <<>>, <<>>)
  <1>1. /\ Base(Chunks.telnet, "none", <<>>, <<>>) /\ Known("none", <<>>)
        /\ Base(Chunks.telnet, "open", <<>>, Connected) /\ Known("open", Connected)
        /\ Names(Connected) = <<>> /\ Names(<<>>) = <<>>
    BY Coming, NoEntries
  <1>2. /\ TelnetDone("none", "none", <<>>, Names(<<>>), <<>>)
        /\ TelnetDone("open", "Username", <<>>, Names(Connected), <<>>)
    BY <1>1, TelnetNothing
  <1> QED BY <1>1, <1>2, TelnetNothing DEF TelnetOK

\* A connection is lost.
LEMMA TelnetGoes ==
    ASSUME NEW l \in {"open", "closing"}, NEW r, NEW e, NEW s, NEW u, NEW a, TelnetOK(l, r, e, s, u, <<>>, a)
    PROVE  TelnetOK("lost", r, e, "none", <<>>, <<>>, a)
  <1>1. Base(Chunks.telnet, "lost", r, e) /\ Known("lost", e)
    BY Going DEF TelnetOK
  <1>2. PICK done : TelnetSplit(a, <<>>, done) /\ TelnetDone(l, s, u, Names(e), done)
    BY DEF TelnetOK
  <1>3. TelnetDone("lost", "none", <<>>, Names(e), done)
    BY <1>2 DEF TelnetDone
  <1> QED BY <1>1, <1>2, <1>3, TelnetNothing DEF TelnetOK

\* The first run of those that are left.
LEMMA TelnetHead ==
    ASSUME NEW b \in Seq(TelnetRuns), b # <<>>
    PROVE  /\ Head(b) \in TelnetRuns /\ Tail(b) \in Seq(TelnetRuns)
           /\ TelnetTexts(b) \in Seq(TelnetRuns) /\ TelnetTexts(Tail(b)) \in Seq(TelnetRuns)
           /\ Head(b).kind = "command" => TelnetTexts(b) = TelnetTexts(Tail(b))
           /\ Head(b).kind = "text" => TelnetTexts(b) = <<Head(b)>> \o TelnetTexts(Tail(b))
  <1> DEFINE R == TelnetRuns  h == Head(b)  z == Tail(b)  X == {[kind |-> "command"]}
  <1>1. h \in R /\ z \in Seq(R) /\ b = <<h>> \o z
    <2> HIDE DEF R
    <2>1. b \in Seq(R) /\ b # <<>>
      BY DEF R
    <2> QED BY <2>1, HeadTailProperties
  <1>2. (h.kind = "command" => h \in X) /\ (h.kind = "text" => h \notin X)
    BY <1>1 DEF TelnetRuns
  <1>3. \A s : TelnetTexts(s) = Dropping(s, X)
    BY DEF TelnetTexts
  <1> HIDE DEF R, h, z, X
  <1>4. <<h>> = Append(<<>>, h) /\ <<>> \in Seq(R) /\ <<h>> \in Seq(R)
    BY <1>1
  <1>5. Dropping(Append(<<>>, h), X) = IF h \in X THEN Dropping(<<>>, X) ELSE Append(Dropping(<<>>, X), h)
    BY <1>1, <1>4, DroppingAppend
  <1>6. Dropping(<<>>, X) = <<>>
    BY DroppingEmpty
  <1>7. Dropping(<<h>>, X) = IF h \in X THEN <<>> ELSE <<h>>
    BY <1>4, <1>5, <1>6, Zenon
  <1>8. Dropping(<<h>> \o z, X) = Dropping(<<h>>, X) \o Dropping(z, X)
    <2>1. ASSUME NEW v \in Seq(R), NEW w \in Seq(R) PROVE Dropping(v \o w, X) = Dropping(v, X) \o Dropping(w, X)
      BY DroppingConcat
    <2> DEFINE k == <<h>>
    <2>2. k \in Seq(R)
      BY <1>4
    <2> HIDE DEF k
    <2>3. Dropping(k \o z, X) = Dropping(k, X) \o Dropping(z, X)
      BY <1>1, <2>1, <2>2
    <2> QED BY <2>3 DEF k
  <1>9. Dropping(z, X) \in Seq(R) /\ Dropping(b, X) \in Seq(R)
    BY <1>1, DroppingType DEF R
  <1>10. <<>> \o Dropping(z, X) = Dropping(z, X)
    BY <1>9, ConcatEmptySeq
  <1>11. (h \in X => Dropping(b, X) = Dropping(z, X)) /\ (h \notin X => Dropping(b, X) = <<h>> \o Dropping(z, X))
    BY <1>1, <1>7, <1>8, <1>10, Zenon
  <1> QED BY <1>1, <1>2, <1>3, <1>9, <1>11 DEF R, h, z

\* One more answer has been passed on.
TelnetGrows(done, h, x, a, more) ==
    /\ more \in Seq(TelnetRuns) /\ a = more \o x
    /\ Len(more) = Len(done) + 1 /\ Len(done) \in Nat
    /\ Len(done) = 0 => TelnetNames(more) = <<>> /\ TelnetNames(done) = <<>> /\ more[1] = h
    /\ Len(done) > 0 =>
         /\ more[1] = done[1]
         /\ TelnetNames(more) = Append(TelnetNames(done), <<Telnet!Answer(done[1]), Telnet!Answer(h)>>)
         /\ <<Telnet!Answer(done[1]), Telnet!Answer(h)>> \in TelnetOffers(a)

\* Passing on the first run of a chunk adds one answer to the answers it has passed on so far.
LEMMA TelnetAnswers ==
    ASSUME NEW done \in Seq(TelnetRuns), NEW h \in TelnetRuns, NEW x \in Seq(TelnetRuns),
           NEW a, a = done \o (<<h>> \o x), NEW more, more = Append(done, h)
    PROVE  TelnetGrows(done, h, x, a, more)
  <1> DEFINE R == TelnetRuns  n == Len(done)
  <1>0. done \in Seq(R) /\ h \in R /\ x \in Seq(R)
    OBVIOUS
  <1> HIDE DEF R
  <1>1. more \in Seq(R) /\ <<h>> \in Seq(R) /\ more = done \o <<h>>
    BY <1>0, AppendProperties, AppendIsConcat
  <1>2. a = more \o x
    BY <1>0, <1>1, ConcatAssociative
  <1>3. Grown(done, h, more, n) /\ IsLog(more) /\ IsLog(x)
    BY <1>0, <1>1, SequenceIsLog, Growing
  <1>4. Len(more) = n + 1
    BY <1>0, SequenceIsLog, LogAppend
  <1>5. Len(a) = Len(more) + Len(x) /\ Len(x) \in Nat /\ \A i \in 1 .. Len(more) : a[i] = more[i]
    <2>1. ASSUME NEW v, NEW w, IsLog(v), IsLog(w)
          PROVE  /\ Len(v \o w) = Len(v) + Len(w) /\ Len(w) \in Nat
                 /\ \A i \in 1 .. Len(v) : (v \o w)[i] = v[i]
      BY LogConcat
    <2>2. IsLog(more) /\ IsLog(x)
      BY <1>3
    <2>3. Len(more \o x) = Len(more) + Len(x) /\ Len(x) \in Nat /\ \A i \in 1 .. Len(more) : (more \o x)[i] = more[i]
      BY ONLY <2>1, <2>2
    <2> QED BY ONLY <1>2, <2>3
  <1> HIDE DEF n
  <1>6. n \in Nat /\ more[n + 1] = h /\ \A i \in 1 .. n : more[i] = done[i]
    BY <1>3 DEF Grown
  <1>7. ASSUME n = 0 PROVE TelnetNames(more) = <<>> /\ TelnetNames(done) = <<>> /\ more[1] = h
    <2>1. 1 .. (n + 1) - 1 = {} /\ 1 .. n - 1 = {}
      BY <1>7
    <2>2. more[1] = h
      BY <1>6, <1>7
    <2>3. TelnetNames(more) = [i \in {} |-> <<Telnet!Answer(more[1]), Telnet!Answer(more[i + 1])>>]
      BY <1>4, <2>1 DEF TelnetNames
    <2>4. TelnetNames(done) = [i \in {} |-> <<Telnet!Answer(done[1]), Telnet!Answer(done[i + 1])>>]
      BY <2>1 DEF TelnetNames, n
    <2> QED BY <2>2, <2>3, <2>4
  <1>8. ASSUME n > 0
        PROVE  /\ more[1] = done[1]
               /\ TelnetNames(more) = Append(TelnetNames(done), <<Telnet!Answer(done[1]), Telnet!Answer(h)>>)
               /\ <<Telnet!Answer(done[1]), Telnet!Answer(h)>> \in TelnetOffers(a)
    <2>1. 1 \in 1 .. n /\ n - 1 \in Nat /\ (n - 1) + 1 = n /\ (n + 1) - 1 = n
      BY <1>6, <1>8
    <2>2. more[1] = done[1]
      BY <1>6, <2>1
    <2> DEFINE m == n - 1
               f == [i \in 1 .. m + 1 |-> <<Telnet!Answer(more[1]), Telnet!Answer(more[i + 1])>>]
               g == [i \in 1 .. m |-> <<Telnet!Answer(done[1]), Telnet!Answer(done[i + 1])>>]
    <2>3. m \in Nat /\ m + 1 = n
      BY <2>1
    <2>4. TelnetNames(more) = f
      BY <1>4, <2>1, <2>3 DEF TelnetNames
    <2>5. TelnetNames(done) = g
      BY DEF TelnetNames, n
    <2> HIDE DEF m
    <2>6. \A i \in 1 .. m : more[i + 1] = done[i + 1]
      <3>1. ASSUME NEW i \in 1 .. m PROVE i + 1 \in 1 .. n
        BY <2>3
      <3>2. ASSUME NEW i \in 1 .. m PROVE more[i + 1] = done[i + 1]
        <4>1. i + 1 \in 1 .. n
          BY <3>1
        <4> QED BY ONLY <1>6, <4>1
      <3> QED BY <3>2
    <2>7. \A i \in 1 .. m : i \in 1 .. m + 1
      BY <2>3
    <2>8. f = [i \in 1 .. m + 1 |-> f[i]]
      OBVIOUS
    <2>9. g = [i \in 1 .. m |-> f[i]]
      BY <2>2, <2>6, <2>7
    <2>10. f[m + 1] = <<Telnet!Answer(done[1]), Telnet!Answer(h)>>
      <3>1. m + 1 \in 1 .. m + 1
        BY <2>3
      <3>2. (m + 1) + 1 = n + 1
        BY <2>3
      <3>3. more[(m + 1) + 1] = h
        BY <1>6, <3>2, Zenon
      <3> QED BY <2>2, <3>1, <3>3
    <2> HIDE DEF f, g
    <2>11. f = Append(g, f[m + 1])
      BY <2>3, <2>8, <2>9, OneMore
    <2>12. <<Telnet!Answer(done[1]), Telnet!Answer(h)>> \in TelnetOffers(a)
      <3>1. n + 1 \in 2 .. Len(a) /\ n + 1 \in 1 .. Len(more) /\ 1 \in 1 .. Len(more)
        BY <1>4, <1>5, <1>6, <1>8
      <3>2. a[n + 1] = h /\ a[1] = done[1]
        BY <1>5, <1>6, <2>2, <3>1
      <3>3. <<Telnet!Answer(a[1]), Telnet!Answer(a[n + 1])>> \in TelnetOffers(a)
        BY <3>1 DEF TelnetOffers
      <3> QED BY <3>2, <3>3
    <2> QED BY <2>2, <2>4, <2>5, <2>10, <2>11, <2>12
  <1> QED BY <1>1, <1>2, <1>4, <1>6, <1>7, <1>8 DEF n, R, TelnetGrows

\* More runs of text have been read.
LEMMA TelnetMore ==
    ASSUME NEW a, IsLog(a), NEW x, IsLog(x)
    PROVE  TelnetOffers(a) \subseteq TelnetOffers(a \o x)
  <1> DEFINE t == a \o x
  <1>1. Len(a) \in Nat /\ Len(x) \in Nat /\ Len(t) = Len(a) + Len(x) /\ \A i \in 1 .. Len(a) : t[i] = a[i]
    BY LogConcat
  <1> HIDE DEF t
  <1>2. \A s, y : y \in TelnetOffers(s) <=> \E i \in 2 .. Len(s) : y = <<Telnet!Answer(s[1]), Telnet!Answer(s[i])>>
    BY DEF TelnetOffers
  <1>3. ASSUME NEW y \in TelnetOffers(a) PROVE y \in TelnetOffers(t)
    <2>1. PICK i \in 2 .. Len(a) : y = <<Telnet!Answer(a[1]), Telnet!Answer(a[i])>>
      BY <1>2
    <2>2. i \in 2 .. Len(t) /\ i \in 1 .. Len(a) /\ 1 \in 1 .. Len(a)
      BY <1>1
    <2>3. t[1] = a[1] /\ t[i] = a[i]
      BY <1>1, <2>2
    <2> QED BY <1>2, <2>1, <2>2, <2>3
  <1> QED BY <1>3 DEF t

TelnetReading(r, e, s, u, a, chunk, t, q) ==
    TelnetOK("open", t, e, s, u, chunk, q) /\ TelnetOffers(a) \subseteq TelnetOffers(q)

TelnetHeard(l, r, e, u, b, a, f) ==
    /\ TelnetOK("closing", r, f, "Password", u, Tail(b), a)
    /\ l \in {"open", "closing"}
    /\ \E y \in TelnetOffers(a) : Names(f) = Append(Names(e), y)

\* What the transport does: it reads, passes over a command, or passes on an answer, of
\* which there are two.
LEMMA TelnetReads ==
    ASSUME NEW r, NEW e, NEW s, NEW u, NEW a, TelnetOK("open", r, e, s, u, <<>>, a),
           NEW chunk \in Chunks.telnet, NEW t, t = Append(r, chunk), NEW q, q = a \o TelnetTexts(chunk)
    PROVE  TelnetReading(r, e, s, u, a, chunk, t, q)
  <1>1. chunk \in Seq(TelnetRuns)
    BY TelnetAssumption DEF TelnetRuns
  <1>2. Base(Chunks.telnet, "open", t, e) /\ Known("open", e)
    <2>1. Open(Chunks.telnet, r, e) /\ Known("open", e)
      BY DEF TelnetOK, Open
    <2> QED BY <2>1, ReadingNothing
  <1>3. PICK done : TelnetSplit(a, <<>>, done) /\ TelnetDone("open", s, u, Names(e), done)
    BY DEF TelnetOK
  <1>4. done \in Seq(TelnetRuns) /\ a = done \o <<>>
    BY <1>3, TelnetNothing DEF TelnetSplit
  <1>5. a = done
    <2>1. IsLog(done)
      BY <1>4, SequenceIsLog
    <2> QED BY <1>4, <2>1, LogConcat
  <1>6. TelnetSplit(q, chunk, done)
    BY <1>4, <1>5 DEF TelnetSplit
  <1>7. TelnetOK("open", t, e, s, u, chunk, q)
    <2>1. s \in {"none", "Username", "Password"} /\ s # "none" /\ (s = "Username" => u = <<>>)
      BY DEF TelnetOK
    <2> QED BY <1>1, <1>2, <1>3, <1>6, <2>1 DEF TelnetOK
  <1>8. TelnetTexts(chunk) \in Seq(TelnetRuns)
    BY <1>1, DroppingType DEF TelnetTexts
  <1>9. IsLog(a) /\ IsLog(TelnetTexts(chunk))
    BY <1>4, <1>5, <1>8, SequenceIsLog
  <1> QED BY <1>7, <1>9, TelnetMore DEF TelnetReading

\* A command is passed over.
LEMMA TelnetPasses ==
    ASSUME NEW l, NEW r, NEW e, NEW s, NEW u, NEW b, NEW a, TelnetOK(l, r, e, s, u, b, a),
           b # <<>>, Head(b).kind = "command"
    PROVE  TelnetOK(l, r, e, s, u, Tail(b), a) /\ l \in {"open", "closing"}
  <1>1. b \in Seq(TelnetRuns) /\ l \in Links /\ l # "lost" /\ l # "none"
    BY DEF TelnetOK, Base
  <1>2. Tail(b) \in Seq(TelnetRuns) /\ TelnetTexts(b) = TelnetTexts(Tail(b))
    BY <1>1, TelnetHead
  <1>3. PICK done : TelnetSplit(a, b, done) /\ TelnetDone(l, s, u, Names(e), done)
    BY DEF TelnetOK
  <1>4. TelnetSplit(a, Tail(b), done)
    BY <1>2, <1>3 DEF TelnetSplit
  <1>5. TelnetOK(l, r, e, s, u, Tail(b), a)
    <2>1. /\ Base(Chunks.telnet, l, r, e) /\ Known(l, e)
          /\ s \in {"none", "Username", "Password"} /\ (s = "none" <=> l \in {"none", "lost"})
          /\ s = "Username" => l = "open" /\ u = <<>>
      BY DEF TelnetOK
    <2> QED BY <1>1, <1>2, <1>3, <1>4, <2>1 DEF TelnetOK
  <1>6. l \in {"open", "closing"}
    BY <1>1 DEF Links
  <1> QED BY <1>5, <1>6

\* The user name is passed on.
LEMMA TelnetHearsUser ==
    ASSUME NEW l, NEW r, NEW e, NEW u, NEW b, NEW a, TelnetOK(l, r, e, "Username", u, b, a),
           b # <<>>, Head(b).kind = "text", NEW v, v = Telnet!Answer(Head(b))
    PROVE  TelnetOK(l, r, e, "Password", v, Tail(b), a) /\ l = "open"
  <1>1. b \in Seq(TelnetRuns) /\ l = "open" /\ Base(Chunks.telnet, l, r, e) /\ Known(l, e)
    BY DEF TelnetOK
  <1>2. /\ Head(b) \in TelnetRuns /\ Tail(b) \in Seq(TelnetRuns) /\ TelnetTexts(Tail(b)) \in Seq(TelnetRuns)
        /\ TelnetTexts(b) = <<Head(b)>> \o TelnetTexts(Tail(b))
    BY <1>1, TelnetHead
  <1>3. PICK done : TelnetSplit(a, b, done) /\ TelnetDone(l, "Username", u, Names(e), done)
    BY DEF TelnetOK
  <1> DEFINE h == Head(b)  x == TelnetTexts(Tail(b))  more == Append(done, h)
  <1>4. done \in Seq(TelnetRuns) /\ a = done \o (<<h>> \o x) /\ done = <<>> /\ Names(e) = TelnetNames(done)
    BY <1>2, <1>3 DEF TelnetSplit, TelnetDone
  <1>5. Len(done) = 0
    BY <1>4, NoEntries, Zenon
  <1>6. h \in TelnetRuns /\ x \in Seq(TelnetRuns)
    BY <1>2
  <1> HIDE DEF h, x
  <1>7. /\ more \in Seq(TelnetRuns) /\ a = more \o x /\ Len(more) = Len(done) + 1
        /\ Len(done) = 0 => TelnetNames(more) = <<>> /\ TelnetNames(done) = <<>> /\ more[1] = h
    <2>1. TelnetGrows(done, h, x, a, more)
      BY <1>4, <1>6, TelnetAnswers
    <2> HIDE DEF more
    <2> QED BY <2>1 DEF TelnetGrows
  <1> HIDE DEF more
  <1>8. TelnetSplit(a, Tail(b), more)
    BY <1>7 DEF TelnetSplit, x
  <1>9. TelnetDone(l, "Password", v, Names(e), more)
    BY <1>4, <1>5, <1>7 DEF TelnetDone, h
  <1> QED BY <1>1, <1>2, <1>8, <1>9 DEF TelnetOK

\* A password is passed on and logged.
LEMMA TelnetHearsPassword ==
    ASSUME NEW l, NEW r, NEW e, NEW u, NEW b, NEW a, TelnetOK(l, r, e, "Password", u, b, a),
           b # <<>>, Head(b).kind = "text", NEW p, p = Telnet!Answer(Head(b)), NEW x, IsLogin(x, u, p),
           NEW f, f = Append(e, x)
    PROVE  TelnetHeard(l, r, e, u, b, a, f)
  <1>1. /\ b \in Seq(TelnetRuns) /\ l \in {"open", "closing"} /\ Base(Chunks.telnet, l, r, e) /\ Known(l, e)
        /\ r \in Seq(Chunks.telnet) /\ IsLog(e)
    BY DEF TelnetOK, Base, Links
  <1>2. /\ Head(b) \in TelnetRuns /\ Tail(b) \in Seq(TelnetRuns) /\ TelnetTexts(Tail(b)) \in Seq(TelnetRuns)
        /\ TelnetTexts(b) = <<Head(b)>> \o TelnetTexts(Tail(b))
    BY <1>1, TelnetHead
  <1>3. PICK done : TelnetSplit(a, b, done) /\ TelnetDone(l, "Password", u, Names(e), done)
    BY DEF TelnetOK
  <1> DEFINE h == Head(b)  z == TelnetTexts(Tail(b))  more == Append(done, h)
             y == <<Telnet!Answer(done[1]), Telnet!Answer(h)>>
  <1>4. /\ done \in Seq(TelnetRuns) /\ a = done \o (<<h>> \o z) /\ Names(e) = TelnetNames(done)
        /\ Len(done) > 0 /\ u = Telnet!Answer(done[1])
    BY <1>2, <1>3 DEF TelnetSplit, TelnetDone
  <1>5. h \in TelnetRuns /\ z \in Seq(TelnetRuns)
    BY <1>2
  <1>6. x.action = "login" /\ <<x.username, x.password>> = y
    BY <1>4 DEF IsLogin
  <1> HIDE DEF h, z
  <1>7. /\ more \in Seq(TelnetRuns) /\ a = more \o z /\ Len(more) = Len(done) + 1 /\ Len(done) \in Nat
        /\ Len(done) > 0 => more[1] = done[1] /\ TelnetNames(more) = Append(TelnetNames(done), y)
                            /\ y \in TelnetOffers(a)
    <2>1. TelnetGrows(done, h, z, a, more)
      BY <1>4, <1>5, TelnetAnswers
    <2> HIDE DEF more
    <2> QED BY <2>1 DEF TelnetGrows
  <1> HIDE DEF more, y
  <1>8. Enters(e, x, f)
    BY <1>1, EntersLog
  <1>9. IsLog(f) /\ Len(f) = Len(e) + 1 /\ Len(e) \in Nat /\ Names(f) = Append(Names(e), y)
    BY <1>6, <1>8 DEF Enters
  <1>10. Base(Chunks.telnet, "closing", r, f) /\ Known("closing", f)
    BY <1>1, <1>9 DEF Base, Known, Links
  <1>11. TelnetSplit(a, Tail(b), more)
    BY <1>7 DEF TelnetSplit, z
  <1>12. TelnetDone("closing", "Password", u, Names(f), more)
    BY <1>4, <1>7, <1>9 DEF TelnetDone
  <1>13. TelnetOK("closing", r, f, "Password", u, Tail(b), a)
    BY <1>2, <1>10, <1>11, <1>12 DEF TelnetOK
  <1> QED BY <1>1, <1>4, <1>7, <1>9, <1>13 DEF TelnetHeard

\* Every step of the honeypot keeps its invariant, and is one LoginCapture allows.
LEMMA TelnetStep ==
    ASSUME TelnetInv, Telnet!Next, UNCHANGED <<server, replies>>
    PROVE  TelnetInv' /\ \E c \in Conns : TelnetMoves(c)
  <1>0. Rows
    BY DEF TelnetInv
  <1>a. \A c \in Conns : TelnetOK(link[c], read[c], events[c], state[c], user[c], buffer[c], answers[c])
    BY DEF TelnetInv
  <1>1. ASSUME NEW c \in Conns, Telnet!ConnectionMade(c) PROVE TelnetInv' /\ TelnetMoves(c)
    <2>1. /\ link[c] = "none" /\ link'[c] = "open" /\ read'[c] = read[c] /\ events'[c] = Connected
          /\ state'[c] = "Username" /\ user'[c] = <<>> /\ buffer'[c] = buffer[c] /\ answers'[c] = answers[c]
          /\ Frame(c)
      BY <1>0, <1>1 DEF Telnet!ConnectionMade, Telnet!Accept, Connected, Rows, IsRow, Frame
    <2>2. read[c] = <<>> /\ events[c] = <<>> /\ buffer[c] = <<>> /\ answers[c] = <<>>
      BY <1>a, <2>1 DEF TelnetOK, Base
    <2>3. TelnetOK("open", <<>>, Connected, "Username", <<>>, <<>>, <<>>)
      BY TelnetComes
    <2>4. TelnetInv'
      BY <2>1, <2>2, <2>3, TelnetFrame
    <2> QED BY <2>1, <2>2, <2>4, Coming, NoEntries DEF TelnetMoves, Moved, Moves, PhaseOf
  <1>2. ASSUME NEW c \in Conns, Telnet!Lost(c) PROVE TelnetInv' /\ TelnetMoves(c)
    <2>1. /\ link[c] \in {"open", "closing"} /\ link'[c] = "lost" /\ read'[c] = read[c]
          /\ events'[c] = events[c] /\ state'[c] = "none" /\ user'[c] = <<>>
          /\ buffer[c] = <<>> /\ buffer'[c] = <<>> /\ answers'[c] = answers[c] /\ Frame(c)
      BY <1>0, <1>2 DEF Telnet!Lost, Telnet!ConnectionLost, Telnet!Idle, Rows, IsRow, Frame
    <2>2. TelnetOK(link[c], read[c], events[c], state[c], user[c], <<>>, answers[c])
      BY <1>a, <2>1
    <2>3. TelnetOK("lost", read[c], events[c], "none", <<>>, <<>>, answers[c])
      BY <2>1, <2>2, TelnetGoes
    <2>4. TelnetInv'
      BY <2>1, <2>3, TelnetFrame
    <2> QED BY <2>1, <2>4 DEF TelnetMoves, Moved, Moves, PhaseOf
  <1>3. ASSUME NEW c \in Conns, NEW chunk \in Chunks.telnet, Telnet!TransportReads(c, chunk)
        PROVE  TelnetInv' /\ TelnetMoves(c)
    <2>1. /\ link[c] = "open" /\ link'[c] = "open" /\ read'[c] = Append(read[c], chunk)
          /\ events'[c] = events[c] /\ state'[c] = state[c] /\ user'[c] = user[c]
          /\ buffer[c] = <<>> /\ buffer'[c] = chunk /\ answers'[c] = answers[c] \o Telnet!Texts(chunk) /\ Frame(c)
      BY <1>0, <1>3 DEF Telnet!TransportReads, Telnet!Received, Telnet!Idle, Rows, IsRow, Frame
    <2>2. Telnet!Texts(chunk) = TelnetTexts(chunk)
      BY DEF Telnet!Texts, TelnetTexts, Telnet!Dropping, Dropping, Telnet!At, At
    <2>3. TelnetOK("open", read[c], events[c], state[c], user[c], <<>>, answers[c])
      BY <1>a, <2>1
    <2>4. /\ TelnetOK("open", read'[c], events[c], state[c], user[c], chunk, answers'[c])
          /\ TelnetOffers(answers[c]) \subseteq TelnetOffers(answers'[c])
      <3>1. TelnetReading(read[c], events[c], state[c], user[c], answers[c], chunk, read'[c], answers'[c])
        BY <2>1, <2>2, <2>3, TelnetReads
      <3> QED BY <3>1 DEF TelnetReading
    <2>5. TelnetInv'
      BY <2>1, <2>4, TelnetFrame
    <2> QED BY <2>1, <2>4, <2>5 DEF TelnetMoves, Moved, Moves, PhaseOf
  <1>4. ASSUME NEW c \in Conns, Telnet!Command(c) PROVE TelnetInv' /\ TelnetMoves(c)
    <2>1. /\ link'[c] = link[c] /\ read'[c] = read[c]
          /\ events'[c] = events[c] /\ state'[c] = state[c] /\ user'[c] = user[c]
          /\ buffer[c] # <<>> /\ Head(buffer[c]).kind = "command"
          /\ buffer'[c] = Tail(buffer[c]) /\ answers'[c] = answers[c] /\ Frame(c)
      BY <1>0, <1>4 DEF Telnet!Command, Telnet!tcpVars, Rows, IsRow, Frame
    <2>2. /\ TelnetOK(link[c], read[c], events[c], state[c], user[c], Tail(buffer[c]), answers[c])
          /\ link[c] \in {"open", "closing"}
      BY <1>a, <2>1, TelnetPasses
    <2>3. TelnetInv'
      BY <2>1, <2>2, TelnetFrame
    <2> QED BY <2>1, <2>2, <2>3 DEF TelnetMoves, Moved, Moves, PhaseOf
  <1>5. ASSUME NEW c \in Conns, Telnet!UsernameReceived(c) PROVE TelnetInv' /\ TelnetMoves(c)
    <2>1. /\ link'[c] = link[c] /\ read'[c] = read[c]
          /\ events'[c] = events[c] /\ state[c] = "Username" /\ state'[c] = "Password"
          /\ user'[c] = Telnet!Answer(Head(buffer[c]))
          /\ buffer[c] # <<>> /\ Head(buffer[c]).kind = "text"
          /\ buffer'[c] = Tail(buffer[c]) /\ answers'[c] = answers[c] /\ Frame(c)
      BY <1>0, <1>5 DEF Telnet!UsernameReceived, Telnet!DataReceived, Telnet!tcpVars, Rows, IsRow, Frame
    <2>2. TelnetOK(link[c], read[c], events[c], "Username", user[c], buffer[c], answers[c])
      BY <1>a, <2>1
    <2>3. /\ TelnetOK(link[c], read[c], events[c], "Password", user'[c], Tail(buffer[c]), answers[c])
          /\ link[c] = "open"
      BY <2>1, <2>2, TelnetHearsUser
    <2>4. TelnetInv'
      BY <2>1, <2>3, TelnetFrame
    <2> QED BY <2>1, <2>3, <2>4 DEF TelnetMoves, Moved, Moves, PhaseOf
  <1>6. ASSUME NEW c \in Conns, Telnet!PasswordReceived(c) PROVE TelnetInv' /\ TelnetMoves(c)
    <2> DEFINE p == Telnet!Answer(Head(buffer[c]))  ok == Telnet!LoginIsCorrect(user[c], p)
               x == Entry(user[c], p, ok)
    <2>1. /\ link'[c] = "closing" /\ read'[c] = read[c]
          /\ events'[c] = Append(events[c], x) /\ state[c] = "Password" /\ state'[c] = "Password"
          /\ user'[c] = user[c]
          /\ buffer[c] # <<>> /\ Head(buffer[c]).kind = "text"
          /\ buffer'[c] = Tail(buffer[c]) /\ answers'[c] = answers[c] /\ Frame(c)
      BY <1>0, <1>6 DEF Telnet!PasswordReceived, Telnet!DataReceived, Telnet!CheckLogin, Telnet!Log, Telnet!LoginEvent,
                        Telnet!LoseConnection, Entry, Rows, IsRow, Frame
    <2>2. TelnetOK(link[c], read[c], events[c], "Password", user[c], buffer[c], answers[c])
      BY <1>a, <2>1
    <2>3. IsLogin(x, user[c], p)
      BY EntryIsLogin
    <2> HIDE DEF x, ok
    <2>h. p = Telnet!Answer(Head(buffer[c]))
      OBVIOUS
    <2> HIDE DEF p
    <2>4. /\ TelnetOK("closing", read[c], events'[c], "Password", user[c], Tail(buffer[c]), answers[c])
          /\ link[c] \in {"open", "closing"}
          /\ \E y \in TelnetOffers(answers[c]) : Names(events'[c]) = Append(Names(events[c]), y)
      <3>1. TelnetHeard(link[c], read[c], events[c], user[c], buffer[c], answers[c], events'[c])
        BY <2>1, <2>2, <2>3, <2>h, TelnetHearsPassword
      <3> QED BY <3>1 DEF TelnetHeard
    <2>5. TelnetInv'
      BY <2>1, <2>4, TelnetFrame
    <2> QED BY <2>1, <2>4, <2>5 DEF TelnetMoves, Moved, Moves, PhaseOf
  <1> QED BY <1>1, <1>2, <1>3, <1>4, <1>5, <1>6 DEF Telnet!Next

\* The invariant holds at the start.
LEMMA TelnetBegins ==
    ASSUME Telnet!Init, replies = Nothing
    PROVE  TelnetInv
  <1>1. /\ link = [c \in Conns |-> "none"] /\ read = [c \in Conns |-> <<>>]
        /\ events = [c \in Conns |-> <<>>] /\ state = [c \in Conns |-> "none"] /\ user = [c \in Conns |-> <<>>] /\ buffer = [c \in Conns |-> <<>>] /\ answers = [c \in Conns |-> <<>>]
    BY DEF Telnet!Init, Telnet!ConnectionsInit
  <1>2. Rows
    BY <1>1 DEF Rows, IsRow, Nothing
  <1>3. TelnetOK("none", <<>>, <<>>, "none", <<>>, <<>>, <<>>)
    BY TelnetComes
  <1> QED BY <1>1, <1>2, <1>3 DEF TelnetInv

\* The invariant implies the properties of the honeypot, and what is offered is what was said.
LEMMA TelnetSafe ==
    ASSUME TelnetInv
    PROVE  /\ Telnet!TypeOK /\ Telnet!AnswersAreLogged
           /\ \A c \in Conns : Telnet!Offered(c) = TelnetOffers(answers[c])
  <1>1. ASSUME NEW c \in Conns
        PROVE  /\ link[c] \in Links /\ read[c] \in Seq(Chunks.telnet)
               /\ link[c] = "none" <=> events[c] = <<>>
               /\ state[c] \in {"none", "Username", "Password"}
               /\ link[c] = "lost" => buffer[c] = <<>>
               /\ state[c] = "Username" => user[c] = <<>>
               /\ \E done : TelnetSplit(answers[c], buffer[c], done)
                            /\ TelnetDone(link[c], state[c], user[c], Names(events[c]), done)
    <2>1. TelnetOK(link[c], read[c], events[c], state[c], user[c], buffer[c], answers[c])
      BY DEF TelnetInv
    <2> QED BY <2>1, Basics DEF TelnetOK
  <1>2. Telnet!TypeOK
    BY <1>1 DEF TelnetInv, Rows, IsRow, Telnet!TypeOK, Telnet!ConnectionsTypeOK, Links
  <1>3. ASSUME NEW c \in Conns, buffer[c] = <<>>
        PROVE  /\ Telnet!Captured(c) =
                    [i \in 1 .. Len(answers[c]) - 1 |-> <<Telnet!Answer(answers[c][1]), Telnet!Answer(answers[c][i + 1])>>]
               /\ Len(answers[c]) > 1 => link[c] # "open"
    <2>1. PICK done : /\ TelnetSplit(answers[c], buffer[c], done)
                      /\ TelnetDone(link[c], state[c], user[c], Names(events[c]), done)
      BY <1>1
    <2>2. done \in Seq(TelnetRuns) /\ answers[c] = done \o <<>>
      BY <1>3, <2>1, TelnetNothing DEF TelnetSplit
    <2>3. answers[c] = done
      <3>1. IsLog(done)
        BY <2>2, SequenceIsLog
      <3> QED BY <2>2, <3>1, LogConcat
    <2>4. Names(events[c]) = TelnetNames(answers[c]) /\ (link[c] = "open" => Len(answers[c]) < 2)
      BY <2>1, <2>3 DEF TelnetDone
    <2>5. Len(answers[c]) \in Nat
      BY <2>2, <2>3
    <2> QED BY <2>4, <2>5, IsNames DEF TelnetNames
  <1>4. Telnet!AnswersAreLogged
    BY <1>3 DEF Telnet!AnswersAreLogged
  <1>5. \A c \in Conns : Telnet!Offered(c) = TelnetOffers(answers[c])
    BY DEF Telnet!Offered, TelnetOffers
  <1> QED BY <1>2, <1>4, <1>5

-------------------------------------------------------------------------------
(* pop3 (pop3_server.py:38-85): the user is kept if and only if a USER waits for its PASS *)

\* A USER that no later USER or PASS has used up.
Pop3Waits(r, j) ==
    /\ j \in DOMAIN r /\ Pop3!IsUser(r[j])
    /\ \A k \in DOMAIN r : k > j => ~Pop3!IsUser(r[k]) /\ ~Pop3!IsPass(r[k])

Pop3Answers(r, i, j) ==
    /\ j < i /\ Pop3!IsUser(r[j]) /\ Pop3!IsPass(r[i])
    /\ \A k \in j + 1 .. i - 1 : ~Pop3!IsUser(r[k]) /\ ~Pop3!IsPass(r[k])

Pop3Named(r, j) == r[j][2] # ""

Pop3Pairs(r) == {p \in (DOMAIN r) \X (DOMAIN r) : Pop3Answers(r, p[1], p[2]) /\ Pop3Named(r, p[2])}

Pop3Offers(r) == {<<r[p[2]][2], Tail(r[p[1]])>> : p \in Pop3Pairs(r)}

\* The user that waits for its password.
Pop3Pending(r, u) ==
    /\ u # NoUser => \E j \in DOMAIN r : Pop3Waits(r, j) /\ r[j] = <<"USER", u>>
    /\ u = NoUser => \A j \in DOMAIN r : ~Pop3Waits(r, j)

\* The pairs and the logins that were found.
Pop3Found(o, S, n) ==
    /\ IsFiniteSet(S) /\ Len(n) = Cardinality(S) /\ Elements(n) = o

Pop3OK(l, r, e, u, w) ==
    /\ Base(Chunks.pop3, l, r, e) /\ Known(l, e)
    /\ w \in [ok : Nat, err : Nat] /\ w.ok + w.err = Len(r)
    /\ l = "none" => w = [ok |-> 0, err |-> 0]
    /\ Pop3Pending(r, u)
    /\ Pop3Found(Pop3Offers(r), Pop3Pairs(r), Names(e))
    /\ Data(e, "command") = IF CaptureCommands THEN r ELSE <<>>

Pop3Inv == Rows /\ \A c \in Conns : Pop3OK(link[c], read[c], events[c], user[c], replies[c])

Pop3Moves(c) == Frame(c) /\ Moved(c, Pop3Offers(read[c]), Pop3Offers(read'[c]))

\* Of a step of one connection, only that one needs a look.
LEMMA Pop3Frame ==
    ASSUME Pop3Inv, NEW c \in Conns, Frame(c),
           Pop3OK(link'[c], read'[c], events'[c], user'[c], replies'[c])
    PROVE  Pop3Inv'
  BY DEF Pop3Inv, Frame

\* Of who has sent nothing.
LEMMA Pop3Nothing ==
    /\ \A u : u = NoUser => Pop3Pending(<<>>, u)
    /\ Pop3Found(Pop3Offers(<<>>), Pop3Pairs(<<>>), <<>>)
  <1>1. DOMAIN <<>> = {} /\ Len(<<>>) = 0
    OBVIOUS
  <1>2. Pop3Pairs(<<>>) = {}
    BY <1>1 DEF Pop3Pairs
  <1>3. Pop3Offers(<<>>) = {} /\ Elements(<<>>) = {}
    BY <1>1, <1>2 DEF Pop3Offers, Elements
  <1> QED BY <1>1, <1>2, <1>3, FS_EmptySet DEF Pop3Pending, Pop3Found

\* A connection nobody has made, and one that was just made.
LEMMA Pop3Comes ==
    /\ Pop3OK("none", <<>>, <<>>, NoUser, [ok |-> 0, err |-> 0])
    /\ Pop3OK("open", <<>>, Connected, NoUser, [ok |-> 0, err |-> 0])
  <1> DEFINE w == [ok |-> 0, err |-> 0]
  <1>1. w \in [ok : Nat, err : Nat] /\ w.ok + w.err = 0
    OBVIOUS
  <1>2. /\ Base(Chunks.pop3, "none", <<>>, <<>>) /\ Known("none", <<>>)
        /\ Base(Chunks.pop3, "open", <<>>, Connected) /\ Known("open", Connected)
        /\ Names(Connected) = <<>> /\ Data(Connected, "command") = <<>>
    BY Coming
  <1>3. Len(<<>>) = 0 /\ Names(<<>>) = <<>> /\ Data(<<>>, "command") = <<>>
    BY NoEntries
  <1> HIDE DEF w
  <1>4. /\ Pop3OK("none", <<>>, <<>>, NoUser, w) /\ Pop3OK("open", <<>>, Connected, NoUser, w)
    BY <1>1, <1>2, <1>3, Pop3Nothing DEF Pop3OK, w
  <1> QED BY <1>4 DEF w

\* A connection is lost.
LEMMA Pop3Goes ==
    ASSUME NEW l \in {"open", "closing"}, NEW r, NEW e, NEW u, NEW w, Pop3OK(l, r, e, u, w)
    PROVE  Pop3OK("lost", r, e, u, w)
  <1>1. Base(Chunks.pop3, "lost", r, e) /\ Known("lost", e)
    BY Going DEF Pop3OK
  <1> QED BY <1>1 DEF Pop3OK

\* The lines before the last one.
LEMMA Pop3Before ==
    ASSUME NEW r, NEW n, NEW chunk, NEW t, Grown(r, chunk, t, n), NEW i \in 1 .. n, NEW j \in 1 .. n
    PROVE  Pop3Answers(t, i, j) <=> Pop3Answers(r, i, j)
  <1>1. n \in Nat /\ \A k \in 1 .. n : t[k] = r[k]
    BY DEF Grown
  <1>2. \A k \in j + 1 .. i - 1 : k \in 1 .. n
    BY <1>1
  <1>3. \A k \in j + 1 .. i - 1 : t[k] = r[k]
    BY <1>1, <1>2
  <1> QED BY <1>1, <1>3 DEF Pop3Answers

\* Which USER is answered by a line at the end.
LEMMA Pop3Last ==
    ASSUME NEW r, NEW n, NEW chunk, NEW t, Grown(r, chunk, t, n), NEW j \in 1 .. n
    PROVE  Pop3Answers(t, n + 1, j) <=> Pop3!IsPass(chunk) /\ Pop3Waits(r, j)
  <1>1. /\ n \in Nat /\ DOMAIN r = 1 .. n /\ t[n + 1] = chunk
        /\ \A i \in 1 .. n : t[i] = r[i]
    BY DEF Grown
  <1>2. j < n + 1 /\ t[j] = r[j] /\ (n + 1) - 1 = n
    BY <1>1
  <1>3. \A k \in 1 .. n : k \in j + 1 .. n <=> k > j
    BY <1>1
  <1>4. \A k \in j + 1 .. n : k \in 1 .. n
    BY <1>1
  <1>5. \A k \in j + 1 .. n : t[k] = r[k]
    BY <1>1, <1>4
  <1> QED BY <1>1, <1>2, <1>3, <1>4, <1>5 DEF Pop3Answers, Pop3Waits

Pop3Has(r, i, j) == i \in DOMAIN r /\ j \in DOMAIN r /\ Pop3Answers(r, i, j) /\ Pop3Named(r, j)
Pop3Is(y, r, i, j) == y = <<r[j][2], Tail(r[i])>>

\* A pair of positions.
LEMMA Pop3Pair ==
    \A r, p : p \in Pop3Pairs(r) <=> p = <<p[1], p[2]>> /\ Pop3Has(r, p[1], p[2])
  BY DEF Pop3Pairs, Pop3Has

\* The pairs of one line more: the old ones, and those of the last line.
LEMMA Pop3More ==
    ASSUME NEW r, NEW n, NEW chunk, NEW t, Grown(r, chunk, t, n), NEW i, NEW j
    PROVE  Pop3Has(t, i, j) <=>
             \/ Pop3Has(r, i, j)
             \/ /\ i = n + 1 /\ j \in 1 .. n /\ Pop3!IsPass(chunk) /\ Pop3Waits(r, j) /\ Pop3Named(r, j)
  <1>1. /\ n \in Nat /\ DOMAIN r = 1 .. n /\ DOMAIN t = 1 .. n + 1
        /\ \A k \in 1 .. n : t[k] = r[k]
    BY DEF Grown
  <1>2. \A k \in 1 .. n : Pop3Named(t, k) <=> Pop3Named(r, k)
    BY <1>1 DEF Pop3Named
  <1>3. Pop3Has(r, i, j) <=> i \in 1 .. n /\ j \in 1 .. n /\ Pop3Answers(r, i, j) /\ Pop3Named(r, j)
    BY <1>1 DEF Pop3Has
  <1>4. Pop3Has(t, i, j) <=>
          i \in 1 .. n + 1 /\ j \in 1 .. n + 1 /\ Pop3Answers(t, i, j) /\ Pop3Named(t, j)
    BY <1>1 DEF Pop3Has
  <1>5. i \in 1 .. n + 1 /\ j \in 1 .. n + 1 /\ Pop3Answers(t, i, j) => j \in 1 .. n
    BY <1>1 DEF Pop3Answers
  <1>6. CASE i \in 1 .. n
    <2>1. j \in 1 .. n => (Pop3Answers(t, i, j) <=> Pop3Answers(r, i, j))
      BY <1>6, Pop3Before
    <2>2. i # n + 1 /\ i \in 1 .. n + 1 /\ (j \in 1 .. n => j \in 1 .. n + 1)
      BY <1>1, <1>6
    <2> QED BY <1>2, <1>3, <1>4, <1>5, <1>6, <2>1, <2>2
  <1>7. CASE i = n + 1
    <2>1. j \in 1 .. n => (Pop3Answers(t, n + 1, j) <=> Pop3!IsPass(chunk) /\ Pop3Waits(r, j))
      BY Pop3Last
    <2>2. i \notin 1 .. n /\ i \in 1 .. n + 1 /\ (j \in 1 .. n => j \in 1 .. n + 1)
      BY <1>1, <1>7
    <2> QED BY <1>2, <1>3, <1>4, <1>5, <1>7, <2>1, <2>2
  <1>8. CASE i \notin 1 .. n + 1
    <2>1. i \notin 1 .. n /\ i # n + 1
      BY <1>1, <1>8
    <2> QED BY <1>3, <1>4, <1>8, <2>1
  <1>9. i \in 1 .. n + 1 => i \in 1 .. n \/ i = n + 1
    BY <1>1
  <1> QED BY <1>6, <1>7, <1>8, <1>9

\* What is offered, by positions.
LEMMA Pop3Offer == \A r, y : y \in Pop3Offers(r) <=> \E i, k : Pop3Has(r, i, k) /\ Pop3Is(y, r, i, k)
  <1>1. \A r, y : y \in Pop3Offers(r) <=> \E p \in Pop3Pairs(r) : y = <<r[p[2]][2], Tail(r[p[1]])>>
    BY DEF Pop3Offers
  <1>2. \A r, p : p \in Pop3Pairs(r) => Pop3Has(r, p[1], p[2])
    BY Pop3Pair
  <1>3. ASSUME NEW r, NEW i, NEW k, Pop3Has(r, i, k)
        PROVE  \E p \in Pop3Pairs(r) : p[1] = i /\ p[2] = k
    <2> DEFINE p == <<i, k>>
    <2>1. p[1] = i /\ p[2] = k /\ p = <<p[1], p[2]>>
      OBVIOUS
    <2> HIDE DEF p
    <2>2. p \in Pop3Pairs(r)
      BY <1>3, <2>1, Pop3Pair
    <2> QED BY <2>1, <2>2
  <1> QED BY <1>1, <1>2, <1>3 DEF Pop3Is

\* The line of an old pair is where it was.
LEMMA Pop3Old ==
    ASSUME NEW r, NEW n, NEW chunk, NEW t, Grown(r, chunk, t, n), NEW i, NEW j, Pop3Has(r, i, j)
    PROVE  t[i] = r[i] /\ t[j] = r[j] /\ i # n + 1
  <1>1. i \in 1 .. n /\ j \in 1 .. n
    BY DEF Pop3Has, Grown
  <1> QED BY <1>1 DEF Grown

\* One pair more, for a PASS that has a user; and what it offers.
Pop3Gained(r, t, z, x) ==
    /\ Pop3Pairs(t) = Pop3Pairs(r) \union {z} /\ z \notin Pop3Pairs(r)
    /\ Pop3Offers(t) = Pop3Offers(r) \union {x}

\* What the last chunk adds to what is offered.
LEMMA Pop3Gains ==
    ASSUME NEW r, NEW n, NEW chunk, NEW t, Grown(r, chunk, t, n),
           NEW j \in DOMAIN r, Pop3Waits(r, j), Pop3Named(r, j), Pop3!IsPass(chunk)
    PROVE  Pop3Gained(r, t, <<n + 1, j>>, <<r[j][2], Tail(chunk)>>)
  <1> DEFINE z == <<n + 1, j>>
             new == <<r[j][2], Tail(chunk)>>
  <1>1. /\ n \in Nat /\ DOMAIN r = 1 .. n /\ t[n + 1] = chunk /\ t[j] = r[j] /\ j \in 1 .. n
    BY DEF Grown
  <1>2. \A k \in 1 .. n : Pop3Waits(r, k) => k = j
    BY <1>1 DEF Pop3Waits, Pop3!IsUser, Pop3!IsPass
  <1>3. z[1] = n + 1 /\ z[2] = j /\ \A p : p = <<p[1], p[2]>> /\ p[1] = n + 1 /\ p[2] = j => p = z
    OBVIOUS
  <1>4. ASSUME NEW i, NEW k
        PROVE  Pop3Has(t, i, k) <=> Pop3Has(r, i, k) \/ (i = n + 1 /\ k = j)
    <2>1. Pop3Has(t, i, k) <=>
             \/ Pop3Has(r, i, k)
             \/ i = n + 1 /\ k \in 1 .. n /\ Pop3!IsPass(chunk) /\ Pop3Waits(r, k) /\ Pop3Named(r, k)
      BY Pop3More
    <2> QED BY <1>1, <1>2, <2>1, Zenon
  <1>5. ASSUME NEW i, NEW k, Pop3Has(r, i, k) PROVE t[i] = r[i] /\ t[k] = r[k] /\ i # n + 1
    BY <1>5, Pop3Old
  <1>6. z \notin Pop3Pairs(r)
    BY <1>3, <1>5, Pop3Pair
  <1>7. z = <<z[1], z[2]>>
    OBVIOUS
  <1> HIDE DEF z
  <1>8. Pop3Pairs(t) = Pop3Pairs(r) \union {z}
    <2>1. ASSUME NEW p PROVE p \in Pop3Pairs(t) <=> p \in Pop3Pairs(r) \/ p = z
      <3>1. p \in Pop3Pairs(t) <=> p = <<p[1], p[2]>> /\ Pop3Has(t, p[1], p[2])
        BY Pop3Pair
      <3>2. p \in Pop3Pairs(r) <=> p = <<p[1], p[2]>> /\ Pop3Has(r, p[1], p[2])
        BY Pop3Pair
      <3>3. Pop3Has(t, p[1], p[2]) <=> Pop3Has(r, p[1], p[2]) \/ (p[1] = n + 1 /\ p[2] = j)
        BY <1>4
      <3> QED BY <1>3, <1>7, <3>1, <3>2, <3>3, Zenon
    <2> QED BY <2>1
  <1>9. new = <<t[j][2], Tail(t[n + 1])>>
    BY <1>1
  <1>10. ASSUME NEW y
         PROVE  y \in Pop3Offers(t) <=> y \in Pop3Offers(r) \/ y = new
    <2>1. y \in Pop3Offers(t) <=> \E i, k : Pop3Has(t, i, k) /\ Pop3Is(y, t, i, k)
      BY Pop3Offer
    <2>2. y \in Pop3Offers(r) <=> \E i, k : Pop3Has(r, i, k) /\ Pop3Is(y, r, i, k)
      BY Pop3Offer
    <2>3. y = new <=> Pop3Is(y, t, n + 1, j)
      BY <1>9 DEF Pop3Is
    <2>4. \A i, k : Pop3Has(r, i, k) => (Pop3Is(y, t, i, k) <=> Pop3Is(y, r, i, k))
      BY <1>5 DEF Pop3Is
    <2> HIDE DEF new
    <2> QED BY <1>4, <2>1, <2>2, <2>3, <2>4, Zenon
  <1> HIDE DEF new
  <1>11. Pop3Offers(t) = Pop3Offers(r) \union {new}
    BY <1>10
  <1> QED BY <1>6, <1>8, <1>11 DEF z, new, Pop3Gained

\* No pair more.
LEMMA Pop3Stays ==
    ASSUME NEW r, NEW n, NEW chunk, NEW t, Grown(r, chunk, t, n),
           Pop3!IsPass(chunk) => \A j \in DOMAIN r : Pop3Waits(r, j) => ~Pop3Named(r, j)
    PROVE  Pop3Pairs(t) = Pop3Pairs(r) /\ Pop3Offers(t) = Pop3Offers(r)
  <1>1. n \in Nat /\ DOMAIN r = 1 .. n
    BY DEF Grown
  <1>2. ASSUME NEW i, NEW k PROVE Pop3Has(t, i, k) <=> Pop3Has(r, i, k)
    <2>1. Pop3Has(t, i, k) <=>
             \/ Pop3Has(r, i, k)
             \/ i = n + 1 /\ k \in 1 .. n /\ Pop3!IsPass(chunk) /\ Pop3Waits(r, k) /\ Pop3Named(r, k)
      BY Pop3More
    <2> QED BY <1>1, <2>1
  <1>3. \A p : p \in Pop3Pairs(t) <=> p \in Pop3Pairs(r)
    BY <1>2, Pop3Pair
  <1>5. ASSUME NEW y PROVE y \in Pop3Offers(t) <=> y \in Pop3Offers(r)
    <2>1. y \in Pop3Offers(t) <=> \E i, k : Pop3Has(t, i, k) /\ Pop3Is(y, t, i, k)
      BY Pop3Offer
    <2>2. y \in Pop3Offers(r) <=> \E i, k : Pop3Has(r, i, k) /\ Pop3Is(y, r, i, k)
      BY Pop3Offer
    <2>3. ASSUME NEW i, NEW k, Pop3Has(r, i, k) PROVE Pop3Is(y, t, i, k) <=> Pop3Is(y, r, i, k)
      BY <2>3, Pop3Old DEF Pop3Is
    <2> QED BY <1>2, <2>1, <2>2, <2>3
  <1>6. Pop3Pairs(t) = Pop3Pairs(r)
    BY <1>3
  <1>7. Pop3Offers(t) = Pop3Offers(r)
    BY <1>5
  <1> QED BY <1>6, <1>7

\* Who waits after one more line.
LEMMA Pop3Waiting ==
    ASSUME NEW r, NEW n, NEW chunk, NEW t, Grown(r, chunk, t, n)
    PROVE  /\ Pop3!IsUser(chunk) => n + 1 \in DOMAIN t /\ Pop3Waits(t, n + 1) /\ t[n + 1] = chunk
           /\ Pop3!IsPass(chunk) => \A j \in DOMAIN t : ~Pop3Waits(t, j)
           /\ ~Pop3!IsUser(chunk) /\ ~Pop3!IsPass(chunk) =>
                 /\ \A j \in DOMAIN r : Pop3Waits(r, j) => j \in DOMAIN t /\ Pop3Waits(t, j) /\ t[j] = r[j]
                 /\ \A j \in DOMAIN t : Pop3Waits(t, j) => j \in DOMAIN r /\ Pop3Waits(r, j)
  <1>1. /\ n \in Nat /\ DOMAIN r = 1 .. n /\ DOMAIN t = 1 .. n + 1 /\ t[n + 1] = chunk
        /\ \A i \in 1 .. n : t[i] = r[i]
    BY DEF Grown
  <1>2. \A x : ~(Pop3!IsUser(x) /\ Pop3!IsPass(x))
    BY DEF Pop3!IsUser, Pop3!IsPass
  <1>3. n + 1 \in DOMAIN t /\ \A j \in 1 .. n : n + 1 > j
    BY <1>1
  <1>4. Pop3!IsUser(chunk) => Pop3Waits(t, n + 1)
    <2>1. \A k \in 1 .. n + 1 : ~(k > n + 1)
      BY <1>1
    <2> QED BY <1>1, <1>3, <2>1 DEF Pop3Waits
  <1>5. Pop3!IsPass(chunk) => \A j \in DOMAIN t : ~Pop3Waits(t, j)
    <2>1. \A j \in 1 .. n + 1 : j = n + 1 \/ n + 1 > j
      BY <1>1
    <2> QED BY <1>1, <1>2, <1>3, <2>1 DEF Pop3Waits
  <1>6. ASSUME ~Pop3!IsUser(chunk), ~Pop3!IsPass(chunk), NEW j \in DOMAIN r, Pop3Waits(r, j)
        PROVE  j \in DOMAIN t /\ Pop3Waits(t, j) /\ t[j] = r[j]
    <2>1. j \in 1 .. n + 1 /\ t[j] = r[j]
      BY <1>1, <1>6
    <2>2. \A k \in 1 .. n + 1 : k \in 1 .. n \/ k = n + 1
      BY <1>1
    <2> QED BY <1>1, <1>6, <2>1, <2>2 DEF Pop3Waits
  <1>7. ASSUME ~Pop3!IsUser(chunk), ~Pop3!IsPass(chunk), NEW j \in DOMAIN t, Pop3Waits(t, j)
        PROVE  j \in DOMAIN r /\ Pop3Waits(r, j)
    <2>1. j \in 1 .. n \/ j = n + 1
      BY <1>1
    <2>2. j \in 1 .. n
      BY <1>1, <1>7, <2>1 DEF Pop3Waits
    <2>3. \A k \in 1 .. n : k \in 1 .. n + 1 /\ t[k] = r[k]
      BY <1>1
    <2> QED BY <1>1, <1>7, <2>2, <2>3 DEF Pop3Waits
  <1> QED BY <1>1, <1>3, <1>4, <1>5, <1>6, <1>7

\* A line that is let pass.
LEMMA WordPair ==
    ASSUME NEW line \in Seq(STRING), Len(line) = 2
    PROVE  line = <<line[1], line[2]>>
  OBVIOUS

\* A USER with its name.
LEMMA Pop3Word ==
    ASSUME NEW chunk \in Chunks.pop3, Pop3!IsUser(chunk)
    PROVE  chunk = <<"USER", chunk[2]>> /\ chunk[2] # NoUser
  <1>1. chunk \in Seq(STRING) /\ Len(chunk) = 2 /\ chunk[1] = "USER"
        /\ \A i \in DOMAIN chunk : chunk[i] # NoUser
    BY LinesAssumption DEF Pop3!IsUser
  <1>2. 2 \in DOMAIN chunk
    BY <1>1
  <1>3. chunk = <<chunk[1], chunk[2]>>
    BY <1>1, WordPair
  <1> QED BY <1>1, <1>2, <1>3

Pop3Becomes(chunk, u, v) ==
    v = IF Pop3!IsUser(chunk) THEN chunk[2] ELSE IF Pop3!IsPass(chunk) THEN NoUser ELSE u

\* The user that is kept is the one that waits.
LEMMA Pop3Next ==
    ASSUME NEW r, NEW n, NEW chunk \in Chunks.pop3, NEW t, Grown(r, chunk, t, n), NEW u, Pop3Pending(r, u), NEW v,
           Pop3Becomes(chunk, u, v)
    PROVE  Pop3Pending(t, v)
  <1>1. CASE Pop3!IsUser(chunk)
    <2>1. v # NoUser /\ chunk = <<"USER", v>>
      BY <1>1, Pop3Word DEF Pop3Becomes
    <2> DEFINE k == n + 1
    <2>2. k \in DOMAIN t /\ Pop3Waits(t, k) /\ t[k] = chunk
      BY <1>1, Pop3Waiting
    <2> HIDE DEF k
    <2> QED BY <2>1, <2>2 DEF Pop3Pending
  <1>2. CASE ~Pop3!IsUser(chunk) /\ Pop3!IsPass(chunk)
    <2>1. v = NoUser
      BY <1>2 DEF Pop3Becomes
    <2>2. \A j \in DOMAIN t : ~Pop3Waits(t, j)
      BY <1>2, Pop3Waiting
    <2> QED BY <2>1, <2>2 DEF Pop3Pending
  <1>3. CASE ~Pop3!IsUser(chunk) /\ ~Pop3!IsPass(chunk)
    <2>1. v = u
      BY <1>3 DEF Pop3Becomes
    <2>2. /\ \A j \in DOMAIN r : Pop3Waits(r, j) => j \in DOMAIN t /\ Pop3Waits(t, j) /\ t[j] = r[j]
          /\ \A j \in DOMAIN t : Pop3Waits(t, j) => j \in DOMAIN r /\ Pop3Waits(r, j)
      BY <1>3, Pop3Waiting
    <2> QED BY <2>1, <2>2 DEF Pop3Pending
  <1> QED BY <1>1, <1>2, <1>3

\* The login that is logged.
LEMMA Pop3Finds ==
    ASSUME NEW r, NEW m, NEW chunk, NEW t, Grown(r, chunk, t, m),
           NEW n, IsLog(n), Pop3Found(Pop3Offers(r), Pop3Pairs(r), n), NEW u, Pop3Pending(r, u),
           Pop3!IsPass(chunk), u # NoUser, u # "",
           NEW q, q = Append(n, <<u, Tail(chunk)>>)
    PROVE  /\ Pop3Found(Pop3Offers(t), Pop3Pairs(t), q)
           /\ Pop3Offers(r) \subseteq Pop3Offers(t) /\ <<u, Tail(chunk)>> \in Pop3Offers(t)
  <1>1. PICK j \in DOMAIN r : Pop3Waits(r, j) /\ r[j] = <<"USER", u>>
    BY DEF Pop3Pending
  <1>2. r[j][2] = u
    <2>1. <<"USER", u>>[2] = u
      OBVIOUS
    <2> QED BY <1>1, <2>1
  <1> DEFINE z == <<m + 1, j>>
             x == <<u, Tail(chunk)>>
  <1>3. /\ Pop3Pairs(t) = Pop3Pairs(r) \union {z} /\ z \notin Pop3Pairs(r)
        /\ Pop3Offers(t) = Pop3Offers(r) \union {x}
    <2>1. Pop3Named(r, j)
      BY <1>2 DEF Pop3Named
    <2> HIDE DEF z, x
    <2>2. Pop3Gained(r, t, <<m + 1, j>>, <<r[j][2], Tail(chunk)>>)
      <3>1. j \in DOMAIN r /\ Pop3Waits(r, j)
        BY <1>1
      <3> QED BY <2>1, <3>1, Pop3Gains
    <2> QED BY <1>2, <2>2 DEF z, x, Pop3Gained
  <1> HIDE DEF z, x
  <1>4. q = Append(n, x)
    BY DEF x
  <1>5. Elements(q) = Elements(n) \union {x}
    BY <1>4, ElementsAppend
  <1>6. Len(q) = Len(n) + 1
    BY <1>4, LogAppend
  <1> DEFINE S == Pop3Pairs(r)
  <1>7. IsFiniteSet(S)
    BY DEF Pop3Found
  <1> HIDE DEF S
  <1>8. IsFiniteSet(S \union {z}) /\ (z \notin S => Cardinality(S \union {z}) = Cardinality(S) + 1)
    BY <1>7, FS_AddElement
  <1>9. IsFiniteSet(Pop3Pairs(t)) /\ Cardinality(Pop3Pairs(t)) = Cardinality(Pop3Pairs(r)) + 1
    BY <1>3, <1>8 DEF S
  <1> QED BY <1>3, <1>5, <1>6, <1>9 DEF Pop3Found, x

\* Every reply is counted.
Pop3Counts(w, z) ==
    z \in [ok : Nat, err : Nat] /\ z.ok + z.err = w.ok + w.err + 1

\* What a line and the user who waits make of the log.
Pop3Logs(chunk, u, es) ==
    es = IF Pop3!IsPass(chunk) /\ u \notin {NoUser, ""}
         THEN Line(chunk) \o <<Entry(u, Tail(chunk), Pop3!LoginIsCorrect(u, Tail(chunk)))>>
         ELSE Line(chunk)

\* What is read, and what it makes of the connection.
LEMMA Pop3Reads ==
    ASSUME NEW r, NEW e, NEW u, NEW w, Pop3OK("open", r, e, u, w), NEW chunk \in Chunks.pop3,
           NEW t, t = Append(r, chunk), NEW es, NEW f, f = e \o es,
           NEW z, Pop3Counts(w, z),
           NEW v, Pop3Becomes(chunk, u, v), Pop3Logs(chunk, u, es)
    PROVE  /\ Pop3OK("open", t, f, v, z)
           /\ Moves("open", "open", Pop3Offers(r), Pop3Offers(t), Names(e), Names(f))
  <1> DEFINE p == Tail(chunk)
             logs == Pop3!IsPass(chunk) /\ u \notin {NoUser, ""}
  <1>1. /\ Open(Chunks.pop3, r, e) /\ Known("open", e) /\ IsLog(r) /\ IsLog(e)
        /\ r \in Seq(Chunks.pop3)
    BY SequenceIsLog DEF Pop3OK, Open, Base
  <1>2. /\ w \in [ok : Nat, err : Nat] /\ w.ok + w.err = Len(r) /\ Pop3Pending(r, u)
        /\ Pop3Found(Pop3Offers(r), Pop3Pairs(r), Names(e))
        /\ Data(e, "command") = IF CaptureCommands THEN r ELSE <<>>
    BY DEF Pop3OK
  <1>3. IsLog(Names(e)) /\ Grown(r, chunk, t, Len(r))
    BY <1>1, EntryType, Growing
  <1>4. /\ IsLog(es) /\ Data(es, "command") = ToCapture(chunk)
        /\ logs => Names(es) = <<<<u, p>>>>
        /\ ~logs => Names(es) = <<>>
    <2> HIDE DEF p
    <2>1. CASE logs
      <3>1. es = Line(chunk) \o <<Entry(u, p, Pop3!LoginIsCorrect(u, p))>>
        BY <2>1 DEF p, Pop3Logs
      <3> DEFINE ok == Pop3!LoginIsCorrect(u, p)
      <3> HIDE DEF ok
      <3>2. es = Line(chunk) \o <<Entry(u, p, ok)>>
        BY <3>1 DEF ok
      <3>3. /\ IsLog(es) /\ Names(es) = <<<<u, p>>>> /\ Data(es, "command") = ToCapture(chunk)
        BY <3>2, LineAndLogin
      <3> QED BY <2>1, <3>3
    <2>2. CASE ~logs
      <3>1. es = Line(chunk)
        BY <2>2 DEF Pop3Logs
      <3> QED BY <2>2, <3>1, LineEntries
    <2> QED BY <2>1, <2>2
  <1>5. z \in [ok : Nat, err : Nat] /\ z.ok + z.err = Len(t)
    <2>1. Len(t) = Len(r) + 1
      BY <1>1, LogAppend
    <2> QED BY <1>2, <2>1 DEF Pop3Counts
  <1>6. Pop3Pending(t, v)
    BY <1>2, <1>3, Pop3Next
  <1> HIDE DEF p
  <1>7. /\ Base(Chunks.pop3, "open", t, f) /\ Known("open", f)
        /\ ~logs => Names(f) = Names(e)
        /\ logs => Names(f) = Append(Names(e), <<u, p>>)
        /\ Data(f, "command") = Data(e, "command") \o ToCapture(chunk)
    <2>1. Entered(Chunks.pop3, "open", t, e, es, f)
      BY <1>1, <1>4, ReadingEntries
    <2> QED BY <1>4, <2>1 DEF Entered
  <1>8. Data(f, "command") = IF CaptureCommands THEN t ELSE <<>>
    <2>1. r \o <<chunk>> = t /\ <<>> \o <<>> = <<>>
      <3>1. r \o <<chunk>> = Append(r, chunk)
        BY <1>1, LogConcat, NoEntries
      <3>2. <<>> \o <<>> = <<>>
        BY NoEntries, LogConcat
      <3> QED BY <3>1, <3>2
    <2> QED BY <1>2, <1>7, <2>1, Zenon DEF ToCapture
  <1>9. CASE logs
    <2>1. Names(f) = Append(Names(e), <<u, Tail(chunk)>>) /\ Pop3!IsPass(chunk) /\ u # NoUser /\ u # ""
      BY <1>7, <1>9 DEF p
    <2>2. /\ Pop3Found(Pop3Offers(t), Pop3Pairs(t), Names(f))
          /\ Pop3Offers(r) \subseteq Pop3Offers(t) /\ <<u, Tail(chunk)>> \in Pop3Offers(t)
      BY <1>2, <1>3, <2>1, Pop3Finds
    <2>3. Pop3OK("open", t, f, v, z)
      BY <1>5, <1>6, <1>7, <1>8, <2>2 DEF Pop3OK
    <2> QED BY <2>1, <2>2, <2>3 DEF Moves, PhaseOf
  <1>10. CASE ~logs
    <2>1. Pop3!IsPass(chunk) => \A j \in DOMAIN r : Pop3Waits(r, j) => ~Pop3Named(r, j)
      <3> SUFFICES ASSUME Pop3!IsPass(chunk), NEW j \in DOMAIN r, Pop3Waits(r, j) PROVE r[j][2] = ""
        BY DEF Pop3Named
      <3>1. u # NoUser /\ u = ""
        BY <1>2, <1>10 DEF Pop3Pending
      <3>2. PICK i \in DOMAIN r : Pop3Waits(r, i) /\ r[i] = <<"USER", u>>
        BY <1>2, <3>1 DEF Pop3Pending
      <3>3. i = j
        <4>1. i \in Nat /\ j \in Nat
          BY <1>3 DEF Grown
        <4>2. ~(i > j) /\ ~(j > i)
          BY <3>2 DEF Pop3Waits
        <4> QED BY <4>1, <4>2
      <3>4. <<"USER", u>>[2] = u
        OBVIOUS
      <3> QED BY <3>1, <3>2, <3>3, <3>4
    <2>2. Pop3Pairs(t) = Pop3Pairs(r) /\ Pop3Offers(t) = Pop3Offers(r)
      BY <1>3, <2>1, Pop3Stays
    <2>3. Names(f) = Names(e)
      BY <1>7, <1>10
    <2>4. Pop3OK("open", t, f, v, z)
      BY <1>2, <1>5, <1>6, <1>7, <1>8, <2>2, <2>3 DEF Pop3OK
    <2> QED BY <2>2, <2>3, <2>4 DEF Moves, PhaseOf
  <1> QED BY <1>9, <1>10

\* Every step of the honeypot keeps its invariant, and is one LoginCapture allows.
LEMMA Pop3Step ==
    ASSUME Pop3Inv, Pop3!Next, UNCHANGED <<server, state, buffer, answers>>
    PROVE  Pop3Inv' /\ \E c \in Conns : Pop3Moves(c)
  <1>0. Rows
    BY DEF Pop3Inv
  <1>1. ASSUME NEW c \in Conns, Pop3!ConnectionMade(c) PROVE Pop3Inv' /\ Pop3Moves(c)
    <2>1. /\ link[c] = "none" /\ link'[c] = "open" /\ read'[c] = read[c] /\ events'[c] = Connected
          /\ user'[c] = NoUser /\ replies'[c] = replies[c] /\ Frame(c)
      BY <1>0, <1>1 DEF Pop3!ConnectionMade, Pop3!Accept, Connected, Rows, IsRow, Frame
    <2>2. Pop3OK("none", read[c], events[c], user[c], replies[c])
      BY <2>1 DEF Pop3Inv
    <2>3. read[c] = <<>> /\ events[c] = <<>> /\ replies[c] = [ok |-> 0, err |-> 0]
      BY <2>2 DEF Pop3OK, Base
    <2>4. Pop3OK("open", <<>>, Connected, NoUser, [ok |-> 0, err |-> 0])
      BY Pop3Comes
    <2>5. Pop3Inv'
      BY <2>1, <2>3, <2>4, Pop3Frame
    <2> QED BY <2>1, <2>3, <2>5, Coming, NoEntries DEF Pop3Moves, Moved, Moves, PhaseOf
  <1>2. ASSUME NEW c \in Conns, Pop3!Lost(c) PROVE Pop3Inv' /\ Pop3Moves(c)
    <2>1. /\ link[c] \in {"open", "closing"} /\ link'[c] = "lost" /\ read'[c] = read[c]
          /\ events'[c] = events[c] /\ user'[c] = user[c] /\ replies'[c] = replies[c] /\ Frame(c)
      BY <1>0, <1>2 DEF Pop3!Lost, Pop3!ConnectionLost, Rows, IsRow, Frame
    <2>2. Pop3OK(link[c], read[c], events[c], user[c], replies[c])
      BY DEF Pop3Inv
    <2>3. Pop3OK("lost", read[c], events[c], user[c], replies[c])
      BY <2>1, <2>2, Pop3Goes
    <2>4. Pop3Inv'
      BY <2>1, <2>3, Pop3Frame
    <2> QED BY <2>1, <2>4 DEF Pop3Moves, Moved, Moves, PhaseOf
  <1>3. ASSUME NEW c \in Conns, NEW chunk \in Chunks.pop3,
               Pop3!DoUser(c, chunk) \/ Pop3!DoPass(c, chunk) \/ Pop3!BadCommand(c, chunk)
        PROVE  Pop3Inv' /\ Pop3Moves(c)
    <2> DEFINE u == user[c]
               es == IF Pop3!IsPass(chunk) /\ u \notin {NoUser, ""}
                     THEN Line(chunk) \o <<Entry(u, Tail(chunk), Pop3!LoginIsCorrect(u, Tail(chunk)))>>
                     ELSE Line(chunk)
    <2>1. /\ link[c] = "open" /\ read'[c] = Append(read[c], chunk) /\ Frame(c) /\ link'[c] = "open"
          /\ \/ replies'[c] = [replies[c] EXCEPT !.ok = @ + 1]
             \/ replies'[c] = [replies[c] EXCEPT !.err = @ + 1]
          /\ user'[c] = IF Pop3!IsUser(chunk) THEN chunk[2] ELSE IF Pop3!IsPass(chunk) THEN NoUser ELSE u
      BY <1>0, <1>3 DEF Pop3!DoUser, Pop3!DoPass, Pop3!BadCommand, Pop3!Received, Pop3!LogAll, Pop3!Ok, Pop3!Error,
                        Pop3!IsUser, Pop3!IsPass, Rows, IsRow, Frame
    <2>2. events'[c] = events[c] \o es
      <3>1. CASE Pop3!DoPass(c, chunk)
        <4> DEFINE login == <<Entry(u, Tail(chunk), Pop3!LoginIsCorrect(u, Tail(chunk)))>>
        <4>1. /\ Pop3!IsPass(chunk)
              /\ events'[c] = events[c] \o (Line(chunk) \o (IF u \in {NoUser, ""} THEN <<>> ELSE login))
          BY <1>0, <3>1 DEF Pop3!DoPass, Pop3!LogAll, Pop3!Command, Pop3!LoginEvent, Entry, Line, Pop3!IsPass, Rows, IsRow
        <4> HIDE DEF login
        <4>2. Line(chunk) \o <<>> = Line(chunk)
          BY LineEntries, LogConcat, NoEntries
        <4> QED BY <4>1, <4>2 DEF login
      <3>2. CASE Pop3!DoUser(c, chunk) \/ Pop3!BadCommand(c, chunk)
        <4>1. ~Pop3!IsPass(chunk) /\ events'[c] = events[c] \o Line(chunk)
          BY <1>0, <3>2 DEF Pop3!DoUser, Pop3!BadCommand, Pop3!LogAll, Pop3!Command, Line, Pop3!IsPass, Rows, IsRow
        <4> QED BY <4>1
      <3> QED BY <1>3, <3>1, <3>2
    <2>3. Pop3OK("open", read[c], events[c], u, replies[c])
      BY <2>1 DEF Pop3Inv
    <2>4. Pop3Counts(replies[c], replies'[c])
      <3>1. replies[c] \in [ok : Nat, err : Nat]
        BY <2>3 DEF Pop3OK
      <3> DEFINE w == replies[c]  z == replies'[c]
      <3>2. w \in [ok : Nat, err : Nat] /\ (z = [w EXCEPT !.ok = @ + 1] \/ z = [w EXCEPT !.err = @ + 1])
        BY <2>1, <3>1
      <3> HIDE DEF w, z
      <3>3. z \in [ok : Nat, err : Nat] /\ z.ok + z.err = w.ok + w.err + 1
        BY <3>2
      <3> QED BY <3>3 DEF Pop3Counts, w, z
    <2>a. Pop3Logs(chunk, u, es) /\ Pop3Becomes(chunk, u, user'[c])
      BY <2>1 DEF Pop3Logs, Pop3Becomes
    <2> HIDE DEF u, es
    <2>5. /\ Pop3OK("open", read'[c], events'[c], user'[c], replies'[c])
          /\ Moves("open", "open", Pop3Offers(read[c]), Pop3Offers(read'[c]), Names(events[c]), Names(events'[c]))
      BY <2>1, <2>2, <2>3, <2>4, <2>a, Pop3Reads
    <2>6. Pop3Inv'
      BY <2>1, <2>5, Pop3Frame
    <2> QED BY <2>1, <2>5, <2>6 DEF Pop3Moves, Moved
  <1> QED BY <1>1, <1>2, <1>3 DEF Pop3!Next

\* The invariant holds at the start.
LEMMA Pop3Begins ==
    ASSUME Pop3!Init, state = Nothing, buffer = Nothing, answers = Nothing
    PROVE  Pop3Inv
  <1>1. /\ link = [c \in Conns |-> "none"] /\ read = [c \in Conns |-> <<>>]
        /\ events = [c \in Conns |-> <<>>] /\ user = [c \in Conns |-> NoUser] /\ replies = [c \in Conns |-> [ok |-> 0, err |-> 0]]
    BY DEF Pop3!Init, Pop3!ConnectionsInit
  <1>2. Rows
    BY <1>1 DEF Rows, IsRow, Nothing
  <1>3. Pop3OK("none", <<>>, <<>>, NoUser, [ok |-> 0, err |-> 0])
    BY Pop3Comes
  <1> QED BY <1>1, <1>2, <1>3 DEF Pop3Inv

\* The invariant implies the properties of the honeypot, and what is offered is what was said.
LEMMA Pop3Safe ==
    ASSUME Pop3Inv
    PROVE  /\ Pop3!TypeOK /\ Pop3!EveryPairIsLogged
           /\ \A c \in Conns : /\ Pop3!Offered(c) = Pop3Offers(read[c])
                               /\ Pop3!Commands(c) = Pop3!ToCapture(c)
  <1>1. ASSUME NEW c \in Conns
        PROVE  /\ link[c] \in Links /\ read[c] \in Seq(Chunks.pop3)
               /\ link[c] = "none" <=> events[c] = <<>>
               /\ replies[c].ok + replies[c].err = Len(read[c])
               /\ user[c] # NoUser => \E i \in DOMAIN read[c] : read[c][i] = <<"USER", user[c]>>
               /\ Pop3Found(Pop3Offers(read[c]), Pop3Pairs(read[c]), Names(events[c]))
               /\ Data(events[c], "command") = IF CaptureCommands THEN read[c] ELSE <<>>
    <2>1. Pop3OK(link[c], read[c], events[c], user[c], replies[c])
      BY DEF Pop3Inv
    <2> QED BY <2>1, Basics DEF Pop3OK, Pop3Pending
  <1>2. Pop3!TypeOK
    BY <1>1 DEF Pop3Inv, Rows, IsRow, Pop3!TypeOK, Pop3!ConnectionsTypeOK, Links
  <1>3. \A c \in Conns : Pop3!Captured(c) = Names(events[c])
    BY IsNames DEF Pop3!Captured, Telnet!Captured, Pop3!Logins, Telnet!Logins, Pop3!Matching, Telnet!Matching,
             Pop3!Positions, Telnet!Positions, Pop3!At, Telnet!At
  <1>4. \A c \in Conns : Pop3!Pairs(c) = Pop3Pairs(read[c])
    BY DEF Pop3!Pairs, Pop3Pairs, Pop3!Answers, Pop3Answers, Pop3Named
  <1>5. \A c \in Conns : Pop3!Offered(c) = Pop3Offers(read[c])
    BY <1>4 DEF Pop3!Offered, Pop3Offers
  <1>6. Pop3!EveryPairIsLogged
    <2>1. ASSUME NEW c \in Conns
          PROVE  /\ Len(Pop3!Captured(c)) = Pop3!Cardinality(Pop3!Pairs(c))
                 /\ Elements(Pop3!Captured(c)) = Pop3!Offered(c)
      <3>1. Pop3Found(Pop3Offers(read[c]), Pop3Pairs(read[c]), Names(events[c]))
        BY <1>1
      <3>2. /\ Pop3!Captured(c) = Names(events[c]) /\ Pop3!Pairs(c) = Pop3Pairs(read[c])
            /\ Pop3!Offered(c) = Pop3Offers(read[c])
        BY <1>3, <1>4, <1>5
      <3>3. \A S : Pop3!Cardinality(S) = Cardinality(S)
        BY DEF Pop3!Cardinality, Cardinality
      <3> QED BY <3>1, <3>2, <3>3 DEF Pop3Found
    <2>2. \A c \in Conns : Elements(Pop3!Captured(c)) = {Pop3!Captured(c)[i] : i \in DOMAIN Pop3!Captured(c)}
      BY DEF Elements
    <2> QED BY <2>1, <2>2 DEF Pop3!EveryPairIsLogged
  <1>7. \A c \in Conns : Pop3!Commands(c) = Pop3!ToCapture(c)
    <2>1. \A c \in Conns : Pop3!Commands(c) = Data(events[c], "command")
      BY DEF Pop3!Commands, Data, Pop3!Matching, Matching, Pop3!Positions, Positions, Pop3!At, At
    <2> QED BY <1>1, <2>1 DEF Pop3!ToCapture
  <1> QED BY <1>2, <1>5, <1>6, <1>7

-------------------------------------------------------------------------------
(* ftp (ftp_server.py:71-144): a user is kept while it waits for its password, and a shell stands
   for a last login with the configured credentials *)

FtpFirst(x) == x[1] = "USER" /\ Len(x) = 2
FtpSecond(x) == x[1] = "PASS" /\ Len(x) = 2

FtpHas(r, i, k) == i \in DOMAIN r /\ k \in DOMAIN r /\ i < k /\ FtpFirst(r[i]) /\ FtpSecond(r[k])
FtpIs(y, r, i, k) == y = <<r[i][2], r[k][2]>>
FtpPairs(r) == {y \in (DOMAIN r) \X (DOMAIN r) : y[1] < y[2] /\ FtpFirst(r[y[1]]) /\ FtpSecond(r[y[2]])}

FtpOffers(r) == {<<r[x[1]][2], r[x[2]][2]>> : x \in FtpPairs(r)}

\* The last login is that of the configured user.
FtpLast(e) ==
    \E i \in DOMAIN e :
        /\ e[i].action = "login" /\ e[i].status = "success"
        /\ <<e[i].username, e[i].password>> = Configured.ftp
        /\ \A j \in i + 1 .. Len(e) : e[j].action # "login"

FtpStates == {"none", "UNAUTH", "INAUTH", "AUTHED", "RENAMING"}
FtpShell == {"AUTHED", "RENAMING"}

FtpOK(l, r, e, s, u) ==
    /\ Base(Chunks.ftp, l, r, e) /\ Known(l, e)
    /\ s \in FtpStates /\ (s = "INAUTH" <=> u # NoUser)
    /\ l = "none" => s = "none" /\ u = NoUser
    /\ u # NoUser => \E i \in DOMAIN r : FtpFirst(r[i]) /\ r[i][2] = u
    /\ s \in FtpShell => Configured.ftp[1] # Anonymous /\ FtpLast(e)
    /\ Data(e, "command") = IF CaptureCommands THEN r ELSE <<>>

FtpInv == Rows /\ \A c \in Conns : FtpOK(link[c], read[c], events[c], state[c], user[c])

FtpMoves(c) == Frame(c) /\ Moved(c, FtpOffers(read[c]), FtpOffers(read'[c]))

\* Of a step of one connection, only that one needs a look.
LEMMA FtpFrame ==
    ASSUME FtpInv, NEW c \in Conns, Frame(c),
           FtpOK(link'[c], read'[c], events'[c], state'[c], user'[c])
    PROVE  FtpInv'
  BY DEF FtpInv, Frame

\* A connection nobody has made, and one that was just made.
LEMMA FtpComes ==
    /\ FtpOK("none", <<>>, <<>>, "none", NoUser)
    /\ FtpOK("open", <<>>, Connected, "UNAUTH", NoUser)
  <1>1. /\ Base(Chunks.ftp, "none", <<>>, <<>>) /\ Known("none", <<>>)
        /\ Base(Chunks.ftp, "open", <<>>, Connected) /\ Known("open", Connected)
        /\ Data(Connected, "command") = <<>> /\ Data(<<>>, "command") = <<>>
    BY Coming, NoEntries
  <1> QED BY <1>1 DEF FtpOK, FtpStates, FtpShell

\* A connection is lost.
LEMMA FtpGoes ==
    ASSUME NEW l \in {"open", "closing"}, NEW r, NEW e, NEW s, NEW u, FtpOK(l, r, e, s, u)
    PROVE  FtpOK("lost", r, e, s, u)
  <1>1. Base(Chunks.ftp, "lost", r, e) /\ Known("lost", e)
    BY Going DEF FtpOK
  <1> QED BY <1>1 DEF FtpOK

\* What is offered, by positions.
LEMMA FtpOffer == \A r, y : y \in FtpOffers(r) <=> \E i, k : FtpHas(r, i, k) /\ FtpIs(y, r, i, k)
  <1>1. \A r, y : y \in FtpOffers(r) <=> \E x \in FtpPairs(r) : y = <<r[x[1]][2], r[x[2]][2]>>
    BY DEF FtpOffers
  <1>2. \A r, p : p \in FtpPairs(r) => FtpHas(r, p[1], p[2])
    BY DEF FtpPairs, FtpHas
  <1>3. ASSUME NEW r, NEW i, NEW k, FtpHas(r, i, k)
        PROVE  \E p \in FtpPairs(r) : p[1] = i /\ p[2] = k
    <2> DEFINE p == <<i, k>>
    <2>1. p[1] = i /\ p[2] = k /\ i \in DOMAIN r /\ k \in DOMAIN r
      BY <1>3 DEF FtpHas
    <2>2. p \in (DOMAIN r) \X (DOMAIN r)
      BY <2>1
    <2> HIDE DEF p
    <2>3. p \in FtpPairs(r)
      BY <1>3, <2>1, <2>2 DEF FtpPairs, FtpHas
    <2> QED BY <2>1, <2>3
  <1> QED BY <1>1, <1>2, <1>3 DEF FtpIs

\* What was offered stays offered.
LEMMA FtpKeeps ==
    ASSUME NEW r, NEW n, NEW chunk, NEW t, Grown(r, chunk, t, n)
    PROVE  FtpOffers(r) \subseteq FtpOffers(t)
  <1> SUFFICES ASSUME NEW y, y \in FtpOffers(r) PROVE y \in FtpOffers(t)
    OBVIOUS
  <1>1. PICK i, k : FtpHas(r, i, k) /\ FtpIs(y, r, i, k)
    BY FtpOffer
  <1>2. i \in 1 .. n /\ k \in 1 .. n /\ n \in Nat
    BY <1>1 DEF FtpHas, Grown
  <1>3. i \in DOMAIN t /\ k \in DOMAIN t /\ t[i] = r[i] /\ t[k] = r[k]
    BY <1>2 DEF Grown
  <1>4. FtpHas(t, i, k) /\ FtpIs(y, t, i, k)
    BY <1>1, <1>3 DEF FtpHas, FtpIs
  <1> QED BY <1>4, FtpOffer

\* What the last chunk adds to what is offered.
LEMMA FtpGains ==
    ASSUME NEW r, NEW n, NEW chunk, NEW t, Grown(r, chunk, t, n),
           NEW i \in DOMAIN r, FtpFirst(r[i]), FtpSecond(chunk),
           NEW y, y = <<r[i][2], chunk[2]>>
    PROVE  y \in FtpOffers(t)
  <1>1. n \in Nat /\ i \in 1 .. n /\ DOMAIN t = 1 .. n + 1 /\ t[n + 1] = chunk /\ t[i] = r[i]
    BY DEF Grown
  <1>2. i \in DOMAIN t /\ n + 1 \in DOMAIN t /\ i < n + 1
    BY <1>1
  <1>3. FtpHas(t, i, n + 1) /\ FtpIs(y, t, i, n + 1)
    BY <1>1, <1>2 DEF FtpHas, FtpIs
  <1> QED BY <1>3, FtpOffer

\* More lines of a client, or a login, at the end of the log.
LEMMA FtpStaysLast ==
    ASSUME NEW e, IsLog(e), FtpLast(e), NEW line, NEW f, f = e \o Line(line)
    PROVE  FtpLast(f)
  <1> DEFINE es == Line(line)  m == Len(e)  k == Len(es)
  <1>1. \A i \in DOMAIN es : es[i].action # "login"
    <2> DEFINE x == [action |-> "command", data |-> line]
    <2>1. DOMAIN <<>> = {} /\ DOMAIN <<x>> = {1} /\ <<x>>[1] = x /\ x.action = "command"
      OBVIOUS
    <2>2. es = <<>> \/ es = <<x>>
      BY DEF Line
    <2> HIDE DEF x, es
    <2> QED BY <2>1, <2>2
  <1>2. IsLog(es)
    BY LineEntries
  <1>3. f = e \o es
    OBVIOUS
  <1> HIDE DEF es
  <1>4. /\ m \in Nat /\ k \in Nat /\ DOMAIN e = 1 .. m /\ DOMAIN es = 1 .. k
        /\ DOMAIN f = 1 .. m + k /\ Len(f) = m + k
        /\ \A i \in 1 .. m : f[i] = e[i]
        /\ \A i \in 1 .. k : f[m + i] = es[i]
    BY <1>2, <1>3, LogConcat
  <1>5. PICK i \in DOMAIN e :
           /\ e[i].action = "login" /\ e[i].status = "success"
           /\ <<e[i].username, e[i].password>> = Configured.ftp
           /\ \A j \in i + 1 .. m : e[j].action # "login"
    BY DEF FtpLast
  <1> HIDE DEF m, k
  <1>6. i \in 1 .. m /\ i \in 1 .. m + k
    BY <1>4
  <1>7. ASSUME NEW j \in i + 1 .. m + k PROVE f[j].action # "login"
    <2>1. CASE j <= m
      <3>1. j \in 1 .. m /\ j \in i + 1 .. m
        BY <1>4, <1>6, <2>1
      <3> QED BY <1>4, <1>5, <3>1
    <2>2. CASE ~(j <= m)
      <3>1. j - m \in 1 .. k /\ m + (j - m) = j
        BY <1>4, <1>6, <2>2
      <3>2. f[j] = es[j - m]
        BY <1>4, <3>1
      <3> QED BY <1>1, <1>4, <3>1, <3>2
    <2> QED BY <2>1, <2>2
  <1>8. f[i] = e[i]
    BY <1>4, <1>6
  <1> QED BY <1>4, <1>5, <1>6, <1>7, <1>8 DEF FtpLast

\* A login with the configured credentials that has just been logged is the last.
LEMMA FtpIsLast ==
    ASSUME NEW e, IsLog(e), NEW x, x.action = "login", x.status = "success",
           <<x.username, x.password>> = Configured.ftp, NEW f, f = Append(e, x)
    PROVE  FtpLast(f)
  <1> DEFINE m == Len(e)
  <1>1. m \in Nat /\ DOMAIN f = 1 .. m + 1 /\ Len(f) = m + 1 /\ f[m + 1] = x
    BY LogAppend
  <1> HIDE DEF m
  <1>2. m + 1 \in DOMAIN f /\ \A j \in (m + 1) + 1 .. m + 1 : FALSE
    BY <1>1
  <1> QED BY <1>1, <1>2 DEF FtpLast

\* What a line does.
FtpTurns(chunk, s, u, es, z, v) ==
    \/ /\ FtpFirst(chunk) /\ v = chunk[2] /\ z = "INAUTH" /\ es = Line(chunk)
    \/ /\ s = "INAUTH" /\ FtpSecond(chunk) /\ v = NoUser
       /\ \E ok \in BOOLEAN :
             /\ ok <=> <<u, chunk[2]>> = Configured.ftp
             /\ es = Line(chunk) \o <<Entry(u, chunk[2], ok)>>
             /\ z = IF ok /\ u # Anonymous THEN "AUTHED" ELSE "UNAUTH"
    \/ /\ s \in FtpShell /\ z \in FtpShell /\ v = u /\ es = Line(chunk)
    \/ /\ z = s /\ v = u /\ es = Line(chunk)

FtpGoesOn(l, r, t, e, f, z, v) ==
    /\ FtpOK(l, t, f, z, v)
    /\ Moves("open", l, FtpOffers(r), FtpOffers(t), Names(e), Names(f))

\* What is read, and what it makes of the connection.
LEMMA FtpReads ==
    ASSUME NEW r, NEW e, NEW s, NEW u, FtpOK("open", r, e, s, u), NEW chunk \in Chunks.ftp,
           NEW t, t = Append(r, chunk), NEW es, NEW f, f = e \o es,
           NEW z, NEW v, FtpTurns(chunk, s, u, es, z, v), NEW l \in {"open", "closing"}
    PROVE  FtpGoesOn(l, r, t, e, f, z, v)
  <1>1. /\ Open(Chunks.ftp, r, e) /\ Known("open", e) /\ IsLog(r) /\ IsLog(e)
        /\ s \in FtpStates /\ (s = "INAUTH" <=> u # NoUser)
        /\ u # NoUser => \E i \in DOMAIN r : FtpFirst(r[i]) /\ r[i][2] = u
        /\ s \in FtpShell => Configured.ftp[1] # Anonymous /\ FtpLast(e)
        /\ Data(e, "command") = IF CaptureCommands THEN r ELSE <<>>
    BY SequenceIsLog DEF FtpOK, Open, Base
  <1> DEFINE n == Len(r)
  <1>2. Grown(r, chunk, t, n)
    BY <1>1, Growing
  <1> HIDE DEF n
  <1>3. FtpOffers(r) \subseteq FtpOffers(t)
    BY <1>2, FtpKeeps
  <1>4. ASSUME IsLog(es), Data(es, "command") = ToCapture(chunk)
        PROVE  /\ Base(Chunks.ftp, l, t, f) /\ Known(l, f)
               /\ Data(f, "command") = IF CaptureCommands THEN t ELSE <<>>
               /\ Names(es) = <<>> => Names(f) = Names(e)
               /\ \A x : Names(es) = <<x>> => Names(f) = Append(Names(e), x)
    <2>1. Entered(Chunks.ftp, l, t, e, es, f)
      BY <1>1, <1>4, ReadingEntries
    <2>2. Data(f, "command") = IF CaptureCommands THEN t ELSE <<>>
      <3>1. r \o <<chunk>> = Append(r, chunk)
        BY <1>1, LogConcat, NoEntries
      <3>2. <<>> \o <<>> = <<>>
        BY NoEntries, LogConcat
      <3>3. Data(f, "command") = Data(e, "command") \o ToCapture(chunk)
        BY <1>4, <2>1 DEF Entered
      <3> QED BY <1>1, <3>1, <3>2, <3>3, Zenon DEF ToCapture
    <2> QED BY <2>1, <2>2 DEF Entered
  <1>5. ASSUME NEW i \in DOMAIN r PROVE i \in DOMAIN t /\ t[i] = r[i]
    BY <1>2 DEF Grown
  <1>6. CASE es = Line(chunk)
    <2>1. /\ Base(Chunks.ftp, l, t, f) /\ Known(l, f) /\ Names(f) = Names(e)
          /\ Data(f, "command") = IF CaptureCommands THEN t ELSE <<>>
      BY <1>4, <1>6, LineEntries
    <2>2. FtpLast(e) => FtpLast(f)
      BY <1>1, <1>6, FtpStaysLast
    <2>3. Moves("open", l, FtpOffers(r), FtpOffers(t), Names(e), Names(f))
      BY <1>3, <2>1 DEF Moves, PhaseOf
    <2>4. ASSUME FtpFirst(chunk), v = chunk[2], z = "INAUTH"
          PROVE  FtpOK(l, t, f, z, v)
      <3>1. v # NoUser
        <4>1. chunk \in Seq(STRING) /\ \A i \in DOMAIN chunk : chunk[i] # NoUser
          BY LinesAssumption
        <4>2. 2 \in DOMAIN chunk
          BY <2>4, <4>1 DEF FtpFirst
        <4> QED BY <2>4, <4>1, <4>2
      <3>2. \E i \in DOMAIN t : FtpFirst(t[i]) /\ t[i][2] = v
        <4>1. n + 1 \in DOMAIN t /\ t[n + 1] = chunk
          BY <1>2 DEF Grown
        <4> QED BY <2>4, <4>1
      <3> QED BY <2>1, <2>4, <3>1, <3>2 DEF FtpOK, FtpStates, FtpShell
    <2>5. ASSUME v = u, (z = s) \/ (s \in FtpShell /\ z \in FtpShell)
          PROVE  FtpOK(l, t, f, z, v)
      <3>1. z \in FtpStates /\ (z = "INAUTH" <=> v # NoUser) /\ (z \in FtpShell => s \in FtpShell)
        BY <1>1, <2>5 DEF FtpStates, FtpShell
      <3>2. v # NoUser => \E i \in DOMAIN t : FtpFirst(t[i]) /\ t[i][2] = v
        BY <1>1, <1>5, <2>5
      <3> QED BY <1>1, <2>1, <2>2, <3>1, <3>2 DEF FtpOK
    <2>6. CASE s = "INAUTH" /\ FtpSecond(chunk) /\ v = NoUser
                 /\ \E ok \in BOOLEAN : es = Line(chunk) \o <<Entry(u, chunk[2], ok)>>
      <3>1. PICK ok \in BOOLEAN : es = Line(chunk) \o <<Entry(u, chunk[2], ok)>>
        BY <2>6
      <3> DEFINE p == chunk[2]
      <3> HIDE DEF p
      <3>2. es = Line(chunk) \o <<Entry(u, p, ok)>>
        BY <3>1 DEF p
      <3>3. Names(es) = <<<<u, p>>>>
        BY <3>2, LineAndLogin
      <3>4. Names(es) = <<>>
        BY <1>6, LineEntries
      <3>5. \A x : <<x>> # <<>>
        OBVIOUS
      <3> QED BY <3>3, <3>4, <3>5
    <2> QED BY <2>3, <2>4, <2>5, <2>6 DEF FtpTurns, FtpGoesOn
  <1>7. CASE /\ s = "INAUTH" /\ FtpSecond(chunk) /\ v = NoUser
             /\ \E ok \in BOOLEAN :
                   /\ ok <=> <<u, chunk[2]>> = Configured.ftp
                   /\ es = Line(chunk) \o <<Entry(u, chunk[2], ok)>>
                   /\ z = IF ok /\ u # Anonymous THEN "AUTHED" ELSE "UNAUTH"
    <2> DEFINE p == chunk[2]
    <2>1. PICK ok \in BOOLEAN :
             /\ ok <=> <<u, p>> = Configured.ftp
             /\ es = Line(chunk) \o <<Entry(u, p, ok)>>
             /\ z = IF ok /\ u # Anonymous THEN "AUTHED" ELSE "UNAUTH"
      BY <1>7
    <2>2. PICK i \in DOMAIN r : FtpFirst(r[i]) /\ r[i][2] = u
      BY <1>1, <1>7
    <2>3. <<u, p>> \in FtpOffers(t)
      <3>1. <<u, p>> = <<r[i][2], chunk[2]>>
        BY <2>2
      <3> HIDE DEF p
      <3> QED BY <1>2, <1>7, <2>2, <3>1, FtpGains
    <2> HIDE DEF p
    <2>4. IsLog(es) /\ Names(es) = <<<<u, p>>>> /\ Data(es, "command") = ToCapture(chunk)
      BY <2>1, LineAndLogin
    <2>5. /\ Base(Chunks.ftp, l, t, f) /\ Known(l, f) /\ Names(f) = Append(Names(e), <<u, p>>)
          /\ Data(f, "command") = IF CaptureCommands THEN t ELSE <<>>
      BY <1>4, <2>4
    <2>6. Moves("open", l, FtpOffers(r), FtpOffers(t), Names(e), Names(f))
      BY <1>3, <2>3, <2>5 DEF Moves, PhaseOf
    <2>7. z \in FtpShell => Configured.ftp[1] # Anonymous /\ FtpLast(f)
      <3> SUFFICES ASSUME z \in FtpShell PROVE Configured.ftp[1] # Anonymous /\ FtpLast(f)
        OBVIOUS
      <3> DEFINE x == Entry(u, p, ok)
      <3>1. ok /\ u # Anonymous /\ <<u, p>> = Configured.ftp
        BY <2>1 DEF FtpShell
      <3>2. Configured.ftp[1] = u
        <4>1. <<u, p>>[1] = u
          OBVIOUS
        <4> QED BY <3>1, <4>1
      <3>3. x.action = "login" /\ x.status = "success" /\ x.username = u /\ x.password = p
        BY <3>1 DEF Entry
      <3> HIDE DEF x
      <3>4. f = Append(e \o Line(chunk), x) /\ IsLog(e \o Line(chunk))
        <4>1. IsLog(Line(chunk)) /\ IsLog(e \o Line(chunk))
          BY <1>1, LineEntries, LogConcat
        <4>2. Line(chunk) \o <<x>> = Append(Line(chunk), x)
          BY <4>1, LogConcat
        <4>3. f = e \o Append(Line(chunk), x)
          BY <2>1, <4>2 DEF x
        <4>4. e \o Append(Line(chunk), x) = Append(e \o Line(chunk), x)
          BY <1>1, <4>1, ConcatMore
        <4> QED BY <4>1, <4>3, <4>4
      <3>5. FtpLast(f)
        <4> DEFINE g == e \o Line(chunk)
        <4> HIDE DEF g
        <4>1. f = Append(g, x) /\ IsLog(g)
          BY <3>4 DEF g
        <4> QED BY <3>1, <3>3, <4>1, FtpIsLast
      <3> QED BY <3>1, <3>2, <3>5
    <2>8. z \in FtpStates /\ z # "INAUTH"
      BY <2>1 DEF FtpStates
    <2>9. FtpOK(l, t, f, z, v)
      BY <1>7, <2>5, <2>7, <2>8 DEF FtpOK
    <2> QED BY <2>6, <2>9 DEF FtpGoesOn
  <1> QED BY <1>6, <1>7 DEF FtpTurns

\* Every step of the honeypot keeps its invariant, and is one LoginCapture allows.
LEMMA FtpStep ==
    ASSUME FtpInv, Ftp!Next, UNCHANGED <<server, buffer, answers, replies>>
    PROVE  FtpInv' /\ \E c \in Conns : FtpMoves(c)
  <1>0. Rows
    BY DEF FtpInv
  <1>1. ASSUME NEW c \in Conns, Ftp!ConnectionMade(c) PROVE FtpInv' /\ FtpMoves(c)
    <2>1. /\ link[c] = "none" /\ link'[c] = "open" /\ read'[c] = read[c] /\ events'[c] = Connected
          /\ state'[c] = "UNAUTH" /\ user'[c] = user[c] /\ Frame(c)
      BY <1>0, <1>1 DEF Ftp!ConnectionMade, Ftp!Accept, Ftp!Goto, Connected, Rows, IsRow, Frame
    <2>2. FtpOK("none", read[c], events[c], state[c], user[c])
      BY <2>1 DEF FtpInv
    <2>3. read[c] = <<>> /\ events[c] = <<>> /\ user[c] = NoUser
      BY <2>2 DEF FtpOK, Base
    <2>4. FtpOK("open", <<>>, Connected, "UNAUTH", NoUser)
      BY FtpComes
    <2>5. FtpInv'
      BY <2>1, <2>3, <2>4, FtpFrame
    <2> QED BY <2>1, <2>3, <2>5, Coming, NoEntries DEF FtpMoves, Moved, Moves, PhaseOf
  <1>2. ASSUME NEW c \in Conns, Ftp!Lost(c) PROVE FtpInv' /\ FtpMoves(c)
    <2>1. /\ link[c] \in {"open", "closing"} /\ link'[c] = "lost" /\ read'[c] = read[c]
          /\ events'[c] = events[c] /\ state'[c] = state[c] /\ user'[c] = user[c] /\ Frame(c)
      BY <1>0, <1>2 DEF Ftp!Lost, Ftp!ConnectionLost, Rows, IsRow, Frame
    <2>2. FtpOK(link[c], read[c], events[c], state[c], user[c])
      BY DEF FtpInv
    <2>3. FtpOK("lost", read[c], events[c], state[c], user[c])
      BY <2>1, <2>2, FtpGoes
    <2>4. FtpInv'
      BY <2>1, <2>3, FtpFrame
    <2> QED BY <2>1, <2>4 DEF FtpMoves, Moved, Moves, PhaseOf
  <1>3. ASSUME NEW c \in Conns, NEW chunk \in Chunks.ftp,
               \/ Ftp!FtpUser(c, chunk) \/ Ftp!FtpPass(c, chunk) \/ Ftp!FtpRename(c, chunk)
               \/ Ftp!FtpQuit(c, chunk) \/ Ftp!FtpOther(c, chunk)
        PROVE  FtpInv' /\ FtpMoves(c)
    <2>1. /\ link[c] = "open" /\ read'[c] = Append(read[c], chunk) /\ Frame(c)
          /\ link'[c] \in {"open", "closing"}
      BY <1>0, <1>3 DEF Ftp!FtpUser, Ftp!FtpPass, Ftp!FtpRename, Ftp!FtpQuit, Ftp!FtpOther, Ftp!Received,
                        Ftp!LogAll, Ftp!LoseConnection, Ftp!Goto, Rows, IsRow, Frame
    <2>2. \E es : events'[c] = events[c] \o es /\ FtpTurns(chunk, state[c], user[c], es, state'[c], user'[c])
      <3>1. CASE Ftp!FtpUser(c, chunk)
        <4>1. events'[c] = events[c] \o Line(chunk) /\ state'[c] = "INAUTH" /\ user'[c] = chunk[2] /\ FtpFirst(chunk)
          BY <1>0, <3>1 DEF Ftp!FtpUser, Ftp!IsUser, Ftp!LogAll, Ftp!Command, Ftp!Goto, Line, FtpFirst, Rows, IsRow
        <4> QED BY <4>1 DEF FtpTurns
      <3>2. CASE Ftp!FtpPass(c, chunk)
        <4> DEFINE ok == Ftp!LoginIsCorrect(user[c], chunk[2])
        <4>1. /\ events'[c] = events[c] \o (Line(chunk) \o <<Entry(user[c], chunk[2], ok)>>)
              /\ state[c] = "INAUTH" /\ FtpSecond(chunk) /\ user'[c] = NoUser
              /\ state'[c] = IF ok /\ user[c] # Anonymous THEN "AUTHED" ELSE "UNAUTH"
          BY <1>0, <3>2 DEF Ftp!FtpPass, Ftp!IsPass, Ftp!LogAll, Ftp!Command, Ftp!Goto, Ftp!LoginEvent, Entry, Line,
                            FtpSecond, Rows, IsRow
        <4>2. ok \in BOOLEAN /\ (ok <=> <<user[c], chunk[2]>> = Configured.ftp)
          BY DEF Ftp!LoginIsCorrect
        <4> HIDE DEF ok
        <4> QED BY <4>1, <4>2 DEF FtpTurns
      <3>3. CASE Ftp!FtpRename(c, chunk)
        <4>1. /\ events'[c] = events[c] \o Line(chunk) /\ user'[c] = user[c]
              /\ state'[c] \in FtpShell
          BY <1>0, <3>3 DEF Ftp!FtpRename, Ftp!LogAll, Ftp!Command, Ftp!Goto, Line, FtpShell, Rows, IsRow
        <4>2. state[c] \in FtpShell
          <5>1. <<state[c], chunk[1]>> = <<"AUTHED", "RNFR">> \/ <<state[c], chunk[1]>> = <<"RENAMING", "RNTO">>
            BY <3>3 DEF Ftp!FtpRename, Ftp!IsRename
          <5>2. \A a, x, y, w : <<a, x>> = <<y, w>> => a = y
            OBVIOUS
          <5>3. state[c] = "AUTHED" \/ state[c] = "RENAMING"
            BY <5>1, <5>2, Zenon
          <5> QED BY <5>3 DEF FtpShell
        <4> QED BY <4>1, <4>2 DEF FtpTurns
      <3>4. CASE Ftp!FtpQuit(c, chunk) \/ Ftp!FtpOther(c, chunk)
        <4>1. events'[c] = events[c] \o Line(chunk) /\ user'[c] = user[c] /\ state'[c] = state[c]
          BY <1>0, <3>4 DEF Ftp!FtpQuit, Ftp!FtpOther, Ftp!LogAll, Ftp!Command, Line, Rows, IsRow
        <4> QED BY <4>1 DEF FtpTurns
      <3> QED BY <1>3, <3>1, <3>2, <3>3, <3>4
    <2>3. PICK es : events'[c] = events[c] \o es /\ FtpTurns(chunk, state[c], user[c], es, state'[c], user'[c])
      BY <2>2
    <2>4. FtpOK("open", read[c], events[c], state[c], user[c])
      BY <2>1 DEF FtpInv
    <2>5. /\ FtpOK(link'[c], read'[c], events'[c], state'[c], user'[c])
          /\ Moves("open", link'[c], FtpOffers(read[c]), FtpOffers(read'[c]), Names(events[c]), Names(events'[c]))
      <3>1. FtpGoesOn(link'[c], read[c], read'[c], events[c], events'[c], state'[c], user'[c])
        BY <2>1, <2>3, <2>4, FtpReads
      <3> QED BY <3>1 DEF FtpGoesOn
    <2>6. FtpInv'
      BY <2>1, <2>5, FtpFrame
    <2> QED BY <2>1, <2>5, <2>6 DEF FtpMoves, Moved
  <1> QED BY <1>1, <1>2, <1>3 DEF Ftp!Next

\* The invariant holds at the start.
LEMMA FtpBegins ==
    ASSUME Ftp!Init, buffer = Nothing, answers = Nothing, replies = Nothing
    PROVE  FtpInv
  <1>1. /\ link = [c \in Conns |-> "none"] /\ read = [c \in Conns |-> <<>>]
        /\ events = [c \in Conns |-> <<>>] /\ state = [c \in Conns |-> "none"] /\ user = [c \in Conns |-> NoUser]
    BY DEF Ftp!Init, Ftp!ConnectionsInit
  <1>2. Rows
    BY <1>1 DEF Rows, IsRow, Nothing
  <1>3. FtpOK("none", <<>>, <<>>, "none", NoUser)
    BY FtpComes
  <1> QED BY <1>1, <1>2, <1>3 DEF FtpInv

\* The invariant implies the properties of the honeypot, and what is offered is what was said.
LEMMA FtpSafe ==
    ASSUME FtpInv
    PROVE  /\ Ftp!TypeOK /\ Ftp!ShellNeedsLogin
           /\ \A c \in Conns : /\ Ftp!Offered(c) = FtpOffers(read[c])
                               /\ Ftp!Commands(c) = Ftp!ToCapture(c)
  <1>1. ASSUME NEW c \in Conns
        PROVE  /\ link[c] \in Links /\ read[c] \in Seq(Chunks.ftp)
               /\ link[c] = "none" <=> events[c] = <<>>
               /\ state[c] \in FtpStates /\ (state[c] = "INAUTH" <=> user[c] # NoUser)
               /\ state[c] \in FtpShell => Configured.ftp[1] # Anonymous /\ FtpLast(events[c])
               /\ Data(events[c], "command") = IF CaptureCommands THEN read[c] ELSE <<>>
    <2>1. FtpOK(link[c], read[c], events[c], state[c], user[c])
      BY DEF FtpInv
    <2> QED BY <2>1, Basics DEF FtpOK
  <1>2. Ftp!TypeOK
    BY <1>1 DEF FtpInv, Rows, IsRow, Ftp!TypeOK, Ftp!ConnectionsTypeOK, Links, FtpStates, Ftp!Shell
  <1>3. Ftp!ShellNeedsLogin
    BY <1>1 DEF Ftp!ShellNeedsLogin, Ftp!Shell, FtpShell, FtpLast
  <1>4. \A c \in Conns : Ftp!Offered(c) = FtpOffers(read[c])
    BY DEF Ftp!Offered, FtpOffers, FtpPairs, FtpFirst, FtpSecond
  <1>5. \A c \in Conns : Ftp!Commands(c) = Ftp!ToCapture(c)
    <2>1. \A c \in Conns : Ftp!Commands(c) = Data(events[c], "command")
      BY DEF Ftp!Commands, Data, Ftp!Matching, Matching, Ftp!Positions, Positions, Ftp!At, At
    <2> QED BY <1>1, <2>1 DEF Ftp!ToCapture
  <1> QED BY <1>2, <1>3, <1>4, <1>5

-------------------------------------------------------------------------------
(* imap (imap_server.py:35-96): logins, whole and begun, and the literal whose line has not ended *)

ImapFirst(x) == x.kind = "literal"
ImapSecond(x) == x.kind = "rest"

ImapHas(r, i, k) == i \in DOMAIN r /\ k \in DOMAIN r /\ i < k /\ ImapFirst(r[i]) /\ ImapSecond(r[k])
ImapIs(y, r, i, k) == y = <<r[i].user, r[k].password>>
ImapPairs(r) == {y \in (DOMAIN r) \X (DOMAIN r) : y[1] < y[2] /\ ImapFirst(r[y[1]]) /\ ImapSecond(r[y[2]])}

ImapSplit(r) == {<<r[x[1]].user, r[x[2]].password>> : x \in ImapPairs(r)}

\* A whole LOGIN, or a literal with a later end of a line.
ImapWhole(r) == {<<r[i].user, r[i].password>> : i \in {k \in DOMAIN r : r[k].kind = "login"}}
ImapOffers(r) == ImapWhole(r) \union ImapSplit(r)

ImapSent(r, kind) == {i \in DOMAIN r : r[i].kind = kind}

\* p literals have been read whose line has not ended.
ImapCounts(r, length, p) ==
    /\ IsFiniteSet(ImapSent(r, "login")) /\ IsFiniteSet(ImapSent(r, "literal"))
    /\ length \in Nat
    /\ LET whole == Cardinality(ImapSent(r, "login"))  begun == Cardinality(ImapSent(r, "literal"))
       IN  /\ whole <= length + (begun - p)
           /\ length <= whole + (begun - p)

ImapBegan(r, u) == u # NoUser => \E i \in DOMAIN r : r[i] = [kind |-> "literal", user |-> u]

ImapOK(l, r, e, u) ==
    /\ Base(Chunks.imap, l, r, e) /\ Known(l, e)
    /\ l = "none" => u = NoUser
    /\ ImapBegan(r, u)
    /\ ImapCounts(r, Len(Names(e)), IF u = NoUser THEN 0 ELSE 1)

ImapInv == Rows /\ \A c \in Conns : ImapOK(link[c], read[c], events[c], user[c])

ImapMoves(c) == Frame(c) /\ Moved(c, ImapOffers(read[c]), ImapOffers(read'[c]))

\* Of a step of one connection, only that one needs a look.
LEMMA ImapFrame ==
    ASSUME ImapInv, NEW c \in Conns, Frame(c),
           ImapOK(link'[c], read'[c], events'[c], user'[c])
    PROVE  ImapInv'
  BY DEF ImapInv, Frame

\* Of who has sent nothing.
LEMMA ImapNothing == ImapCounts(<<>>, 0, 0)
  <1>1. DOMAIN <<>> = {} /\ 0 \in Nat
    OBVIOUS
  <1>2. \A kind : ImapSent(<<>>, kind) = {}
    BY <1>1 DEF ImapSent
  <1>3. IsFiniteSet({}) /\ Cardinality({}) = 0
    BY FS_EmptySet
  <1>4. \A kind : IsFiniteSet(ImapSent(<<>>, kind)) /\ Cardinality(ImapSent(<<>>, kind)) = 0
    BY <1>2, <1>3
  <1> QED BY <1>1, <1>4 DEF ImapCounts

\* A connection nobody has made, and one that was just made.
LEMMA ImapComes ==
    /\ ImapOK("none", <<>>, <<>>, NoUser)
    /\ ImapOK("open", <<>>, Connected, NoUser)
  <1>1. /\ Base(Chunks.imap, "none", <<>>, <<>>) /\ Known("none", <<>>)
        /\ Base(Chunks.imap, "open", <<>>, Connected) /\ Known("open", Connected)
        /\ Names(Connected) = <<>> /\ Names(<<>>) = <<>> /\ Len(<<>>) = 0
    BY Coming, NoEntries
  <1>2. ImapCounts(<<>>, Len(Names(<<>>)), 0) /\ ImapCounts(<<>>, Len(Names(Connected)), 0)
    BY <1>1, ImapNothing
  <1> QED BY <1>1, <1>2 DEF ImapOK, ImapBegan

\* A connection is lost.
LEMMA ImapGoes ==
    ASSUME NEW l \in {"open", "closing"}, NEW r, NEW e, NEW u, ImapOK(l, r, e, u)
    PROVE  ImapOK("lost", r, e, u)
  <1>1. Base(Chunks.imap, "lost", r, e) /\ Known("lost", e)
    BY Going DEF ImapOK
  <1> QED BY <1>1 DEF ImapOK

\* What is offered, by positions.
LEMMA ImapOffer == \A r, y : y \in ImapSplit(r) <=> \E i, k : ImapHas(r, i, k) /\ ImapIs(y, r, i, k)
  <1>1. \A r, y : y \in ImapSplit(r) <=> \E x \in ImapPairs(r) : y = <<r[x[1]].user, r[x[2]].password>>
    BY DEF ImapSplit
  <1>2. \A r, p : p \in ImapPairs(r) => ImapHas(r, p[1], p[2])
    BY DEF ImapPairs, ImapHas
  <1>3. ASSUME NEW r, NEW i, NEW k, ImapHas(r, i, k)
        PROVE  \E p \in ImapPairs(r) : p[1] = i /\ p[2] = k
    <2> DEFINE p == <<i, k>>
    <2>1. p[1] = i /\ p[2] = k /\ i \in DOMAIN r /\ k \in DOMAIN r
      BY <1>3 DEF ImapHas
    <2>2. p \in (DOMAIN r) \X (DOMAIN r)
      BY <2>1
    <2> HIDE DEF p
    <2>3. p \in ImapPairs(r)
      BY <1>3, <2>1, <2>2 DEF ImapPairs, ImapHas
    <2> QED BY <2>1, <2>3
  <1> QED BY <1>1, <1>2, <1>3 DEF ImapIs

\* What was offered stays offered.
LEMMA ImapKeeps ==
    ASSUME NEW r, NEW n, NEW chunk, NEW t, Grown(r, chunk, t, n)
    PROVE  ImapSplit(r) \subseteq ImapSplit(t)
  <1> SUFFICES ASSUME NEW y, y \in ImapSplit(r) PROVE y \in ImapSplit(t)
    OBVIOUS
  <1>1. PICK i, k : ImapHas(r, i, k) /\ ImapIs(y, r, i, k)
    BY ImapOffer
  <1>2. i \in 1 .. n /\ k \in 1 .. n /\ n \in Nat
    BY <1>1 DEF ImapHas, Grown
  <1>3. i \in DOMAIN t /\ k \in DOMAIN t /\ t[i] = r[i] /\ t[k] = r[k]
    BY <1>2 DEF Grown
  <1>4. ImapHas(t, i, k) /\ ImapIs(y, t, i, k)
    BY <1>1, <1>3 DEF ImapHas, ImapIs
  <1> QED BY <1>4, ImapOffer

\* What the last chunk adds to what is offered.
LEMMA ImapGains ==
    ASSUME NEW r, NEW n, NEW chunk, NEW t, Grown(r, chunk, t, n),
           NEW i \in DOMAIN r, ImapFirst(r[i]), ImapSecond(chunk),
           NEW y, y = <<r[i].user, chunk.password>>
    PROVE  y \in ImapSplit(t)
  <1>1. n \in Nat /\ i \in 1 .. n /\ DOMAIN t = 1 .. n + 1 /\ t[n + 1] = chunk /\ t[i] = r[i]
    BY DEF Grown
  <1>2. i \in DOMAIN t /\ n + 1 \in DOMAIN t /\ i < n + 1
    BY <1>1
  <1>3. ImapHas(t, i, n + 1) /\ ImapIs(y, t, i, n + 1)
    BY <1>1, <1>2 DEF ImapHas, ImapIs
  <1> QED BY <1>3, ImapOffer

\* One more chunk was read.
LEMMA ImapMore ==
    ASSUME NEW r, NEW n, NEW chunk, NEW t, Grown(r, chunk, t, n)
    PROVE  /\ ImapOffers(r) \subseteq ImapOffers(t)
           /\ chunk.kind = "login" => <<chunk.user, chunk.password>> \in ImapOffers(t)
  <1>1. /\ n \in Nat /\ DOMAIN r = 1 .. n /\ DOMAIN t = 1 .. n + 1 /\ t[n + 1] = chunk
        /\ \A i \in 1 .. n : t[i] = r[i]
    BY DEF Grown
  <1>2. \A q, y : y \in ImapWhole(q) <=> \E i \in DOMAIN q : q[i].kind = "login" /\ y = <<q[i].user, q[i].password>>
    BY DEF ImapWhole
  <1>3. ASSUME NEW y \in ImapWhole(r) PROVE y \in ImapWhole(t)
    <2>1. PICK i \in DOMAIN r : r[i].kind = "login" /\ y = <<r[i].user, r[i].password>>
      BY <1>2
    <2>2. i \in 1 .. n
      BY <1>1
    <2>3. i \in DOMAIN t /\ t[i] = r[i]
      BY <1>1, <2>2
    <2> QED BY <1>2, <2>1, <2>3
  <1>4. chunk.kind = "login" => <<chunk.user, chunk.password>> \in ImapWhole(t)
    <2>1. n + 1 \in DOMAIN t
      BY <1>1
    <2> QED BY <1>1, <1>2, <2>1
  <1>5. ImapSplit(r) \subseteq ImapSplit(t)
    BY ImapKeeps
  <1> QED BY <1>3, <1>4, <1>5 DEF ImapOffers

\* One more line of a kind, or of another.
LEMMA ImapCounted ==
    ASSUME NEW r, NEW n, NEW chunk, NEW t, Grown(r, chunk, t, n), NEW kind, IsFiniteSet(ImapSent(r, kind))
    PROVE  /\ IsFiniteSet(ImapSent(t, kind)) /\ Cardinality(ImapSent(r, kind)) \in Nat
           /\ Cardinality(ImapSent(t, kind)) =
                IF chunk.kind = kind THEN Cardinality(ImapSent(r, kind)) + 1 ELSE Cardinality(ImapSent(r, kind))
  <1> DEFINE S == ImapSent(r, kind)
  <1>1. /\ n \in Nat /\ DOMAIN r = 1 .. n /\ DOMAIN t = 1 .. n + 1 /\ t[n + 1] = chunk
        /\ \A i \in 1 .. n : t[i] = r[i]
    BY DEF Grown
  <1>2. \A q, i : i \in ImapSent(q, kind) <=> i \in DOMAIN q /\ q[i].kind = kind
    BY DEF ImapSent
  <1>3. n + 1 \notin S /\ (\A i \in S : i \in 1 .. n) /\ \A i \in 1 .. n + 1 : i \in 1 .. n \/ i = n + 1
    BY <1>1, <1>2
  <1>4. chunk.kind = kind => ImapSent(t, kind) = S \union {n + 1}
    BY <1>1, <1>2, <1>3
  <1>5. ASSUME chunk.kind # kind PROVE ImapSent(t, kind) = S
    <2>1. \A i \in ImapSent(t, kind) : i \in 1 .. n + 1 /\ i # n + 1
      BY <1>1, <1>2, <1>5
    <2>2. \A i \in ImapSent(t, kind) : i \in S
      BY <1>1, <1>2, <1>3, <2>1
    <2>3. \A i \in S : i \in ImapSent(t, kind)
      BY <1>1, <1>2
    <2> HIDE DEF S
    <2> QED BY <2>2, <2>3
  <1> HIDE DEF S
  <1>6. IsFiniteSet(S)
    BY DEF S
  <1>7. IsFiniteSet(S \union {n + 1}) /\ (n + 1 \notin S => Cardinality(S \union {n + 1}) = Cardinality(S) + 1)
        /\ Cardinality(S) \in Nat
    BY <1>6, FS_AddElement, FS_CardinalityType
  <1> QED BY <1>3, <1>4, <1>5, <1>6, <1>7 DEF S

\* What a line does.
ImapTurns(line, u, es, v) ==
    /\ IsLog(es)
    /\ \/ line.kind = "login" /\ u = NoUser /\ v = NoUser /\ Names(es) = <<<<line.user, line.password>>>>
       \/ line.kind = "literal" /\ u = NoUser /\ v = line.user /\ Names(es) = <<>>
       \/ line.kind = "rest" /\ u # NoUser /\ v = NoUser /\ Names(es) = <<<<u, line.password>>>>
       \/ line.kind # "rest" /\ u # NoUser /\ v = NoUser /\ Names(es) = <<>>
       \/ line.kind \notin {"login", "literal"} /\ v = u /\ Names(es) = <<>>

\* What it does to the count: a is one for a login in the log.
LEMMA ImapCounting ==
    ASSUME NEW r, NEW n, NEW chunk, NEW t, Grown(r, chunk, t, n), NEW length, NEW p \in {0, 1}, ImapCounts(r, length, p),
           NEW a \in {0, 1}, NEW q \in {0, 1},
           \/ chunk.kind = "login" /\ a = 1 /\ p = 0 /\ q = 0
           \/ chunk.kind = "literal" /\ a = 0 /\ p = 0 /\ q = 1
           \/ chunk.kind = "rest" /\ a = 1 /\ p = 1 /\ q = 0
           \/ a = 0 /\ p = 1 /\ q = 0
           \/ chunk.kind \notin {"login", "literal"} /\ a = 0 /\ p = q
    PROVE  ImapCounts(t, length + a, q)
  <1> DEFINE whole == Cardinality(ImapSent(r, "login"))   begun == Cardinality(ImapSent(r, "literal"))
             whole2 == Cardinality(ImapSent(t, "login"))  begun2 == Cardinality(ImapSent(t, "literal"))
  <1>1. /\ IsFiniteSet(ImapSent(r, "login")) /\ IsFiniteSet(ImapSent(r, "literal")) /\ length \in Nat
        /\ whole <= length + (begun - p) /\ length <= whole + (begun - p)
    BY DEF ImapCounts
  <1>2. /\ IsFiniteSet(ImapSent(t, "login")) /\ whole \in Nat
        /\ whole2 = IF chunk.kind = "login" THEN whole + 1 ELSE whole
    BY <1>1, ImapCounted
  <1>3. /\ IsFiniteSet(ImapSent(t, "literal")) /\ begun \in Nat
        /\ begun2 = IF chunk.kind = "literal" THEN begun + 1 ELSE begun
    BY <1>1, ImapCounted
  <1> HIDE DEF whole, begun, whole2, begun2
  <1>4. whole2 <= (length + a) + (begun2 - q) /\ length + a <= whole2 + (begun2 - q) /\ length + a \in Nat
    BY <1>1, <1>2, <1>3
  <1> QED BY <1>2, <1>3, <1>4 DEF ImapCounts, whole2, begun2

ImapGoesOn(r, t, e, f, v) ==
    /\ ImapOK("open", t, f, v)
    /\ Moves("open", "open", ImapOffers(r), ImapOffers(t), Names(e), Names(f))

\* What is read, and what it makes of the connection.
LEMMA ImapReads ==
    ASSUME NEW r, NEW e, NEW u, ImapOK("open", r, e, u), NEW chunk \in Chunks.imap,
           NEW t, t = Append(r, chunk), NEW es, NEW f, f = e \o es,
           NEW v, ImapTurns(chunk, u, es, v)
    PROVE  ImapGoesOn(r, t, e, f, v)
  <1> DEFINE n == Len(r)  length == Len(Names(e))
             p == IF u = NoUser THEN 0 ELSE 1
             q == IF v = NoUser THEN 0 ELSE 1
  <1>1. /\ Open(Chunks.imap, r, e) /\ Known("open", e) /\ IsLog(r) /\ IsLog(e)
        /\ ImapBegan(r, u) /\ ImapCounts(r, length, p)
    BY SequenceIsLog DEF ImapOK, Open, Base
  <1>2. Grown(r, chunk, t, n) /\ p \in {0, 1} /\ q \in {0, 1}
    BY <1>1, Growing
  <1> HIDE DEF n
  <1>3. /\ ImapOffers(r) \subseteq ImapOffers(t)
        /\ chunk.kind = "login" => <<chunk.user, chunk.password>> \in ImapOffers(t)
    BY <1>2, ImapMore
  <1>4. IsLog(es)
    BY DEF ImapTurns
  <1>5. Entered(Chunks.imap, "open", t, e, es, f)
    BY <1>1, <1>4, ReadingEntries
  <1>6. /\ Base(Chunks.imap, "open", t, f) /\ Known("open", f)
        /\ Names(es) = <<>> => Names(f) = Names(e)
        /\ \A x : Names(es) = <<x>> => Names(f) = Append(Names(e), x)
    BY <1>5 DEF Entered
  <1>7. \A x : Names(f) = Append(Names(e), x) => Len(Names(f)) = length + 1
    BY <1>1, EntryType, LogAppend
  <1>8. chunk.kind = "literal" => chunk.user # NoUser /\ chunk = [kind |-> "literal", user |-> chunk.user]
    <2>1. chunk.kind = "literal" => chunk \in [kind : {"literal"}, user : STRING] /\ chunk.user # NoUser
      BY LinesAssumption
    <2> QED BY <2>1
  <1>9. ASSUME NEW i \in DOMAIN r PROVE i \in DOMAIN t /\ t[i] = r[i]
    BY <1>2 DEF Grown
  <1>10. n + 1 \in DOMAIN t /\ t[n + 1] = chunk
    BY <1>2 DEF Grown
  <1> HIDE DEF length
  <1>11. length \in Nat
    BY <1>1 DEF ImapCounts
  <1>a. CASE chunk.kind = "login" /\ u = NoUser /\ v = NoUser /\ Names(es) = <<<<chunk.user, chunk.password>>>>
    <2>1. Names(f) = Append(Names(e), <<chunk.user, chunk.password>>) /\ Len(Names(f)) = length + 1
      BY <1>6, <1>7, <1>a
    <2>2. p = 0 /\ q = 0
      BY <1>a
    <2> HIDE DEF p, q
    <2>3. ImapCounts(t, length + 1, q)
      BY <1>1, <1>2, <1>a, <2>2, ImapCounting
    <2>4. ImapOK("open", t, f, v)
      BY <1>6, <1>a, <2>1, <2>3 DEF ImapOK, ImapBegan, q
    <2> QED BY <1>3, <1>a, <2>1, <2>4 DEF ImapGoesOn, Moves, PhaseOf
  <1>b. CASE chunk.kind = "literal" /\ u = NoUser /\ v = chunk.user /\ Names(es) = <<>>
    <2>1. Names(f) = Names(e)
      BY <1>6, <1>b
    <2>2. p = 0 /\ q = 1
      BY <1>8, <1>b
    <2> HIDE DEF p, q
    <2>3. ImapCounts(t, length + 0, q)
      BY <1>1, <1>2, <1>b, <2>2, ImapCounting
    <2>4. ImapCounts(t, Len(Names(f)), q)
      BY <1>11, <2>1, <2>3 DEF length
    <2>5. ImapBegan(t, v)
      BY <1>8, <1>10, <1>b DEF ImapBegan
    <2>6. ImapOK("open", t, f, v)
      BY <1>6, <2>4, <2>5 DEF ImapOK, q
    <2> QED BY <1>3, <2>1, <2>6 DEF ImapGoesOn, Moves, PhaseOf
  <1>c. CASE chunk.kind = "rest" /\ u # NoUser /\ v = NoUser /\ Names(es) = <<<<u, chunk.password>>>>
    <2>1. Names(f) = Append(Names(e), <<u, chunk.password>>) /\ Len(Names(f)) = length + 1
      BY <1>6, <1>7, <1>c
    <2>2. p = 1 /\ q = 0
      BY <1>c
    <2> HIDE DEF p, q
    <2>3. ImapCounts(t, length + 1, q)
      BY <1>1, <1>2, <1>c, <2>2, ImapCounting
    <2>4. ImapOK("open", t, f, v)
      BY <1>6, <1>c, <2>1, <2>3 DEF ImapOK, ImapBegan, q
    <2>5. PICK i \in DOMAIN r : r[i] = [kind |-> "literal", user |-> u]
      BY <1>1, <1>c DEF ImapBegan
    <2>6. ImapFirst(r[i]) /\ ImapSecond(chunk) /\ <<u, chunk.password>> = <<r[i].user, chunk.password>>
      BY <1>c, <2>5 DEF ImapFirst, ImapSecond
    <2>7. <<u, chunk.password>> \in ImapSplit(t)
      BY <1>2, <2>6, ImapGains
    <2> QED BY <1>3, <2>1, <2>4, <2>7 DEF ImapGoesOn, Moves, PhaseOf, ImapOffers
  <1>d. CASE chunk.kind # "rest" /\ u # NoUser /\ v = NoUser /\ Names(es) = <<>>
    <2>1. Names(f) = Names(e)
      BY <1>6, <1>d
    <2>2. p = 1 /\ q = 0
      BY <1>d
    <2> HIDE DEF p, q
    <2>3. ImapCounts(t, length + 0, q)
      BY <1>1, <1>2, <1>d, <2>2, ImapCounting
    <2>4. ImapCounts(t, Len(Names(f)), q)
      BY <1>11, <2>1, <2>3 DEF length
    <2>6. ImapOK("open", t, f, v)
      BY <1>6, <1>d, <2>4 DEF ImapOK, ImapBegan, q
    <2> QED BY <1>3, <2>1, <2>6 DEF ImapGoesOn, Moves, PhaseOf
  <1>e. CASE chunk.kind \notin {"login", "literal"} /\ v = u /\ Names(es) = <<>>
    <2>1. Names(f) = Names(e)
      BY <1>6, <1>e
    <2>2. p = q
      BY <1>e
    <2> HIDE DEF p, q
    <2>3. ImapCounts(t, length + 0, q)
      BY <1>1, <1>2, <1>e, <2>2, ImapCounting
    <2>4. ImapCounts(t, Len(Names(f)), q)
      BY <1>11, <2>1, <2>3 DEF length
    <2>5. ImapBegan(t, v)
      BY <1>1, <1>9, <1>e DEF ImapBegan
    <2>6. ImapOK("open", t, f, v)
      BY <1>6, <2>4, <2>5 DEF ImapOK, q
    <2> QED BY <1>3, <2>1, <2>6 DEF ImapGoesOn, Moves, PhaseOf
  <1> QED BY <1>a, <1>b, <1>c, <1>d, <1>e DEF ImapTurns

\* Every step of the honeypot keeps its invariant, and is one LoginCapture allows.
LEMMA ImapStep ==
    ASSUME ImapInv, Imap!Next, UNCHANGED <<server, state, buffer, answers, replies>>
    PROVE  ImapInv' /\ \E c \in Conns : ImapMoves(c)
  <1>0. Rows
    BY DEF ImapInv
  <1>1. ASSUME NEW c \in Conns, Imap!ConnectionMade(c) PROVE ImapInv' /\ ImapMoves(c)
    <2>1. /\ link[c] = "none" /\ link'[c] = "open" /\ read'[c] = read[c] /\ events'[c] = Connected
          /\ user'[c] = user[c] /\ Frame(c)
      BY <1>0, <1>1 DEF Imap!ConnectionMade, Imap!Accept, Connected, Rows, IsRow, Frame
    <2>2. ImapOK("none", read[c], events[c], user[c])
      BY <2>1 DEF ImapInv
    <2>3. read[c] = <<>> /\ events[c] = <<>> /\ user[c] = NoUser
      BY <2>2 DEF ImapOK, Base
    <2>4. ImapOK("open", <<>>, Connected, NoUser)
      BY ImapComes
    <2>5. ImapInv'
      BY <2>1, <2>3, <2>4, ImapFrame
    <2> QED BY <2>1, <2>3, <2>5, Coming, NoEntries DEF ImapMoves, Moved, Moves, PhaseOf
  <1>2. ASSUME NEW c \in Conns, Imap!Lost(c) PROVE ImapInv' /\ ImapMoves(c)
    <2>1. /\ link[c] \in {"open", "closing"} /\ link'[c] = "lost" /\ read'[c] = read[c]
          /\ events'[c] = events[c] /\ user'[c] = user[c] /\ Frame(c)
      BY <1>0, <1>2 DEF Imap!Lost, Imap!ConnectionLost, Rows, IsRow, Frame
    <2>2. ImapOK(link[c], read[c], events[c], user[c])
      BY DEF ImapInv
    <2>3. ImapOK("lost", read[c], events[c], user[c])
      BY <2>1, <2>2, ImapGoes
    <2>4. ImapInv'
      BY <2>1, <2>3, ImapFrame
    <2> QED BY <2>1, <2>4 DEF ImapMoves, Moved, Moves, PhaseOf
  <1>3. ASSUME NEW c \in Conns, NEW line \in Chunks.imap,
               \/ Imap!Login(c, line) \/ Imap!LoginWithLiteral(c, line) \/ Imap!RestOfLogin(c, line)
               \/ Imap!Swallowed(c, line) \/ Imap!Capability(c, line) \/ Imap!Ignored(c, line)
        PROVE  ImapInv' /\ ImapMoves(c)
    <2>1. /\ link[c] = "open" /\ read'[c] = Append(read[c], line) /\ Frame(c) /\ link'[c] = "open"
      BY <1>0, <1>3 DEF Imap!Login, Imap!LoginWithLiteral, Imap!RestOfLogin, Imap!Swallowed, Imap!Capability,
                        Imap!Ignored, Imap!Received, Imap!LogAll, Imap!CheckLogin, Imap!Log, Rows, IsRow, Frame
    <2>2. ImapOK("open", read[c], events[c], user[c])
      BY <2>1 DEF ImapInv
    <2>3. IsLog(events[c])
      BY <2>2 DEF ImapOK, Base
    <2>4. events[c] \o <<>> = events[c] /\ \A x : events[c] \o <<x>> = Append(events[c], x)
      BY <2>3, NoEntries, LogConcat
    <2>5. \E es : events'[c] = events[c] \o es /\ ImapTurns(line, user[c], es, user'[c])
      <3>1. CASE Imap!Login(c, line)
        <4> DEFINE u == line.user  p == line.password  ok == Imap!LoginIsCorrect(u, p)
                   es == Line(line) \o <<Entry(u, p, ok)>>
        <4>1. /\ events'[c] = events[c] \o es
              /\ line.kind = "login" /\ user[c] = NoUser /\ user'[c] = NoUser
          BY <1>0, <3>1 DEF Imap!Login, Imap!LogAll, Imap!Command, Imap!LoginEvent, Entry, Line, Rows, IsRow
        <4> HIDE DEF ok
        <4>2. IsLog(es) /\ Names(es) = <<<<u, p>>>>
          BY LineAndLogin
        <4> HIDE DEF es
        <4> QED BY <4>1, <4>2 DEF ImapTurns
      <3>2. CASE Imap!LoginWithLiteral(c, line)
        <4>1. /\ events'[c] = events[c] \o Line(line)
              /\ line.kind = "literal" /\ user[c] = NoUser /\ user'[c] = line.user
          BY <1>0, <3>2 DEF Imap!LoginWithLiteral, Imap!LogAll, Imap!Command, Line, Rows, IsRow
        <4> QED BY <4>1, LineEntries DEF ImapTurns
      <3>3. CASE Imap!RestOfLogin(c, line)
        <4> DEFINE u == user[c]  p == line.password  ok == Imap!LoginIsCorrect(u, p)  x == Entry(u, p, ok)
        <4>1. /\ events'[c] = Append(events[c], x)
              /\ line.kind = "rest" /\ u # NoUser /\ user'[c] = NoUser
          BY <1>0, <3>3 DEF Imap!RestOfLogin, Imap!CheckLogin, Imap!Log, Imap!LoginEvent, Entry, Rows, IsRow
        <4>2. x.action = "login" /\ x.username = u /\ x.password = p
          BY DEF Entry
        <4> HIDE DEF x
        <4>3. IsLog(<<x>>) /\ Names(<<x>>) = <<<<u, p>>>>
          BY <4>2, SingleEntry
        <4> QED BY <2>4, <4>1, <4>3 DEF ImapTurns
      <3>4. CASE Imap!Swallowed(c, line)
        <4>1. /\ events'[c] = events[c] /\ line.kind # "rest" /\ user[c] # NoUser /\ user'[c] = NoUser
          BY <1>0, <3>4 DEF Imap!Swallowed, Rows, IsRow
        <4> QED BY <2>4, <4>1, NoEntries DEF ImapTurns
      <3>5. CASE Imap!Capability(c, line)
        <4>1. /\ events'[c] = events[c] \o Line(line)
              /\ line.kind \notin {"login", "literal"} /\ user'[c] = user[c]
          BY <1>0, <3>5 DEF Imap!Capability, Imap!LogAll, Imap!Command, Line, Rows, IsRow
        <4> QED BY <4>1, LineEntries DEF ImapTurns
      <3>6. CASE Imap!Ignored(c, line)
        <4>1. /\ events'[c] = events[c]
              /\ line.kind \notin {"login", "literal"} /\ user'[c] = user[c]
          BY <1>0, <3>6 DEF Imap!Ignored, Imap!Passes, Rows, IsRow
        <4> QED BY <2>4, <4>1, NoEntries DEF ImapTurns
      <3> QED BY <1>3, <3>1, <3>2, <3>3, <3>4, <3>5, <3>6
    <2>6. PICK es : events'[c] = events[c] \o es /\ ImapTurns(line, user[c], es, user'[c])
      BY <2>5
    <2>7. ImapGoesOn(read[c], read'[c], events[c], events'[c], user'[c])
      BY <2>1, <2>2, <2>6, ImapReads
    <2>8. ImapOK("open", read'[c], events'[c], user'[c])
      BY <2>7 DEF ImapGoesOn
    <2>9. ImapInv'
      BY <2>1, <2>8, ImapFrame
    <2> QED BY <2>1, <2>7, <2>9 DEF ImapMoves, Moved, ImapGoesOn
  <1> QED BY <1>1, <1>2, <1>3 DEF Imap!Next

\* The invariant holds at the start.
LEMMA ImapBegins ==
    ASSUME Imap!Init, state = Nothing, buffer = Nothing, answers = Nothing, replies = Nothing
    PROVE  ImapInv
  <1>1. /\ link = [c \in Conns |-> "none"] /\ read = [c \in Conns |-> <<>>]
        /\ events = [c \in Conns |-> <<>>] /\ user = [c \in Conns |-> NoUser]
    BY DEF Imap!Init, Imap!ConnectionsInit
  <1>2. Rows
    BY <1>1 DEF Rows, IsRow, Nothing
  <1>3. ImapOK("none", <<>>, <<>>, NoUser)
    BY ImapComes
  <1> QED BY <1>1, <1>2, <1>3 DEF ImapInv

\* The invariant implies the properties of the honeypot, and what is offered is what was said.
LEMMA ImapSafe ==
    ASSUME ImapInv
    PROVE  /\ Imap!TypeOK /\ Imap!LiteralCostsOneLogin
           /\ \A c \in Conns : Imap!Offered(c) = ImapOffers(read[c])
  <1>1. ASSUME NEW c \in Conns
        PROVE  /\ link[c] \in Links /\ read[c] \in Seq(Chunks.imap)
               /\ link[c] = "none" <=> events[c] = <<>>
               /\ ImapBegan(read[c], user[c])
               /\ ImapCounts(read[c], Len(Names(events[c])), IF user[c] = NoUser THEN 0 ELSE 1)
    <2>1. ImapOK(link[c], read[c], events[c], user[c])
      BY DEF ImapInv
    <2> QED BY <2>1, Basics DEF ImapOK
  <1>2. Imap!TypeOK
    BY <1>1 DEF ImapInv, Rows, IsRow, Imap!TypeOK, Imap!ConnectionsTypeOK, Links, ImapBegan
  <1>3. \A c \in Conns : Imap!Captured(c) = Names(events[c])
    BY IsNames DEF Imap!Captured, Telnet!Captured, Imap!Logins, Telnet!Logins, Imap!Matching, Telnet!Matching,
             Imap!Positions, Telnet!Positions, Imap!At, Telnet!At
  <1>4. ASSUME NEW c \in Conns
        PROVE  LET whole == Imap!Cardinality(Imap!Sent(c, "login"))  begun == Imap!Cardinality(Imap!Sent(c, "literal"))
               IN  Len(Imap!Captured(c)) \in (whole - begun) .. (whole + begun)
    <2> DEFINE whole == Cardinality(ImapSent(read[c], "login"))
               begun == Cardinality(ImapSent(read[c], "literal"))
               length == Len(Names(events[c]))
               p == IF user[c] = NoUser THEN 0 ELSE 1
    <2>1. /\ length \in Nat /\ whole <= length + (begun - p) /\ length <= whole + (begun - p)
          /\ whole \in Nat /\ begun \in Nat
      BY <1>1, FS_CardinalityType DEF ImapCounts
    <2>2. \A S : Imap!Cardinality(S) = Cardinality(S)
      BY DEF Imap!Cardinality, Cardinality
    <2>3. /\ Imap!Cardinality(Imap!Sent(c, "login")) = whole /\ Imap!Cardinality(Imap!Sent(c, "literal")) = begun
          /\ Len(Imap!Captured(c)) = length
      BY <1>3, <2>2 DEF Imap!Sent, ImapSent
    <2>4. p \in {0, 1}
      OBVIOUS
    <2> HIDE DEF whole, begun, length, p
    <2>5. length \in (whole - begun) .. (whole + begun)
      BY <2>1, <2>4
    <2> QED BY <2>3, <2>5
  <1>5. \A c \in Conns : Imap!Offered(c) = ImapOffers(read[c])
    BY DEF Imap!Offered, ImapOffers, ImapWhole, ImapSplit, ImapPairs, ImapFirst, ImapSecond
  <1> QED BY <1>2, <1>4, <1>5 DEF Imap!LiteralCostsOneLogin

-------------------------------------------------------------------------------
(* smtp (smtp_server.py:44-70): only a connection that is over has sent a malformed AUTH *)

SmtpPlain(r) == At(r, {i \in DOMAIN r : r[i].kind = "plain"})

SmtpNames(r) == [i \in DOMAIN SmtpPlain(r) |-> <<SmtpPlain(r)[i].user, SmtpPlain(r)[i].password>>]

SmtpOffers(r) == Elements(SmtpNames(r))

\* A login right after its own command.
SmtpVerdict(command, login) ==
    /\ command.data.password = login.password
    /\ login.status = "success" <=> <<login.username, login.password>> = Configured.smtp

SmtpLog(e) ==
    \A i \in 1 .. Len(e) : e[i].action = "login" => i - 1 \in 1 .. Len(e) /\ SmtpVerdict(e[i - 1], e[i])

\* No login without a name.
SmtpHasName(e) == \A i \in 1 .. Len(e) : e[i].action = "login" => Names(e) # <<>>

SmtpGood(r) == \A i \in DOMAIN r : r[i].kind # "malformed"

SmtpOK(l, r, e) ==
    /\ Base(Chunks.smtp, l, r, e) /\ Known(l, e)
    /\ l \in {"open", "closing"} => SmtpGood(r)
    /\ Names(e) = SmtpNames(r)
    /\ SmtpLog(e) /\ SmtpHasName(e)

SmtpInv == Rows /\ \A c \in Conns : SmtpOK(link[c], read[c], events[c])

SmtpMoves(c) == Frame(c) /\ Moved(c, SmtpOffers(read[c]), SmtpOffers(read'[c]))

\* Of a step of one connection, only that one needs a look.
LEMMA SmtpFrame ==
    ASSUME SmtpInv, NEW c \in Conns, Frame(c),
           SmtpOK(link'[c], read'[c], events'[c])
    PROVE  SmtpInv'
  BY DEF SmtpInv, Frame

\* Of who has sent nothing.
LEMMA SmtpNothing ==
    /\ SmtpNames(<<>>) = <<>> /\ SmtpGood(<<>>)
    /\ SmtpLog(<<>>) /\ SmtpHasName(<<>>) /\ SmtpLog(Connected) /\ SmtpHasName(Connected)
  <1>1. SmtpPlain(<<>>) = <<>>
    BY AtEmpty DEF SmtpPlain
  <1>2. DOMAIN <<>> = {} /\ [i \in {} |-> <<<<>>[i].user, <<>>[i].password>>] = <<>>
    OBVIOUS
  <1>3. SmtpNames(<<>>) = <<>>
    BY <1>1, <1>2 DEF SmtpNames
  <1>4. SmtpGood(<<>>)
    BY <1>2 DEF SmtpGood
  <1>5. Len(<<>>) = 0 /\ \A i : i \notin 1 .. 0
    OBVIOUS
  <1>6. SmtpLog(<<>>) /\ SmtpHasName(<<>>)
    BY <1>5 DEF SmtpLog, SmtpHasName
  <1>7. \A i \in 1 .. Len(Connected) : Connected[i].action # "login"
    <2>1. Len(Connected) = 1 /\ Connected[1].action # "login"
      BY DEF Connected
    <2>2. \A i \in 1 .. 1 : i = 1
      OBVIOUS
    <2> QED BY <2>1, <2>2, Zenon
  <1>8. SmtpLog(Connected) /\ SmtpHasName(Connected)
    BY <1>7 DEF SmtpLog, SmtpHasName
  <1> QED BY <1>3, <1>4, <1>6, <1>8

\* A connection nobody has made, and one that was just made.
LEMMA SmtpComes == SmtpOK("none", <<>>, <<>>) /\ SmtpOK("open", <<>>, Connected)
  <1>1. /\ Base(Chunks.smtp, "none", <<>>, <<>>) /\ Known("none", <<>>)
        /\ Base(Chunks.smtp, "open", <<>>, Connected) /\ Known("open", Connected)
        /\ Names(Connected) = <<>> /\ Names(<<>>) = <<>>
    BY Coming, NoEntries
  <1> QED BY <1>1, SmtpNothing DEF SmtpOK

\* A connection is lost.
LEMMA SmtpGoes ==
    ASSUME NEW l \in {"open", "closing"}, NEW r, NEW e, SmtpOK(l, r, e)
    PROVE  SmtpOK("lost", r, e)
  <1>1. Base(Chunks.smtp, "lost", r, e) /\ Known("lost", e)
    BY Going DEF SmtpOK
  <1> QED BY <1>1 DEF SmtpOK

\* One more command.
LEMMA SmtpMore ==
    ASSUME NEW r, IsLog(r), NEW chunk, NEW t, t = Append(r, chunk)
    PROVE  /\ IsLog(SmtpNames(r))
           /\ chunk.kind = "plain" => SmtpNames(t) = Append(SmtpNames(r), <<chunk.user, chunk.password>>)
           /\ chunk.kind # "plain" => SmtpNames(t) = SmtpNames(r)
  <1> DEFINE n == Len(r)
             I == {i \in DOMAIN r : r[i].kind = "plain"}
             J == {i \in DOMAIN t : t[i].kind = "plain"}
             s == SmtpPlain(r)
             q == SmtpPlain(t)
             m == Len(s)
             f == [i \in 1 .. m + 1 |-> <<q[i].user, q[i].password>>]
             g == [i \in 1 .. m |-> <<s[i].user, s[i].password>>]
  <1>1. PICK S : r \in Seq(S) /\ chunk \in S
    <2>1. PICK T : r \in Seq(T)
      BY DEF IsLog
    <2> DEFINE S == T \union {chunk}
    <2>2. \A u \in Seq(T) : u \in Seq(S)
      OBVIOUS
    <2> QED BY <2>1, <2>2
  <1>2. Grown(r, chunk, t, n)
    BY Growing
  <1>3. /\ n \in Nat /\ DOMAIN r = 1 .. n /\ DOMAIN t = 1 .. n + 1 /\ t[n + 1] = chunk
        /\ \A i \in 1 .. n : t[i] = r[i]
    BY <1>2 DEF Grown
  <1>4. (\A i \in 1 .. Len(r) : i \in I <=> i \in J) /\ (Len(r) + 1 \in J <=> chunk.kind = "plain")
    BY <1>3
  <1>5. s = At(r, I) /\ q = At(t, J)
    BY DEF SmtpPlain
  <1> HIDE DEF I, J
  <1>6. At(Append(r, chunk), J) = IF Len(r) + 1 \in J THEN Append(At(r, I), chunk) ELSE At(r, I)
    BY <1>1, <1>4, AtAppend
  <1>7. (chunk.kind = "plain" => q = Append(s, chunk)) /\ (chunk.kind # "plain" => q = s)
    BY <1>4, <1>5, <1>6
  <1>8. s \in Seq(S)
    BY <1>1, <1>5, AtType
  <1>9. SmtpNames(r) = [i \in DOMAIN s |-> <<s[i].user, s[i].password>>]
        /\ SmtpNames(t) = [i \in DOMAIN q |-> <<q[i].user, q[i].password>>]
    BY DEF SmtpNames
  <1>10. chunk.kind # "plain" => SmtpNames(t) = SmtpNames(r)
    BY <1>7, <1>9
  <1>11. m \in Nat /\ DOMAIN s = 1 .. m
    BY <1>8
  <1>12. IsLog(SmtpNames(r))
    <2> DEFINE T == {<<s[i].user, s[i].password>> : i \in 1 .. m}
    <2>1. g \in [1 .. m -> T] /\ SmtpNames(r) = g
      BY <1>9, <1>11
    <2> HIDE DEF g, T, m
    <2> QED BY <1>11, <2>1, FunctionIsSequence DEF IsLog
  <1>13. ASSUME chunk.kind = "plain" PROVE SmtpNames(t) = Append(SmtpNames(r), <<chunk.user, chunk.password>>)
    <2>1. IsLog(s) /\ q = Append(s, chunk)
      BY <1>7, <1>8, <1>13 DEF IsLog
    <2>2. Grown(s, chunk, q, m)
      BY <2>1, Growing
    <2>3. DOMAIN q = 1 .. m + 1 /\ q[m + 1] = chunk /\ \A i \in 1 .. m : q[i] = s[i]
      BY <2>2 DEF Grown
    <2> HIDE DEF s, q, m
    <2>4. f = [i \in 1 .. m + 1 |-> f[i]] /\ g = [i \in 1 .. m |-> f[i]] /\ f[m + 1] = <<chunk.user, chunk.password>>
      BY <1>11, <2>3
    <2>5. SmtpNames(r) = g /\ SmtpNames(t) = f
      BY <1>9, <1>11, <2>3
    <2> HIDE DEF f, g
    <2>6. f = Append(g, f[m + 1])
      BY <1>11, <2>4, OneMore
    <2> QED BY <2>4, <2>5, <2>6
  <1> QED BY <1>10, <1>12, <1>13

\* What a command does.
SmtpTurns(chunk, es, m) ==
    /\ IsLog(es) /\ m \in {"open", "lost"}
    /\ chunk.kind = "malformed" => m = "lost"
    /\ \/ /\ chunk.kind # "plain" /\ Names(es) = <<>>
          /\ \A i \in 1 .. Len(es) : es[i].action # "login"
       \/ /\ chunk.kind = "plain" /\ Names(es) = <<<<chunk.user, chunk.password>>>>
          /\ Len(es) = 2 /\ es[1].action # "login" /\ SmtpVerdict(es[1], es[2])

\* The verdicts in the log when a command has been added.
LEMMA SmtpVerdicts ==
    ASSUME NEW e, IsLog(e), SmtpLog(e), NEW es, NEW chunk, NEW m, SmtpTurns(chunk, es, m), NEW f, f = e \o es
    PROVE  SmtpLog(f)
  <1> DEFINE a == Len(e)  k == Len(es)
  <1>1. /\ a \in Nat /\ k \in Nat /\ Len(f) = a + k
        /\ \A i \in 1 .. a : f[i] = e[i]
        /\ \A i \in 1 .. k : f[a + i] = es[i]
    BY LogConcat DEF SmtpTurns
  <1>2. \A i \in 1 .. a : e[i].action = "login" => i - 1 \in 1 .. a /\ SmtpVerdict(e[i - 1], e[i])
    BY DEF SmtpLog
  <1>3. \/ \A i \in 1 .. k : es[i].action # "login"
        \/ k = 2 /\ es[1].action # "login" /\ SmtpVerdict(es[1], es[2])
    BY DEF SmtpTurns
  <1> HIDE DEF a, k
  <1>4. ASSUME NEW i \in 1 .. a + k, f[i].action = "login" PROVE i - 1 \in 1 .. a + k /\ SmtpVerdict(f[i - 1], f[i])
    <2>1. CASE i \in 1 .. a
      <3>1. i - 1 \in 1 .. a /\ SmtpVerdict(e[i - 1], e[i])
        BY <1>1, <1>2, <1>4, <2>1
      <3>2. i - 1 \in 1 .. a + k
        BY <1>1, <3>1
      <3> QED BY <1>1, <2>1, <3>1, <3>2
    <2>2. CASE i \notin 1 .. a
      <3> DEFINE j == i - a
      <3>1. j \in 1 .. k /\ i = a + j
        BY <1>1, <2>2
      <3>2. f[i] = es[j]
        BY <1>1, <3>1
      <3> HIDE DEF j
      <3>3. k = 2 /\ es[1].action # "login" /\ SmtpVerdict(es[1], es[2])
        BY <1>3, <1>4, <3>1, <3>2
      <3>4. j = 2
        BY <1>4, <3>1, <3>2, <3>3
      <3>5. i - 1 = a + 1 /\ a + 1 \in 1 .. a + k /\ 1 \in 1 .. k
        BY <1>1, <3>1, <3>3, <3>4
      <3>6. f[a + 1] = es[1]
        BY <1>1, <3>5
      <3> QED BY <3>2, <3>3, <3>4, <3>5, <3>6
    <2> QED BY <2>1, <2>2
  <1> QED BY <1>1, <1>4 DEF SmtpLog

\* A login in the log has a name.
LEMMA SmtpNamed ==
    ASSUME NEW e, IsLog(e), SmtpHasName(e), NEW es, NEW chunk, NEW m, SmtpTurns(chunk, es, m), NEW f, f = e \o es,
           Names(es) = <<>> => Names(f) = Names(e),
           chunk.kind = "plain" => Names(f) # <<>>
    PROVE  SmtpHasName(f)
  <1> DEFINE a == Len(e)  k == Len(es)
  <1>1. /\ a \in Nat /\ k \in Nat /\ Len(f) = a + k
        /\ \A i \in 1 .. a : f[i] = e[i]
        /\ \A i \in 1 .. k : f[a + i] = es[i]
    BY LogConcat DEF SmtpTurns
  <1>2. CASE chunk.kind = "plain"
    BY <1>2 DEF SmtpHasName
  <1>3. CASE chunk.kind # "plain"
    <2>1. Names(es) = <<>> /\ Names(f) = Names(e) /\ \A i \in 1 .. k : es[i].action # "login"
      BY <1>3 DEF SmtpTurns
    <2>2. \A i \in 1 .. a : e[i].action = "login" => Names(e) # <<>>
      BY DEF SmtpHasName
    <2> HIDE DEF a, k
    <2>3. ASSUME NEW i \in 1 .. a + k, f[i].action = "login" PROVE Names(f) # <<>>
      <3>1. CASE i \in 1 .. a
        BY <1>1, <2>1, <2>2, <2>3, <3>1
      <3>2. CASE i \notin 1 .. a
        <4> DEFINE j == i - a
        <4>1. j \in 1 .. k /\ i = a + j
          BY <1>1, <3>2
        <4> HIDE DEF j
        <4> QED BY <1>1, <2>1, <2>3, <4>1
      <3> QED BY <3>1, <3>2
    <2> QED BY <1>1, <2>3 DEF SmtpHasName
  <1> QED BY <1>2, <1>3

SmtpGoesOn(r, t, e, f, m) ==
    /\ SmtpOK(m, t, f)
    /\ Moves("open", m, SmtpOffers(r), SmtpOffers(t), Names(e), Names(f))

\* What is read, and what it makes of the connection.
LEMMA SmtpReads ==
    ASSUME NEW r, NEW e, SmtpOK("open", r, e), NEW chunk \in Chunks.smtp,
           NEW t, t = Append(r, chunk), NEW es, NEW f, f = e \o es,
           NEW m, SmtpTurns(chunk, es, m)
    PROVE  SmtpGoesOn(r, t, e, f, m)
  <1> DEFINE n == Len(r)
  <1>1. /\ Open(Chunks.smtp, r, e) /\ Known("open", e) /\ IsLog(r) /\ IsLog(e)
        /\ SmtpGood(r) /\ Names(e) = SmtpNames(r) /\ SmtpLog(e) /\ SmtpHasName(e)
    BY SequenceIsLog DEF SmtpOK, Open, Base
  <1>2. Grown(r, chunk, t, n)
    BY <1>1, Growing
  <1> HIDE DEF n
  <1>3. IsLog(es) /\ m \in {"open", "lost"} /\ (chunk.kind = "malformed" => m = "lost")
    BY DEF SmtpTurns
  <1>4. Entered(Chunks.smtp, m, t, e, es, f)
    BY <1>1, <1>3, ReadingEntries
  <1>5. /\ Base(Chunks.smtp, m, t, f) /\ Known(m, f)
        /\ Names(es) = <<>> => Names(f) = Names(e)
        /\ \A x : Names(es) = <<x>> => Names(f) = Append(Names(e), x)
    BY <1>4 DEF Entered
  <1>6. /\ IsLog(SmtpNames(r))
        /\ chunk.kind = "plain" => SmtpNames(t) = Append(SmtpNames(r), <<chunk.user, chunk.password>>)
        /\ chunk.kind # "plain" => SmtpNames(t) = SmtpNames(r)
    BY <1>1, SmtpMore
  <1>7. SmtpLog(f)
    BY <1>1, SmtpVerdicts
  <1>8. m # "lost" => SmtpGood(t)
    <2>1. /\ n \in Nat /\ DOMAIN r = 1 .. n /\ DOMAIN t = 1 .. n + 1 /\ t[n + 1] = chunk
          /\ \A i \in 1 .. n : t[i] = r[i]
      BY <1>2 DEF Grown
    <2>2. \A i \in 1 .. n + 1 : i \in 1 .. n \/ i = n + 1
      BY <2>1
    <2> QED BY <1>1, <1>3, <2>1, <2>2 DEF SmtpGood
  <1>a. CASE chunk.kind # "plain"
    <2>1. Names(es) = <<>> /\ Names(f) = Names(e) /\ SmtpNames(t) = SmtpNames(r)
      BY <1>5, <1>6, <1>a DEF SmtpTurns
    <2>2. SmtpHasName(f)
      BY <1>1, <1>5, <1>a, SmtpNamed
    <2>3. SmtpOK(m, t, f)
      BY <1>1, <1>3, <1>5, <1>7, <1>8, <2>1, <2>2 DEF SmtpOK
    <2>4. SmtpOffers(t) = SmtpOffers(r)
      BY <2>1 DEF SmtpOffers
    <2> QED BY <1>3, <2>1, <2>3, <2>4 DEF SmtpGoesOn, Moves, PhaseOf
  <1>b. CASE chunk.kind = "plain"
    <2> DEFINE x == <<chunk.user, chunk.password>>
    <2>1. Names(es) = <<x>>
      BY <1>b DEF SmtpTurns
    <2>2. SmtpNames(t) = Append(SmtpNames(r), x)
      BY <1>6, <1>b
    <2> HIDE DEF x
    <2>3. Names(f) = Append(Names(e), x)
      BY <1>5, <2>1
    <2>4. IsLog(Names(e)) /\ Names(f) = Append(SmtpNames(r), x)
      BY <1>1, <1>6, <2>3
    <2>5. Grown(Names(e), x, Names(f), Len(Names(e)))
      BY <2>3, <2>4, Growing
    <2>6. Names(f) # <<>>
      <3> DEFINE k == Len(Names(e))
      <3>1. k \in Nat /\ DOMAIN Names(f) = 1 .. k + 1
        BY <2>5 DEF Grown
      <3> HIDE DEF k
      <3>2. 1 \in DOMAIN Names(f) /\ DOMAIN <<>> = {}
        BY <3>1
      <3> QED BY <3>2
    <2>7. SmtpHasName(f)
      BY <1>1, <1>5, <2>6, SmtpNamed
    <2>8. SmtpOK(m, t, f)
      BY <1>1, <1>3, <1>5, <1>7, <1>8, <2>2, <2>4, <2>7 DEF SmtpOK
    <2>9. SmtpOffers(t) = SmtpOffers(r) \union {x}
      BY <1>6, <2>2, ElementsAppend DEF SmtpOffers
    <2> QED BY <1>3, <2>3, <2>8, <2>9 DEF SmtpGoesOn, Moves, PhaseOf
  <1> QED BY <1>a, <1>b

\* Every step of the honeypot keeps its invariant, and is one LoginCapture allows.
LEMMA SmtpStep ==
    ASSUME SmtpInv, Smtp!Next, UNCHANGED <<server, state, user, buffer, answers, replies>>
    PROVE  SmtpInv' /\ \E c \in Conns : SmtpMoves(c)
  <1>0. Rows
    BY DEF SmtpInv
  <1>1. ASSUME NEW c \in Conns, Smtp!Accept(c) PROVE SmtpInv' /\ SmtpMoves(c)
    <2>1. /\ link[c] = "none" /\ link'[c] = "open" /\ read'[c] = read[c] /\ events'[c] = Connected
           /\ Frame(c)
      BY <1>0, <1>1 DEF Smtp!Accept, Connected, Rows, IsRow, Frame
    <2>2. SmtpOK("none", read[c], events[c])
      BY <2>1 DEF SmtpInv
    <2>3. read[c] = <<>> /\ events[c] = <<>>
      BY <2>2 DEF SmtpOK, Base
    <2>4. SmtpOK("open", <<>>, Connected)
      BY SmtpComes
    <2>5. SmtpInv'
      BY <2>1, <2>3, <2>4, SmtpFrame
    <2> QED BY <2>1, <2>3, <2>5, Coming, NoEntries DEF SmtpMoves, Moved, Moves, PhaseOf
  <1>2. ASSUME NEW c \in Conns, Smtp!ConnectionLost(c) PROVE SmtpInv' /\ SmtpMoves(c)
    <2>1. /\ link[c] \in {"open", "closing"} /\ link'[c] = "lost" /\ read'[c] = read[c]
          /\ events'[c] = events[c] /\ Frame(c)
      BY <1>0, <1>2 DEF Smtp!ConnectionLost, Rows, IsRow, Frame
    <2>2. SmtpOK(link[c], read[c], events[c])
      BY DEF SmtpInv
    <2>3. SmtpOK("lost", read[c], events[c])
      BY <2>1, <2>2, SmtpGoes
    <2>4. SmtpInv'
      BY <2>1, <2>3, SmtpFrame
    <2> QED BY <2>1, <2>4 DEF SmtpMoves, Moved, Moves, PhaseOf
  <1>3. ASSUME NEW c \in Conns, NEW line \in Chunks.smtp,
               \/ Smtp!Auth(c, line) \/ Smtp!AuthRaises(c, line) \/ Smtp!Command(c, line)
        PROVE  SmtpInv' /\ SmtpMoves(c)
    <2>1. /\ link[c] = "open" /\ read'[c] = Append(read[c], line) /\ Frame(c)
      BY <1>0, <1>3 DEF Smtp!Auth, Smtp!AuthRaises, Smtp!Command, Smtp!Received, Smtp!LogAll, Smtp!Raises,
                        Rows, IsRow, Frame
    <2>2. SmtpOK("open", read[c], events[c])
      BY <2>1 DEF SmtpInv
    <2> DEFINE con == [action |-> "connection", data |-> line]
    <2>3. con.action # "login" /\ con.data = line
      OBVIOUS
    <2>4. Smtp!Seen(line) = IF line.kind = "hello" THEN <<>> ELSE <<con>>
      BY DEF Smtp!Seen
    <2> HIDE DEF con
    <2>5. IsLog(<<con>>) /\ Len(<<con>>) = 1 /\ <<con>>[1] = con /\ Names(<<con>>) = <<>>
      BY <2>3, SingleEntry
    <2>6. ASSUME line.kind # "plain" PROVE
            /\ IsLog(Smtp!Seen(line)) /\ Names(Smtp!Seen(line)) = <<>>
            /\ \A i \in 1 .. Len(Smtp!Seen(line)) : Smtp!Seen(line)[i].action # "login"
      <3>1. CASE line.kind = "hello"
        <4>1. Smtp!Seen(line) = <<>> /\ Len(<<>>) = 0 /\ \A i : i \notin 1 .. 0
          BY <2>4, <3>1
        <4> QED BY <4>1, NoEntries
      <3>2. CASE line.kind # "hello"
        <4>1. Smtp!Seen(line) = <<con>> /\ \A i \in 1 .. 1 : i = 1
          BY <2>4, <3>2
        <4> HIDE DEF con
        <4> QED BY <2>3, <2>5, <4>1
      <3> QED BY <3>1, <3>2
    <2>7. \E es : events'[c] = events[c] \o es /\ SmtpTurns(line, es, link'[c])
      <3>1. CASE Smtp!Auth(c, line)
        <4> DEFINE u == line.user  p == line.password  ok == Smtp!LoginIsCorrect(u, p)
                   x == Entry(u, p, ok)  es == <<con>> \o <<x>>
        <4>1. line.kind = "plain" /\ link'[c] = "open" /\ events'[c] = events[c] \o (Smtp!Seen(line) \o <<x>>)
          BY <1>0, <3>1 DEF Smtp!Auth, Smtp!Received, Smtp!LogAll, Smtp!LoginEvent, Entry, Rows, IsRow
        <4>2. Smtp!Seen(line) = <<con>>
          BY <2>4, <4>1
        <4>3. /\ x.action = "login" /\ x.username = u /\ x.password = p
              /\ x.status = "success" <=> <<u, p>> = Configured.smtp
          BY DEF Entry, Smtp!LoginIsCorrect
        <4> HIDE DEF x, ok
        <4>4. IsLog(es) /\ Names(es) = <<<<x.username, x.password>>>>
          BY <2>5, <4>3, LoginLast
        <4>5. IsLog(<<x>>) /\ Len(<<x>>) = 1 /\ <<x>>[1] = x
          BY SingleEntry
        <4>6. Len(es) = 2 /\ es[1] = con /\ es[2] = x
          <5>1. 1 \in 1 .. 1 /\ 1 + 1 = 2
            OBVIOUS
          <5>2. /\ Len(es) = Len(<<con>>) + Len(<<x>>)
                /\ \A i \in 1 .. Len(<<con>>) : es[i] = <<con>>[i]
                /\ \A i \in 1 .. Len(<<x>>) : es[Len(<<con>>) + i] = <<x>>[i]
            BY <2>5, <4>5, LogConcat
          <5> HIDE DEF es
          <5> QED BY <2>5, <4>5, <5>1, <5>2
        <4>7. events'[c] = events[c] \o es
          BY <4>1, <4>2
        <4> HIDE DEF es
        <4>8. SmtpVerdict(es[1], es[2])
          BY <2>3, <4>3, <4>6 DEF SmtpVerdict
        <4>9. SmtpTurns(line, es, link'[c])
          BY <2>3, <4>1, <4>3, <4>4, <4>6, <4>8 DEF SmtpTurns
        <4> QED BY <4>7, <4>9
      <3>2. CASE Smtp!AuthRaises(c, line)
        <4>1. events'[c] = events[c] \o Smtp!Seen(line) /\ line.kind = "malformed" /\ link'[c] = "lost"
          BY <1>0, <3>2 DEF Smtp!AuthRaises, Smtp!Raises, Smtp!Received, Smtp!LogAll, Rows, IsRow
        <4>2. line.kind # "plain"
          BY <4>1
        <4>3. SmtpTurns(line, Smtp!Seen(line), link'[c])
          BY <2>6, <4>1, <4>2 DEF SmtpTurns
        <4> QED BY <4>1, <4>3
      <3>3. CASE Smtp!Command(c, line)
        <4>1. events'[c] = events[c] \o Smtp!Seen(line) /\ line.kind \in {"hello", "auth", "other"} /\ link'[c] = "open"
          BY <1>0, <3>3 DEF Smtp!Command, Smtp!Received, Smtp!LogAll, Rows, IsRow
        <4>2. line.kind # "plain" /\ line.kind # "malformed"
          BY <4>1
        <4>3. SmtpTurns(line, Smtp!Seen(line), link'[c])
          BY <2>6, <4>1, <4>2 DEF SmtpTurns
        <4> QED BY <4>1, <4>3
      <3> QED BY <1>3, <3>1, <3>2, <3>3
    <2>8. PICK es : events'[c] = events[c] \o es /\ SmtpTurns(line, es, link'[c])
      BY <2>7
    <2>9. SmtpGoesOn(read[c], read'[c], events[c], events'[c], link'[c])
      BY <2>1, <2>2, <2>8, SmtpReads
    <2>10. SmtpOK(link'[c], read'[c], events'[c])
      BY <2>9 DEF SmtpGoesOn
    <2>11. SmtpInv'
      BY <2>1, <2>10, SmtpFrame
    <2> QED BY <2>1, <2>9, <2>11 DEF SmtpMoves, Moved, SmtpGoesOn
  <1> QED BY <1>1, <1>2, <1>3 DEF Smtp!Next

\* The invariant holds at the start.
LEMMA SmtpBegins ==
    ASSUME Smtp!Init, state = Nothing, user = Nothing, buffer = Nothing, answers = Nothing, replies = Nothing
    PROVE  SmtpInv
  <1>1. /\ link = [c \in Conns |-> "none"] /\ read = [c \in Conns |-> <<>>]
        /\ events = [c \in Conns |-> <<>>]
    BY DEF Smtp!Init, Smtp!ConnectionsInit
  <1>2. Rows
    BY <1>1 DEF Rows, IsRow, Nothing
  <1>3. SmtpOK("none", <<>>, <<>>)
    BY SmtpComes
  <1> QED BY <1>1, <1>2, <1>3 DEF SmtpInv

\* The invariant implies the properties of the honeypot, and what is offered is what was said.
LEMMA SmtpSafe ==
    ASSUME SmtpInv
    PROVE  /\ Smtp!TypeOK /\ Smtp!EveryAuthIsLogged
           /\ \A c \in Conns : Smtp!Offered(c) = SmtpOffers(read[c])
  <1>1. ASSUME NEW c \in Conns
        PROVE  /\ link[c] \in Links /\ read[c] \in Seq(Chunks.smtp) /\ IsLog(events[c])
               /\ link[c] = "none" <=> events[c] = <<>>
               /\ link[c] \in {"open", "closing"} => SmtpGood(read[c])
               /\ Names(events[c]) = SmtpNames(read[c])
               /\ SmtpLog(events[c]) /\ SmtpHasName(events[c])
    <2>1. SmtpOK(link[c], read[c], events[c])
      BY DEF SmtpInv
    <2> QED BY <2>1, Basics DEF SmtpOK
  <1>2. Smtp!TypeOK
    BY <1>1 DEF SmtpInv, Rows, IsRow, Smtp!TypeOK, Smtp!ConnectionsTypeOK, Links, SmtpGood
  <1>3. \A c \in Conns : Smtp!Captured(c) = Names(events[c])
    BY IsNames DEF Smtp!Captured, Telnet!Captured, Smtp!Logins, Telnet!Logins, Smtp!Matching, Telnet!Matching,
             Smtp!Positions, Telnet!Positions, Smtp!At, Telnet!At
  <1>4. \A c \in Conns : Smtp!Plain(c) = SmtpPlain(read[c])
    BY DEF Smtp!Plain, SmtpPlain, Smtp!At, At
  <1>5. \A c \in Conns : Smtp!Offered(c) = SmtpOffers(read[c])
    BY <1>4 DEF Smtp!Offered, SmtpOffers, Elements, SmtpNames
  <1>6. Smtp!EveryAuthIsLogged
    <2> SUFFICES ASSUME NEW c \in Conns
                 PROVE  /\ Smtp!Captured(c) =
                             [i \in DOMAIN Smtp!Plain(c) |-> <<Smtp!Plain(c)[i].user, Smtp!Plain(c)[i].password>>]
                        /\ \A i \in DOMAIN events[c] : events[c][i].action = "login" =>
                              /\ events[c][i - 1].data.password = events[c][i].password
                              /\ events[c][i].status = "success" <=> Smtp!Captured(c) # <<>>
                                    /\ <<events[c][i].username, events[c][i].password>> = Configured.smtp
      BY DEF Smtp!EveryAuthIsLogged
    <2>1. Smtp!Captured(c) = [i \in DOMAIN Smtp!Plain(c) |-> <<Smtp!Plain(c)[i].user, Smtp!Plain(c)[i].password>>]
      BY <1>1, <1>3, <1>4 DEF SmtpNames
    <2>2. DOMAIN events[c] = 1 .. Len(events[c])
      BY <1>1, LogConcat
    <2>3. ASSUME NEW i \in DOMAIN events[c], events[c][i].action = "login"
          PROVE  /\ events[c][i - 1].data.password = events[c][i].password
                 /\ events[c][i].status = "success" <=> Smtp!Captured(c) # <<>>
                       /\ <<events[c][i].username, events[c][i].password>> = Configured.smtp
      <3>1. SmtpVerdict(events[c][i - 1], events[c][i]) /\ Names(events[c]) # <<>>
        BY <1>1, <2>2, <2>3 DEF SmtpLog, SmtpHasName
      <3> QED BY <1>3, <3>1 DEF SmtpVerdict
    <2> QED BY <2>1, <2>3
  <1> QED BY <1>2, <1>5, <1>6

-------------------------------------------------------------------------------
(* irc (irc_server.py:31-62): the password that is kept is that of the last PASS *)

IrcNick(line) == IF Len(line) = 2 THEN line[2] ELSE ""

IrcFirst(x) == x[1] = "PASS" /\ Len(x) = 2
IrcSecond(x) == x[1] = "NICK"

IrcHas(r, i, k) == i \in DOMAIN r /\ k \in DOMAIN r /\ i < k /\ IrcFirst(r[i]) /\ IrcSecond(r[k])
IrcIs(y, r, i, k) == y = <<IrcNick(r[k]), r[i][2]>>
IrcPairs(r) == {y \in (DOMAIN r) \X (DOMAIN r) : y[1] < y[2] /\ IrcFirst(r[y[1]]) /\ IrcSecond(r[y[2]])}

IrcWith(r) == {<<IrcNick(r[x[2]]), r[x[1]][2]>> : x \in IrcPairs(r)}

IrcAlone(r) == {<<IrcNick(r[i]), "None">> : i \in {k \in DOMAIN r : r[k][1] = "NICK"}}
IrcOffers(r) == IrcAlone(r) \union IrcWith(r)

IrcToCapture(r) == IF CaptureCommands THEN Dropping(r, {<<"binary">>}) ELSE <<>>

IrcNicks(r) == {i \in DOMAIN r : IrcSecond(r[i])}
IrcPasses(r) == {i \in DOMAIN r : IrcFirst(r[i])}
IrcBefore(r, n) == {p \in IrcPasses(r) : p < n}
IrcUpTo(r, n) == {m \in IrcNicks(r) : m <= n}

\* What a nick at n is logged with.
IrcPassword(r, before) == IF before = {} THEN "None" ELSE r[Latest(before)][2]
IrcLogin(r, n) == <<IrcNick(r[n]), IrcPassword(r, IrcBefore(r, n))>>

IrcNames(names, r) ==
    /\ Len(names) = Cardinality(IrcNicks(r))
    /\ \A n \in IrcNicks(r) : names[Cardinality(IrcUpTo(r, n))] = IrcLogin(r, n)

\* The last PASS is remembered.
IrcUser(r, u) == u = IF IrcPasses(r) = {} THEN NoUser ELSE r[Latest(IrcPasses(r))][2]

IrcOK(l, r, e, u) ==
    /\ Base(Chunks.irc, l, r, e) /\ Known(l, e)
    /\ l = "none" => u = NoUser
    /\ IrcUser(r, u)
    /\ IrcNames(Names(e), r)
    /\ Data(e, "command") = IrcToCapture(r)

IrcInv == Rows /\ \A c \in Conns : IrcOK(link[c], read[c], events[c], user[c])

IrcMoves(c) == Frame(c) /\ Moved(c, IrcOffers(read[c]), IrcOffers(read'[c]))

\* Of a step of one connection, only that one needs a look.
LEMMA IrcFrame ==
    ASSUME IrcInv, NEW c \in Conns, Frame(c),
           IrcOK(link'[c], read'[c], events'[c], user'[c])
    PROVE  IrcInv'
  BY DEF IrcInv, Frame

\* Of who has sent nothing.
LEMMA IrcNothing == IrcUser(<<>>, NoUser) /\ IrcNames(<<>>, <<>>) /\ IrcToCapture(<<>>) = <<>>
  <1>1. DOMAIN <<>> = {} /\ Len(<<>>) = 0
    OBVIOUS
  <1>2. IrcNicks(<<>>) = {} /\ IrcPasses(<<>>) = {}
    BY <1>1 DEF IrcNicks, IrcPasses
  <1>3. Cardinality({}) = 0
    BY FS_EmptySet
  <1>4. Cardinality(IrcNicks(<<>>)) = 0
    BY <1>2, <1>3
  <1>5. IrcNames(<<>>, <<>>)
    BY <1>1, <1>2, <1>4 DEF IrcNames
  <1>6. IrcToCapture(<<>>) = <<>>
    BY DroppingEmpty DEF IrcToCapture
  <1> QED BY <1>2, <1>5, <1>6 DEF IrcUser

\* A connection nobody has made, and one that was just made.
LEMMA IrcComes ==
    /\ IrcOK("none", <<>>, <<>>, NoUser)
    /\ IrcOK("open", <<>>, Connected, NoUser)
  <1>1. /\ Base(Chunks.irc, "none", <<>>, <<>>) /\ Known("none", <<>>)
        /\ Base(Chunks.irc, "open", <<>>, Connected) /\ Known("open", Connected)
        /\ Names(Connected) = <<>> /\ Names(<<>>) = <<>>
        /\ Data(Connected, "command") = <<>> /\ Data(<<>>, "command") = <<>>
    BY Coming, NoEntries
  <1>2. IrcNames(Names(<<>>), <<>>) /\ IrcNames(Names(Connected), <<>>)
    BY <1>1, IrcNothing
  <1> QED BY <1>1, <1>2, IrcNothing DEF IrcOK

\* A connection is lost.
LEMMA IrcGoes ==
    ASSUME NEW l \in {"open", "closing"}, NEW r, NEW e, NEW u, IrcOK(l, r, e, u)
    PROVE  IrcOK("lost", r, e, u)
  <1>1. Base(Chunks.irc, "lost", r, e) /\ Known("lost", e)
    BY Going DEF IrcOK
  <1> QED BY <1>1 DEF IrcOK

\* What is offered, by positions.
LEMMA IrcOffer == \A r, y : y \in IrcWith(r) <=> \E i, k : IrcHas(r, i, k) /\ IrcIs(y, r, i, k)
  <1>1. \A r, y : y \in IrcWith(r) <=> \E x \in IrcPairs(r) : y = <<IrcNick(r[x[2]]), r[x[1]][2]>>
    BY DEF IrcWith
  <1>2. \A r, p : p \in IrcPairs(r) => IrcHas(r, p[1], p[2])
    BY DEF IrcPairs, IrcHas
  <1>3. ASSUME NEW r, NEW i, NEW k, IrcHas(r, i, k)
        PROVE  \E p \in IrcPairs(r) : p[1] = i /\ p[2] = k
    <2> DEFINE p == <<i, k>>
    <2>1. p[1] = i /\ p[2] = k /\ i \in DOMAIN r /\ k \in DOMAIN r
      BY <1>3 DEF IrcHas
    <2>2. p \in (DOMAIN r) \X (DOMAIN r)
      BY <2>1
    <2> HIDE DEF p
    <2>3. p \in IrcPairs(r)
      BY <1>3, <2>1, <2>2 DEF IrcPairs, IrcHas
    <2> QED BY <2>1, <2>3
  <1> QED BY <1>1, <1>2, <1>3 DEF IrcIs

\* What was offered stays offered.
LEMMA IrcKeeps ==
    ASSUME NEW r, NEW n, NEW chunk, NEW t, Grown(r, chunk, t, n)
    PROVE  IrcWith(r) \subseteq IrcWith(t)
  <1> SUFFICES ASSUME NEW y, y \in IrcWith(r) PROVE y \in IrcWith(t)
    OBVIOUS
  <1>1. PICK i, k : IrcHas(r, i, k) /\ IrcIs(y, r, i, k)
    BY IrcOffer
  <1>2. i \in 1 .. n /\ k \in 1 .. n /\ n \in Nat
    BY <1>1 DEF IrcHas, Grown
  <1>3. i \in DOMAIN t /\ k \in DOMAIN t /\ t[i] = r[i] /\ t[k] = r[k]
    BY <1>2 DEF Grown
  <1>4. IrcHas(t, i, k) /\ IrcIs(y, t, i, k)
    BY <1>1, <1>3 DEF IrcHas, IrcIs
  <1> QED BY <1>4, IrcOffer

\* What the last chunk adds to what is offered.
LEMMA IrcGains ==
    ASSUME NEW r, NEW n, NEW chunk, NEW t, Grown(r, chunk, t, n),
           NEW i \in DOMAIN r, IrcFirst(r[i]), IrcSecond(chunk),
           NEW y, y = <<IrcNick(chunk), r[i][2]>>
    PROVE  y \in IrcWith(t)
  <1>1. n \in Nat /\ i \in 1 .. n /\ DOMAIN t = 1 .. n + 1 /\ t[n + 1] = chunk /\ t[i] = r[i]
    BY DEF Grown
  <1>2. i \in DOMAIN t /\ n + 1 \in DOMAIN t /\ i < n + 1
    BY <1>1
  <1>3. IrcHas(t, i, n + 1) /\ IrcIs(y, t, i, n + 1)
    BY <1>1, <1>2 DEF IrcHas, IrcIs
  <1> QED BY <1>3, IrcOffer

\* The positions of passes and of nicks, and those before them.
LEMMA IrcPositions ==
    ASSUME NEW r, NEW n, NEW chunk, NEW t, Grown(r, chunk, t, n)
    PROVE  /\ n \in Nat /\ IrcNicks(r) \subseteq 1 .. n /\ IrcPasses(r) \subseteq 1 .. n
           /\ IrcSecond(chunk) => IrcNicks(t) = IrcNicks(r) \union {n + 1}
           /\ ~IrcSecond(chunk) => IrcNicks(t) = IrcNicks(r)
           /\ IrcFirst(chunk) => IrcPasses(t) = IrcPasses(r) \union {n + 1}
           /\ ~IrcFirst(chunk) => IrcPasses(t) = IrcPasses(r)
           /\ \A k \in 1 .. n : IrcUpTo(t, k) = IrcUpTo(r, k) /\ IrcBefore(t, k) = IrcBefore(r, k)
  <1>1. /\ n \in Nat /\ DOMAIN r = 1 .. n /\ DOMAIN t = 1 .. n + 1 /\ t[n + 1] = chunk
        /\ \A i \in 1 .. n : t[i] = r[i]
    BY DEF Grown
  <1>2. \A i : i \in 1 .. n + 1 <=> i \in 1 .. n \/ i = n + 1
    BY <1>1
  <1>3. n + 1 \notin 1 .. n
    BY <1>1
  <1>4. \A q, i : (i \in IrcNicks(q) <=> i \in DOMAIN q /\ IrcSecond(q[i]))
                  /\ (i \in IrcPasses(q) <=> i \in DOMAIN q /\ IrcFirst(q[i]))
    BY DEF IrcNicks, IrcPasses
  <1>5. \A i : /\ i \in IrcNicks(t) <=> i \in IrcNicks(r) \/ (i = n + 1 /\ IrcSecond(chunk))
               /\ i \in IrcPasses(t) <=> i \in IrcPasses(r) \/ (i = n + 1 /\ IrcFirst(chunk))
    BY <1>1, <1>2, <1>3, <1>4
  <1>6. IrcNicks(r) \subseteq 1 .. n /\ IrcPasses(r) \subseteq 1 .. n
    BY <1>1, <1>4
  <1>7. /\ IrcSecond(chunk) => IrcNicks(t) = IrcNicks(r) \union {n + 1}
        /\ ~IrcSecond(chunk) => IrcNicks(t) = IrcNicks(r)
        /\ IrcFirst(chunk) => IrcPasses(t) = IrcPasses(r) \union {n + 1}
        /\ ~IrcFirst(chunk) => IrcPasses(t) = IrcPasses(r)
    BY <1>5, Zenon
  <1>8. ASSUME NEW k \in 1 .. n
        PROVE  IrcUpTo(t, k) = IrcUpTo(r, k) /\ IrcBefore(t, k) = IrcBefore(r, k)
    <2>1. \A q, i : (i \in IrcUpTo(q, k) <=> i \in IrcNicks(q) /\ i <= k)
                    /\ (i \in IrcBefore(q, k) <=> i \in IrcPasses(q) /\ i < k)
      BY DEF IrcUpTo, IrcBefore
    <2>2. ~(n + 1 <= k) /\ ~(n + 1 < k)
      BY <1>1
    <2>3. \A i : (i \in IrcUpTo(t, k) <=> i \in IrcUpTo(r, k))
                 /\ (i \in IrcBefore(t, k) <=> i \in IrcBefore(r, k))
      BY <1>5, <2>1, <2>2, Zenon
    <2> QED BY <2>3
  <1> QED BY <1>1, <1>6, <1>7, <1>8

\* What was said of earlier nicks stays.
LEMMA IrcStays ==
    ASSUME NEW r, NEW n, NEW chunk, NEW t, Grown(r, chunk, t, n)
    PROVE  \A k \in IrcNicks(r) : IrcUpTo(t, k) = IrcUpTo(r, k) /\ IrcLogin(t, k) = IrcLogin(r, k)
  <1>1. /\ n \in Nat /\ IrcNicks(r) \subseteq 1 .. n /\ IrcPasses(r) \subseteq 1 .. n
        /\ \A k \in 1 .. n : IrcUpTo(t, k) = IrcUpTo(r, k) /\ IrcBefore(t, k) = IrcBefore(r, k)
    BY IrcPositions
  <1>2. \A i \in 1 .. n : t[i] = r[i]
    BY DEF Grown
  <1>3. ASSUME NEW k \in IrcNicks(r) PROVE IrcUpTo(t, k) = IrcUpTo(r, k) /\ IrcLogin(t, k) = IrcLogin(r, k)
    <2> DEFINE before == IrcBefore(r, k)
    <2>1. k \in 1 .. n /\ t[k] = r[k] /\ IrcUpTo(t, k) = IrcUpTo(r, k) /\ IrcBefore(t, k) = before
      BY <1>1, <1>2
    <2>2. before \in SUBSET (1 .. n)
      BY <1>1 DEF IrcBefore
    <2> HIDE DEF before
    <2>3. before # {} => Latest(before) \in 1 .. n
      BY <1>1, <2>2, LatestIs
    <2>4. before # {} => t[Latest(before)] = r[Latest(before)]
      BY <1>2, <2>3
    <2>5. IrcPassword(t, before) = IrcPassword(r, before)
      BY <2>4 DEF IrcPassword
    <2>6. IrcLogin(t, k) = IrcLogin(r, k)
      BY <2>1, <2>5 DEF IrcLogin, before
    <2> QED BY <2>1, <2>6
  <1> QED BY <1>3

\* The positions of logins in the log.
LEMMA IrcCounts ==
    ASSUME NEW n \in Nat, NEW r, IrcNicks(r) \subseteq 1 .. n
    PROVE  /\ IsFiniteSet(IrcNicks(r)) /\ Cardinality(IrcNicks(r)) \in Nat
           /\ \A k \in IrcNicks(r) : Cardinality(IrcUpTo(r, k)) \in 1 .. Cardinality(IrcNicks(r))
  <1>1. IsFiniteSet(IrcNicks(r))
    <2>1. IsFiniteSet(1 .. n)
      BY FS_Interval
    <2> QED BY <2>1, FS_Subset
  <1>2. Cardinality(IrcNicks(r)) \in Nat
    BY <1>1, FS_CardinalityType
  <1>3. ASSUME NEW k \in IrcNicks(r) PROVE Cardinality(IrcUpTo(r, k)) \in 1 .. Cardinality(IrcNicks(r))
    <2> DEFINE S == IrcUpTo(r, k)
    <2>1. S \subseteq IrcNicks(r)
      BY DEF IrcUpTo
    <2>2. k \in S
      <3>1. k \in Nat /\ k <= k
        OBVIOUS
      <3> QED BY <3>1 DEF IrcUpTo
    <2> HIDE DEF S
    <2>3. IsFiniteSet(S) /\ Cardinality(S) <= Cardinality(IrcNicks(r)) /\ Cardinality(S) \in Nat
      BY <1>1, <2>1, FS_Subset, FS_CardinalityType
    <2>4. Cardinality(S) # 0
      BY <2>2, <2>3, FS_EmptySet
    <2>5. Cardinality(S) \in 1 .. Cardinality(IrcNicks(r))
      BY <1>2, <2>3, <2>4
    <2> QED BY <2>5 DEF S
  <1> QED BY <1>1, <1>2, <1>3

\* A line that is no NICK.
LEMMA IrcSameNames ==
    ASSUME NEW r, NEW n, NEW chunk, NEW t, Grown(r, chunk, t, n), NEW names, IrcNames(names, r), ~IrcSecond(chunk)
    PROVE  IrcNames(names, t)
  <1>1. IrcNicks(t) = IrcNicks(r)
    BY IrcPositions
  <1>2. \A k \in IrcNicks(r) : IrcUpTo(t, k) = IrcUpTo(r, k) /\ IrcLogin(t, k) = IrcLogin(r, k)
    BY IrcStays
  <1>3. Len(names) = Cardinality(IrcNicks(t))
    BY <1>1 DEF IrcNames
  <1>4. \A k \in IrcNicks(t) : names[Cardinality(IrcUpTo(t, k))] = IrcLogin(t, k)
    BY <1>1, <1>2 DEF IrcNames
  <1> QED BY <1>3, <1>4 DEF IrcNames

\* A NICK, whose login is the next.
LEMMA IrcOneMore ==
    ASSUME NEW r, NEW n, NEW chunk, NEW t, Grown(r, chunk, t, n), NEW names, IsLog(names), IrcNames(names, r),
           IrcSecond(chunk), ~IrcFirst(chunk), NEW x, NEW more, more = Append(names, x),
           x = <<IrcNick(chunk), IrcPassword(r, IrcPasses(r))>>
    PROVE  IrcNames(more, t)
  <1> DEFINE m == Len(names)
  <1>1. Grown(names, x, more, m)
    BY Growing
  <1>2. /\ m \in Nat /\ more[m + 1] = x /\ \A i \in 1 .. m : more[i] = names[i]
    BY <1>1 DEF Grown
  <1>3. Len(more) = m + 1
    BY LogAppend
  <1>4. m = Cardinality(IrcNicks(r)) /\ \A k \in IrcNicks(r) : names[Cardinality(IrcUpTo(r, k))] = IrcLogin(r, k)
    BY DEF IrcNames
  <1> HIDE DEF m
  <1>5. /\ n \in Nat /\ IrcNicks(r) \subseteq 1 .. n /\ IrcPasses(r) \subseteq 1 .. n
        /\ IrcNicks(t) = IrcNicks(r) \union {n + 1} /\ IrcPasses(t) = IrcPasses(r)
    BY IrcPositions
  <1>6. /\ IsFiniteSet(IrcNicks(r))
        /\ \A k \in IrcNicks(r) : Cardinality(IrcUpTo(r, k)) \in 1 .. Cardinality(IrcNicks(r))
    BY <1>5, IrcCounts
  <1>7. n + 1 \notin IrcNicks(r)
    <2>1. n + 1 \notin 1 .. n
      BY <1>5
    <2> QED BY <1>5, <2>1
  <1>8. Cardinality(IrcNicks(t)) = m + 1
    <2>1. Cardinality(IrcNicks(r) \union {n + 1}) = Cardinality(IrcNicks(r)) + 1
      BY <1>6, <1>7, FS_AddElement
    <2> QED BY <1>4, <1>5, <2>1
  <1>9. ASSUME NEW k \in IrcNicks(r) PROVE more[Cardinality(IrcUpTo(t, k))] = IrcLogin(t, k)
    <2> DEFINE i == Cardinality(IrcUpTo(r, k))
    <2>1. i \in 1 .. m
      BY <1>4, <1>6
    <2>2. names[i] = IrcLogin(r, k)
      BY <1>4
    <2>3. IrcUpTo(t, k) = IrcUpTo(r, k) /\ IrcLogin(t, k) = IrcLogin(r, k)
      BY IrcStays
    <2> HIDE DEF i
    <2>4. more[i] = IrcLogin(r, k)
      BY <1>2, <2>1, <2>2
    <2> QED BY <2>3, <2>4 DEF i
  <1>10. more[Cardinality(IrcUpTo(t, n + 1))] = IrcLogin(t, n + 1)
    <2>1. IrcUpTo(t, n + 1) = IrcNicks(t)
      <3>1. \A i \in IrcNicks(t) : i <= n + 1
        BY <1>5
      <3> QED BY <3>1 DEF IrcUpTo
    <2>2. IrcBefore(t, n + 1) = IrcPasses(r)
      <3>1. \A i \in IrcPasses(r) : i < n + 1
        BY <1>5
      <3> QED BY <1>5, <3>1 DEF IrcBefore
    <2>3. IrcPassword(t, IrcPasses(r)) = IrcPassword(r, IrcPasses(r))
      <3> DEFINE I == IrcPasses(r)
      <3>1. I \in SUBSET (1 .. n)
        BY <1>5
      <3> HIDE DEF I
      <3>2. I # {} => Latest(I) \in 1 .. n
        BY <1>5, <3>1, LatestIs
      <3>3. I # {} => t[Latest(I)] = r[Latest(I)]
        BY <3>2 DEF Grown
      <3>4. IrcPassword(t, I) = IrcPassword(r, I)
        BY <3>3 DEF IrcPassword
      <3> QED BY <3>4 DEF I
    <2>4. t[n + 1] = chunk
      BY DEF Grown
    <2>5. IrcLogin(t, n + 1) = x
      BY <2>2, <2>3, <2>4 DEF IrcLogin
    <2> QED BY <1>2, <1>8, <2>1, <2>5
  <1>11. \A k \in IrcNicks(t) : more[Cardinality(IrcUpTo(t, k))] = IrcLogin(t, k)
    BY <1>5, <1>9, <1>10
  <1>12. Len(more) = Cardinality(IrcNicks(t))
    BY <1>3, <1>8
  <1> QED BY <1>11, <1>12 DEF IrcNames

\* Who is remembered after one more line.
LEMMA IrcRemembers ==
    ASSUME NEW r, NEW n, NEW chunk, NEW t, Grown(r, chunk, t, n), NEW u, IrcUser(r, u)
    PROVE  /\ ~IrcFirst(chunk) => IrcUser(t, u)
           /\ IrcFirst(chunk) => IrcUser(t, chunk[2])
  <1> DEFINE I == IrcPasses(r)  J == IrcPasses(t)
  <1>1. /\ n \in Nat /\ I \in SUBSET (1 .. n)
        /\ (IrcFirst(chunk) => J = I \union {n + 1}) /\ (~IrcFirst(chunk) => J = I)
    BY IrcPositions
  <1>2. u = IF I = {} THEN NoUser ELSE r[Latest(I)][2]
    BY DEF IrcUser
  <1>3. t[n + 1] = chunk /\ \A i \in 1 .. n : t[i] = r[i]
    BY DEF Grown
  <1>4. IrcUser(t, u) <=> u = IF J = {} THEN NoUser ELSE t[Latest(J)][2]
    BY DEF IrcUser
  <1>5. IrcUser(t, chunk[2]) <=> chunk[2] = IF J = {} THEN NoUser ELSE t[Latest(J)][2]
    BY DEF IrcUser
  <1> HIDE DEF I, J
  <1>6. ASSUME ~IrcFirst(chunk) PROVE IrcUser(t, u)
    <2>1. I # {} => Latest(I) \in 1 .. n
      BY <1>1, LatestIs
    <2>2. I # {} => t[Latest(I)] = r[Latest(I)]
      BY <1>3, <2>1
    <2> QED BY <1>1, <1>2, <1>4, <1>6, <2>2
  <1>7. ASSUME IrcFirst(chunk) PROVE IrcUser(t, chunk[2])
    <2> DEFINE k == n + 1
    <2>0. k \in Nat /\ J = I \union {k} /\ k \in 1 .. k /\ \A i \in 1 .. n : i \in 1 .. k
      BY <1>1, <1>7
    <2> HIDE DEF k
    <2>1. k \in Nat /\ J \in SUBSET (1 .. k) /\ k \in J /\ J # {}
      BY <1>1, <2>0
    <2>2. Latest(J) \in J /\ k <= Latest(J)
      BY <2>1, LatestIs
    <2>3. Latest(J) \in 1 .. k
      BY <2>1, <2>2
    <2>4. Latest(J) = k
      BY <2>1, <2>2, <2>3
    <2>5. t[k] = chunk
      BY <1>3 DEF k
    <2> QED BY <1>5, <2>1, <2>4, <2>5
  <1> QED BY <1>6, <1>7

\* One more chunk was read.
LEMMA IrcMore ==
    ASSUME NEW r, NEW n, NEW chunk, NEW t, Grown(r, chunk, t, n)
    PROVE  /\ IrcOffers(r) \subseteq IrcOffers(t)
           /\ IrcSecond(chunk) => <<IrcNick(chunk), IrcPassword(r, IrcPasses(r))>> \in IrcOffers(t)
  <1>1. /\ n \in Nat /\ DOMAIN r = 1 .. n /\ DOMAIN t = 1 .. n + 1 /\ t[n + 1] = chunk
        /\ \A i \in 1 .. n : t[i] = r[i]
    BY DEF Grown
  <1>2. \A q, y : y \in IrcAlone(q) <=> \E i \in DOMAIN q : IrcSecond(q[i]) /\ y = <<IrcNick(q[i]), "None">>
    BY DEF IrcAlone, IrcSecond
  <1>3. ASSUME NEW y \in IrcAlone(r) PROVE y \in IrcAlone(t)
    <2>1. PICK i \in DOMAIN r : IrcSecond(r[i]) /\ y = <<IrcNick(r[i]), "None">>
      BY <1>2
    <2>2. i \in DOMAIN t /\ t[i] = r[i]
      BY <1>1
    <2> QED BY <1>2, <2>1, <2>2
  <1>4. IrcWith(r) \subseteq IrcWith(t)
    BY IrcKeeps
  <1>5. ASSUME IrcSecond(chunk) PROVE <<IrcNick(chunk), IrcPassword(r, IrcPasses(r))>> \in IrcOffers(t)
    <2>1. CASE IrcPasses(r) = {}
      <3>1. IrcPassword(r, IrcPasses(r)) = "None"
        BY <2>1 DEF IrcPassword
      <3>2. n + 1 \in DOMAIN t /\ IrcSecond(t[n + 1])
        BY <1>1, <1>5
      <3>3. <<IrcNick(t[n + 1]), "None">> \in IrcAlone(t)
        BY <1>2, <3>2
      <3> QED BY <1>1, <3>1, <3>3 DEF IrcOffers
    <2>2. CASE IrcPasses(r) # {}
      <3> DEFINE i == Latest(IrcPasses(r))
      <3>1. IrcPasses(r) \in SUBSET (1 .. n)
        BY <1>1 DEF IrcPasses
      <3>2. i \in IrcPasses(r)
        BY <1>1, <2>2, <3>1, LatestIs
      <3>3. IrcPassword(r, IrcPasses(r)) = r[i][2]
        BY <2>2 DEF IrcPassword
      <3> HIDE DEF i
      <3>4. i \in DOMAIN r /\ IrcFirst(r[i])
        BY <3>2 DEF IrcPasses
      <3> DEFINE y == <<IrcNick(chunk), r[i][2]>>
      <3>5. y = <<IrcNick(chunk), r[i][2]>>
        OBVIOUS
      <3> HIDE DEF y
      <3>6. y \in IrcWith(t)
        BY <1>5, <3>4, <3>5, IrcGains
      <3> QED BY <3>3, <3>5, <3>6 DEF IrcOffers
    <2> QED BY <2>1, <2>2
  <1> QED BY <1>3, <1>4, <1>5 DEF IrcOffers

\* The lines that are captured.
LEMMA IrcCaptures ==
    ASSUME NEW K, NEW r \in Seq(K), NEW chunk \in K, NEW t, t = Append(r, chunk)
    PROVE  /\ chunk # <<"binary">> => IrcToCapture(t) = IrcToCapture(r) \o ToCapture(chunk)
           /\ chunk = <<"binary">> => IrcToCapture(t) = IrcToCapture(r)
  <1> DEFINE X == {<<"binary">>}  d == Dropping(r, X)
  <1>1. Dropping(t, X) = (IF chunk \in X THEN d ELSE Append(d, chunk)) /\ d \in Seq(K)
    BY DroppingAppend, DroppingType
  <1>2. chunk \in X <=> chunk = <<"binary">>
    OBVIOUS
  <1>3. IrcToCapture(t) = IF CaptureCommands THEN Dropping(t, X) ELSE <<>>
    BY DEF IrcToCapture
  <1>4. IrcToCapture(r) = IF CaptureCommands THEN d ELSE <<>>
    BY DEF IrcToCapture
  <1> HIDE DEF X, d
  <1>5. IsLog(d)
    BY <1>1, SequenceIsLog
  <1>6. d \o <<chunk>> = Append(d, chunk) /\ <<>> \o <<>> = <<>>
    BY <1>5, NoEntries, LogConcat
  <1> QED BY <1>1, <1>2, <1>3, <1>4, <1>6, Zenon DEF ToCapture

\* What a line does.
IrcTurns(line, u, es, v) ==
    /\ IsLog(es)
    /\ line # <<"binary">> => Data(es, "command") = ToCapture(line)
    /\ line = <<"binary">> => Data(es, "command") = <<>>
    /\ \/ IrcFirst(line) /\ ~IrcSecond(line) /\ v = line[2] /\ Names(es) = <<>>
       \/ /\ IrcSecond(line) /\ ~IrcFirst(line) /\ v = u
          /\ Names(es) = <<<<IrcNick(line), IF u = NoUser THEN "None" ELSE u>>>>
       \/ ~IrcFirst(line) /\ ~IrcSecond(line) /\ v = u /\ Names(es) = <<>>

IrcGoesOn(r, t, e, f, v) ==
    /\ IrcOK("open", t, f, v)
    /\ Moves("open", "open", IrcOffers(r), IrcOffers(t), Names(e), Names(f))

\* What is read, and what it makes of the connection.
LEMMA IrcReads ==
    ASSUME NEW r, NEW e, NEW u, IrcOK("open", r, e, u), NEW chunk \in Chunks.irc,
           NEW t, t = Append(r, chunk), NEW es, NEW f, f = e \o es,
           NEW v, IrcTurns(chunk, u, es, v)
    PROVE  IrcGoesOn(r, t, e, f, v)
  <1> DEFINE n == Len(r)
  <1>1. /\ Open(Chunks.irc, r, e) /\ Known("open", e) /\ IsLog(r) /\ IsLog(e) /\ r \in Seq(Chunks.irc)
        /\ IrcUser(r, u) /\ IrcNames(Names(e), r) /\ Data(e, "command") = IrcToCapture(r)
    BY SequenceIsLog DEF IrcOK, Open, Base
  <1>2. Grown(r, chunk, t, n)
    BY <1>1, Growing
  <1> HIDE DEF n
  <1>3. IsLog(es) /\ IsLog(Names(e))
    BY <1>1, EntryType DEF IrcTurns
  <1>4. Entered(Chunks.irc, "open", t, e, es, f)
    BY <1>1, <1>3, ReadingEntries
  <1>5. /\ Base(Chunks.irc, "open", t, f) /\ Known("open", f)
        /\ Names(es) = <<>> => Names(f) = Names(e)
        /\ \A x : Names(es) = <<x>> => Names(f) = Append(Names(e), x)
        /\ Data(f, "command") = Data(e, "command") \o Data(es, "command")
    BY <1>4 DEF Entered
  <1>6. /\ IrcOffers(r) \subseteq IrcOffers(t)
        /\ IrcSecond(chunk) => <<IrcNick(chunk), IrcPassword(r, IrcPasses(r))>> \in IrcOffers(t)
    BY <1>2, IrcMore
  <1>7. Data(f, "command") = IrcToCapture(t)
    <2>1. /\ chunk # <<"binary">> => IrcToCapture(t) = IrcToCapture(r) \o ToCapture(chunk)
          /\ chunk = <<"binary">> => IrcToCapture(t) = IrcToCapture(r)
      BY <1>1, IrcCaptures
    <2>2. Data(e, "command") \o <<>> = Data(e, "command")
      BY <1>1, EntryType, LogConcat
    <2>3. /\ chunk # <<"binary">> => Data(es, "command") = ToCapture(chunk)
          /\ chunk = <<"binary">> => Data(es, "command") = <<>>
      BY DEF IrcTurns
    <2> QED BY <1>1, <1>5, <2>1, <2>2, <2>3, Zenon
  <1>8. (~IrcFirst(chunk) => IrcUser(t, u)) /\ (IrcFirst(chunk) => IrcUser(t, chunk[2]))
    BY <1>1, <1>2, IrcRemembers
  <1>a. CASE ~IrcSecond(chunk)
    <2>1. Names(es) = <<>> /\ IrcUser(t, v)
      BY <1>8, <1>a DEF IrcTurns
    <2>2. Names(f) = Names(e)
      BY <1>5, <2>1
    <2>3. IrcNames(Names(f), t)
      BY <1>1, <1>2, <1>a, <2>2, IrcSameNames
    <2>4. IrcOK("open", t, f, v)
      BY <1>5, <1>7, <2>1, <2>3 DEF IrcOK
    <2> QED BY <1>6, <2>2, <2>4 DEF IrcGoesOn, Moves, PhaseOf
  <1>b. CASE IrcSecond(chunk)
    <2> DEFINE p == IF u = NoUser THEN "None" ELSE u  x == <<IrcNick(chunk), p>>
    <2>1. ~IrcFirst(chunk) /\ v = u /\ Names(es) = <<x>>
      BY <1>b DEF IrcTurns
    <2>2. p = IrcPassword(r, IrcPasses(r))
      <3>1. CASE IrcPasses(r) = {}
        BY <1>1, <3>1 DEF IrcUser, IrcPassword
      <3>2. CASE IrcPasses(r) # {}
        <4> DEFINE i == Latest(IrcPasses(r))
        <4>1. IrcPasses(r) \in SUBSET (1 .. n) /\ n \in Nat
          BY <1>2, IrcPositions
        <4>2. i \in IrcPasses(r)
          BY <3>2, <4>1, LatestIs
        <4>3. u = r[i][2] /\ IrcPassword(r, IrcPasses(r)) = r[i][2]
          BY <1>1, <3>2 DEF IrcUser, IrcPassword
        <4> HIDE DEF i
        <4>4. i \in DOMAIN r /\ Len(r[i]) = 2
          BY <4>2 DEF IrcPasses, IrcFirst
        <4>5. r[i] \in Chunks.irc
          BY <1>1, <4>4
        <4>6. r[i] \in Seq(STRING) /\ \A k \in DOMAIN r[i] : r[i][k] # NoUser
          BY <4>5, LinesAssumption
        <4>7. 2 \in DOMAIN r[i]
          BY <4>4, <4>6
        <4>8. u # NoUser
          BY <4>3, <4>6, <4>7
        <4> QED BY <4>3, <4>8
      <3> QED BY <3>1, <3>2
    <2>3. x = <<IrcNick(chunk), IrcPassword(r, IrcPasses(r))>>
      BY <2>2
    <2> HIDE DEF x, p
    <2>4. Names(f) = Append(Names(e), x)
      BY <1>5, <2>1
    <2>5. IrcNames(Names(f), t)
      BY <1>1, <1>2, <1>3, <1>b, <2>1, <2>3, <2>4, IrcOneMore
    <2>6. IrcOK("open", t, f, v)
      BY <1>5, <1>7, <1>8, <2>1, <2>5 DEF IrcOK
    <2>7. x \in IrcOffers(t)
      BY <1>6, <1>b, <2>3
    <2> QED BY <1>6, <2>4, <2>6, <2>7 DEF IrcGoesOn, Moves, PhaseOf
  <1> QED BY <1>a, <1>b

\* Every step of the honeypot keeps its invariant, and is one LoginCapture allows.
LEMMA IrcStep ==
    ASSUME IrcInv, Irc!Next, UNCHANGED <<server, state, buffer, answers, replies>>
    PROVE  IrcInv' /\ \E c \in Conns : IrcMoves(c)
  <1>0. Rows
    BY DEF IrcInv
  <1>1. ASSUME NEW c \in Conns, Irc!ConnectionMade(c) PROVE IrcInv' /\ IrcMoves(c)
    <2>1. /\ link[c] = "none" /\ link'[c] = "open" /\ read'[c] = read[c] /\ events'[c] = Connected
          /\ user'[c] = user[c] /\ Frame(c)
      BY <1>0, <1>1 DEF Irc!ConnectionMade, Irc!Accept, Connected, Rows, IsRow, Frame
    <2>2. IrcOK("none", read[c], events[c], user[c])
      BY <2>1 DEF IrcInv
    <2>3. read[c] = <<>> /\ events[c] = <<>> /\ user[c] = NoUser
      BY <2>2 DEF IrcOK, Base
    <2>4. IrcOK("open", <<>>, Connected, NoUser)
      BY IrcComes
    <2>5. IrcInv'
      BY <2>1, <2>3, <2>4, IrcFrame
    <2> QED BY <2>1, <2>3, <2>5, Coming, NoEntries DEF IrcMoves, Moved, Moves, PhaseOf
  <1>2. ASSUME NEW c \in Conns, Irc!Lost(c) PROVE IrcInv' /\ IrcMoves(c)
    <2>1. /\ link[c] \in {"open", "closing"} /\ link'[c] = "lost" /\ read'[c] = read[c]
          /\ events'[c] = events[c] /\ user'[c] = user[c] /\ Frame(c)
      BY <1>0, <1>2 DEF Irc!Lost, Irc!ConnectionLost, Rows, IsRow, Frame
    <2>2. IrcOK(link[c], read[c], events[c], user[c])
      BY DEF IrcInv
    <2>3. IrcOK("lost", read[c], events[c], user[c])
      BY <2>1, <2>2, IrcGoes
    <2>4. IrcInv'
      BY <2>1, <2>3, IrcFrame
    <2> QED BY <2>1, <2>4 DEF IrcMoves, Moved, Moves, PhaseOf
  <1>3. ASSUME NEW c \in Conns, NEW line \in Chunks.irc,
               \/ Irc!Pass(c, line) \/ Irc!Nick(c, line) \/ Irc!Undecodable(c, line) \/ Irc!OtherCommand(c, line)
        PROVE  IrcInv' /\ IrcMoves(c)
    <2>1. /\ link[c] = "open" /\ read'[c] = Append(read[c], line) /\ Frame(c) /\ link'[c] = "open"
      BY <1>0, <1>3 DEF Irc!Pass, Irc!Nick, Irc!Undecodable, Irc!OtherCommand, Irc!Received, Irc!LogAll,
                        Rows, IsRow, Frame
    <2>2. IrcOK("open", read[c], events[c], user[c])
      BY <2>1 DEF IrcInv
    <2>3. IsLog(events[c])
      BY <2>2 DEF IrcOK, Base
    <2>4. events[c] \o <<>> = events[c]
      BY <2>3, NoEntries, LogConcat
    <2>5. \E es : events'[c] = events[c] \o es /\ IrcTurns(line, user[c], es, user'[c])
      <3>1. CASE Irc!Pass(c, line)
        <4>1. /\ events'[c] = events[c] \o Line(line)
              /\ line[1] = "PASS" /\ Len(line) = 2 /\ user'[c] = line[2]
          BY <1>0, <3>1 DEF Irc!Pass, Irc!LogAll, Irc!Command, Line, Rows, IsRow
        <4>2. line # <<"binary">> /\ IrcFirst(line) /\ ~IrcSecond(line)
          BY <4>1 DEF IrcFirst, IrcSecond
        <4> QED BY <4>1, <4>2, LineEntries DEF IrcTurns
      <3>2. CASE Irc!Nick(c, line)
        <4> DEFINE u == IrcNick(line)  p == IF user[c] = NoUser THEN "None" ELSE user[c]
                   ok == Irc!LoginIsCorrect(u, p)
                   es == Line(line) \o <<Entry(u, p, ok)>>
        <4>1. events'[c] = events[c] \o es /\ line[1] = "NICK" /\ user'[c] = user[c]
          BY <1>0, <3>2 DEF Irc!Nick, Irc!LogAll, Irc!Command, Irc!LoginEvent, Irc!NickName, Irc!PasswordText,
                            IrcNick, Entry, Line, Rows, IsRow
        <4>2. line # <<"binary">> /\ IrcSecond(line) /\ ~IrcFirst(line)
          BY <4>1 DEF IrcFirst, IrcSecond
        <4> HIDE DEF ok, u, p
        <4>3. IsLog(es) /\ Names(es) = <<<<u, p>>>> /\ Data(es, "command") = ToCapture(line)
          BY LineAndLogin
        <4> HIDE DEF es
        <4>4. Names(es) = <<<<IrcNick(line), IF user[c] = NoUser THEN "None" ELSE user[c]>>>>
          BY <4>3 DEF u, p
        <4> QED BY <4>1, <4>2, <4>3, <4>4 DEF IrcTurns
      <3>3. CASE Irc!Undecodable(c, line)
        <4>1. events'[c] = events[c] /\ line = <<"binary">> /\ user'[c] = user[c]
          BY <1>0, <3>3 DEF Irc!Undecodable, Rows, IsRow
        <4>2. line[1] = "binary"
          BY <4>1
        <4>3. ~IrcFirst(line) /\ ~IrcSecond(line)
          BY <4>2 DEF IrcFirst, IrcSecond
        <4> QED BY <2>4, <4>1, <4>3, NoEntries DEF IrcTurns
      <3>4. CASE Irc!OtherCommand(c, line)
        <4>1. /\ events'[c] = events[c] \o Line(line) /\ user'[c] = user[c]
              /\ line[1] \notin {"NICK", "binary"} /\ ~(line[1] = "PASS" /\ Len(line) = 2)
          BY <1>0, <3>4 DEF Irc!OtherCommand, Irc!LogAll, Irc!Command, Line, Rows, IsRow
        <4>2. line # <<"binary">> /\ ~IrcFirst(line) /\ ~IrcSecond(line)
          BY <4>1 DEF IrcFirst, IrcSecond
        <4> QED BY <4>1, <4>2, LineEntries DEF IrcTurns
      <3> QED BY <1>3, <3>1, <3>2, <3>3, <3>4
    <2>6. PICK es : events'[c] = events[c] \o es /\ IrcTurns(line, user[c], es, user'[c])
      BY <2>5
    <2>7. IrcGoesOn(read[c], read'[c], events[c], events'[c], user'[c])
      BY <2>1, <2>2, <2>6, IrcReads
    <2>8. IrcOK("open", read'[c], events'[c], user'[c])
      BY <2>7 DEF IrcGoesOn
    <2>9. IrcInv'
      BY <2>1, <2>8, IrcFrame
    <2> QED BY <2>1, <2>7, <2>9 DEF IrcMoves, Moved, IrcGoesOn
  <1> QED BY <1>1, <1>2, <1>3 DEF Irc!Next

\* The invariant holds at the start.
LEMMA IrcBegins ==
    ASSUME Irc!Init, state = Nothing, buffer = Nothing, answers = Nothing, replies = Nothing
    PROVE  IrcInv
  <1>1. /\ link = [c \in Conns |-> "none"] /\ read = [c \in Conns |-> <<>>]
        /\ events = [c \in Conns |-> <<>>] /\ user = [c \in Conns |-> NoUser]
    BY DEF Irc!Init, Irc!ConnectionsInit
  <1>2. Rows
    BY <1>1 DEF Rows, IsRow, Nothing
  <1>3. IrcOK("none", <<>>, <<>>, NoUser)
    BY IrcComes
  <1> QED BY <1>1, <1>2, <1>3 DEF IrcInv

\* The invariant implies the properties of the honeypot, and what is offered is what was said.
LEMMA IrcSafe ==
    ASSUME IrcInv
    PROVE  /\ Irc!TypeOK /\ Irc!EveryNickIsLogged
           /\ \A c \in Conns : /\ Irc!Offered(c) = IrcOffers(read[c])
                               /\ Irc!Commands(c) = Irc!Decoded(c)
  <1>1. ASSUME NEW c \in Conns
        PROVE  /\ link[c] \in Links /\ read[c] \in Seq(Chunks.irc) /\ IsLog(events[c])
               /\ link[c] = "none" <=> events[c] = <<>>
               /\ IrcUser(read[c], user[c])
               /\ IrcNames(Names(events[c]), read[c])
               /\ Data(events[c], "command") = IrcToCapture(read[c])
    <2>1. IrcOK(link[c], read[c], events[c], user[c])
      BY DEF IrcInv
    <2> QED BY <2>1, Basics DEF IrcOK
  <1>2. ASSUME NEW c \in Conns, user[c] # NoUser PROVE \E i \in DOMAIN read[c] : read[c][i] = <<"PASS", user[c]>>
    <2> DEFINE r == read[c]  i == Latest(IrcPasses(r))  n == Len(r)
    <2>1. IrcPasses(r) # {} /\ user[c] = r[i][2]
      BY <1>1, <1>2 DEF IrcUser
    <2>2. n \in Nat /\ DOMAIN r = 1 .. n
      BY <1>1
    <2>3. IrcPasses(r) \in SUBSET (1 .. n)
      BY <2>2 DEF IrcPasses
    <2>4. i \in IrcPasses(r)
      BY <2>1, <2>2, <2>3, LatestIs
    <2> HIDE DEF i
    <2>5. i \in DOMAIN r /\ r[i][1] = "PASS" /\ Len(r[i]) = 2
      BY <2>4 DEF IrcPasses, IrcFirst
    <2>6. r[i] \in Chunks.irc
      BY <1>1, <2>5
    <2>7. r[i] \in Seq(STRING)
      BY <2>6, LinesAssumption
    <2>8. r[i] = <<r[i][1], r[i][2]>>
      BY <2>5, <2>7
    <2> QED BY <2>1, <2>5, <2>8
  <1>3. Irc!TypeOK
    BY <1>1, <1>2 DEF IrcInv, Rows, IsRow, Irc!TypeOK, Irc!ConnectionsTypeOK, Links
  <1>4. \A c \in Conns : Irc!Captured(c) = Names(events[c])
    BY IsNames DEF Irc!Captured, Telnet!Captured, Irc!Logins, Telnet!Logins, Irc!Matching, Telnet!Matching,
             Irc!Positions, Telnet!Positions, Irc!At, Telnet!At
  <1>5. \A c \in Conns : Irc!Offered(c) = IrcOffers(read[c])
    <2>1. \A line : Irc!NickName(line) = IrcNick(line)
      BY DEF Irc!NickName, IrcNick
    <2> QED BY <2>1 DEF Irc!Offered, IrcOffers, IrcAlone, IrcWith, IrcPairs, IrcFirst, IrcSecond
  <1>6. \A c \in Conns : Irc!Commands(c) = Irc!Decoded(c)
    <2>1. \A c \in Conns : Irc!Commands(c) = Data(events[c], "command")
      BY DEF Irc!Commands, Data, Irc!Matching, Matching, Irc!Positions, Positions, Irc!At, At
    <2>2. \A c \in Conns : Irc!Decoded(c) = IrcToCapture(read[c])
      BY DEF Irc!Decoded, IrcToCapture, Irc!Dropping, Dropping, Irc!At, At
    <2> QED BY <1>1, <2>1, <2>2
  <1>7. Irc!EveryNickIsLogged
    <2>1. \A S : Irc!Cardinality(S) = Cardinality(S)
      BY DEF Irc!Cardinality, Cardinality
    <2>2. \A S : Irc!Latest(S) = Latest(S)
      BY DEF Irc!Latest, Latest
    <2> SUFFICES ASSUME NEW c \in Conns
                 PROVE  LET nicks == {i \in DOMAIN read[c] : read[c][i][1] = "NICK"}
                            passes == {i \in DOMAIN read[c] : read[c][i][1] = "PASS" /\ Len(read[c][i]) = 2}
                        IN  /\ Len(Irc!Captured(c)) = Irc!Cardinality(nicks)
                            /\ \A n \in nicks :
                                  LET before == {p \in passes : p < n}
                                      login == Irc!Captured(c)[Irc!Cardinality({m \in nicks : m <= n})]
                                  IN  login = <<Irc!NickName(read[c][n]),
                                                IF before = {} THEN "None" ELSE read[c][Irc!Latest(before)][2]>>
      BY DEF Irc!EveryNickIsLogged
    <2> DEFINE r == read[c]
    <2>3. /\ {i \in DOMAIN r : r[i][1] = "NICK"} = IrcNicks(r)
          /\ {i \in DOMAIN r : r[i][1] = "PASS" /\ Len(r[i]) = 2} = IrcPasses(r)
      BY DEF IrcNicks, IrcPasses, IrcFirst, IrcSecond
    <2>4. /\ Len(Names(events[c])) = Cardinality(IrcNicks(r))
          /\ \A n \in IrcNicks(r) : Names(events[c])[Cardinality(IrcUpTo(r, n))] = IrcLogin(r, n)
      BY <1>1 DEF IrcNames
    <2>5. \A n : {p \in IrcPasses(r) : p < n} = IrcBefore(r, n) /\ {m \in IrcNicks(r) : m <= n} = IrcUpTo(r, n)
      BY DEF IrcBefore, IrcUpTo
    <2>6. \A n : IrcLogin(r, n) = <<IrcNick(r[n]), IF IrcBefore(r, n) = {} THEN "None"
                                                   ELSE r[Latest(IrcBefore(r, n))][2]>>
      BY DEF IrcLogin, IrcPassword
    <2>7. \A line : Irc!NickName(line) = IrcNick(line)
      BY DEF Irc!NickName, IrcNick
    <2>8. Len(Irc!Captured(c)) = Irc!Cardinality({i \in DOMAIN r : r[i][1] = "NICK"})
      BY <1>4, <2>1, <2>3, <2>4
    <2>9. ASSUME NEW n \in IrcNicks(r)
          PROVE  Irc!Captured(c)[Irc!Cardinality({m \in IrcNicks(r) : m <= n})] =
                   <<Irc!NickName(r[n]), IF {p \in IrcPasses(r) : p < n} = {} THEN "None"
                                         ELSE r[Irc!Latest({p \in IrcPasses(r) : p < n})][2]>>
      <3>1. Irc!Cardinality({m \in IrcNicks(r) : m <= n}) = Cardinality(IrcUpTo(r, n))
        BY <2>1, <2>5
      <3>2. Irc!Latest({p \in IrcPasses(r) : p < n}) = Latest(IrcBefore(r, n))
        BY <2>2, <2>5
      <3>3. {p \in IrcPasses(r) : p < n} = IrcBefore(r, n)
        BY <2>5
      <3>4. Names(events[c])[Cardinality(IrcUpTo(r, n))] = IrcLogin(r, n)
        BY <2>4
      <3> HIDE DEF r
      <3> QED BY <1>4, <2>6, <2>7, <3>1, <3>2, <3>3, <3>4
    <2> QED BY <2>3, <2>8, <2>9
  <1> QED BY <1>3, <1>5, <1>6, <1>7

-------------------------------------------------------------------------------
(* http (base_http_server.py:51-117): as many answers as requests *)

HttpGiven(q, field) == {x \in DOMAIN q.form : q.form[x][1] = field /\ q.form[x][2] # ""}
HttpIsForm(q) ==
    /\ Configured.http[1] # "" /\ Configured.http[2] # ""
    /\ q.method = "POST" /\ q.encoding = "urlencoded" /\ q.uri \in {"/login.html", "/"}
    /\ \A field \in {"username", "password"} : Cardinality(HttpGiven(q, field)) = 1
HttpValue(q, field) == q.form[CHOOSE i \in HttpGiven(q, field) : TRUE][2]
HttpPair(q) == <<HttpValue(q, "username"), HttpValue(q, "password")>>

HttpForms(r) == At(r, {i \in DOMAIN r : HttpIsForm(r[i])})
HttpNames(r) == [i \in DOMAIN HttpForms(r) |-> HttpPair(HttpForms(r)[i])]
HttpOffers(r) == Elements(HttpNames(r))

HttpLine(q) == IF CaptureCommands THEN <<q.method, q.uri>> ELSE <<>>
HttpToCapture(r) == [i \in DOMAIN r |-> HttpLine(r[i])]

HttpReplies == {"login_file", "home_file", "error"}

HttpVerdict(x) == x.status = "success" <=> <<x.username, x.password>> = Configured.http
HttpVerdicts(logins) == \A i \in 1 .. Len(logins) : HttpVerdict(logins[i])

HttpOK(l, r, e, p) ==
    /\ Base(Chunks.http, l, r, e)
    /\ l = "none" => p = <<>>
    /\ p \in Seq(HttpReplies) /\ Len(p) = Len(r)
    /\ Names(e) = HttpNames(r)
    /\ HttpVerdicts(Matching(e, "login"))
    /\ Data(e, "connection") = HttpToCapture(r)

HttpInv == Rows /\ \A c \in Conns : HttpOK(link[c], read[c], events[c], replies[c])

HttpMoves(c) == Frame(c) /\ Moved(c, HttpOffers(read[c]), HttpOffers(read'[c]))

\* Of a step of one connection, only that one needs a look.
LEMMA HttpFrame ==
    ASSUME HttpInv, NEW c \in Conns, Frame(c),
           HttpOK(link'[c], read'[c], events'[c], replies'[c])
    PROVE  HttpInv'
  BY DEF HttpInv, Frame

\* Of who has sent nothing.
LEMMA HttpNothing ==
    /\ HttpNames(<<>>) = <<>> /\ HttpToCapture(<<>>) = <<>>
    /\ HttpVerdicts(Matching(<<>>, "login")) /\ Data(<<>>, "connection") = <<>> /\ Names(<<>>) = <<>>
  <1>1. HttpForms(<<>>) = <<>>
    BY AtEmpty DEF HttpForms
  <1>2. DOMAIN <<>> = {} /\ [i \in {} |-> HttpPair(<<>>[i])] = <<>> /\ [i \in {} |-> HttpLine(<<>>[i])] = <<>>
    OBVIOUS
  <1>3. HttpNames(<<>>) = <<>> /\ HttpToCapture(<<>>) = <<>>
    BY <1>1, <1>2 DEF HttpNames, HttpToCapture
  <1>4. Len(<<>>) = 0 /\ \A i : i \notin 1 .. 0
    OBVIOUS
  <1>5. HttpVerdicts(Matching(<<>>, "login"))
    BY <1>4, NoLogins DEF HttpVerdicts
  <1> QED BY <1>3, <1>5, NoEntries

\* A connection nobody has made, and one that was just made.
LEMMA HttpComes == HttpOK("none", <<>>, <<>>, <<>>) /\ HttpOK("open", <<>>, <<>>, <<>>)
  <1>1. Base(Chunks.http, "none", <<>>, <<>>) /\ Base(Chunks.http, "open", <<>>, <<>>)
    BY Coming
  <1>2. <<>> \in Seq(HttpReplies)
    OBVIOUS
  <1> QED BY <1>1, <1>2, HttpNothing DEF HttpOK

\* A connection is lost.
LEMMA HttpGoes ==
    ASSUME NEW l \in {"open", "closing"}, NEW r, NEW e, NEW p, HttpOK(l, r, e, p)
    PROVE  HttpOK("lost", r, e, p)
  <1>1. Base(Chunks.http, "lost", r, e)
    BY Going DEF HttpOK
  <1> QED BY <1>1 DEF HttpOK

\* An element of At is one of the sequence, at a chosen position.
LEMMA AtElement ==
    ASSUME NEW S, NEW s \in Seq(S), NEW I
    PROVE  \A k \in DOMAIN At(s, I) : \E i \in DOMAIN s : i \in I /\ At(s, I)[k] = s[i]
  <1> DEFINE Good(t) == \A k \in DOMAIN At(t, I) : \E i \in DOMAIN t : i \in I /\ At(t, I)[k] = t[i]
             G == {t \in Seq(S) : Good(t)}
  <1>1. <<>> \in G
    <2>1. <<>> \in Seq(S) /\ DOMAIN <<>> = {}
      OBVIOUS
    <2>2. Good(<<>>)
      BY <2>1, AtEmpty
    <2> QED BY <2>1, <2>2
  <1>2. ASSUME NEW t \in Seq(S), NEW x \in S, t \in G PROVE Append(t, x) \in G
    <2> DEFINE u == Append(t, x)  n == Len(t)  a == At(t, I)  b == At(u, I)  m == Len(a)
    <2>1. u \in Seq(S) /\ a \in Seq(S)
      BY AppendProperties, AtType
    <2>2. b = IF n + 1 \in I THEN Append(a, x) ELSE a
      BY AtAppend
    <2>3. Grown(t, x, u, n)
      BY SequenceIsLog, Growing
    <2>4. Good(t)
      BY <1>2
    <2>5. Good(u) <=> \A k \in DOMAIN b : \E i \in DOMAIN u : i \in I /\ b[k] = u[i]
      OBVIOUS
    <2>6. \A k \in DOMAIN a : \E i \in DOMAIN t : i \in I /\ a[k] = t[i]
      BY <2>4
    <2>7. IsLog(a)
      BY <2>1, SequenceIsLog
    <2> HIDE DEF u, n, a, b
    <2>8. /\ n \in Nat /\ DOMAIN t = 1 .. n /\ DOMAIN u = 1 .. n + 1 /\ u[n + 1] = x
          /\ \A i \in 1 .. n : u[i] = t[i]
      BY <2>3 DEF Grown
    <2>9. \A i \in DOMAIN t : i \in DOMAIN u /\ u[i] = t[i]
      BY <2>8
    <2>10. ASSUME n + 1 \notin I PROVE \A k \in DOMAIN b : \E i \in DOMAIN u : i \in I /\ b[k] = u[i]
      <3>1. b = a
        BY <2>2, <2>10
      <3>2. ASSUME NEW k \in DOMAIN a PROVE \E i \in DOMAIN u : i \in I /\ a[k] = u[i]
        <4>1. PICK i \in DOMAIN t : i \in I /\ a[k] = t[i]
          BY <2>6
        <4> QED BY <2>9, <4>1
      <3> QED BY <3>1, <3>2
    <2>11. ASSUME n + 1 \in I PROVE \A k \in DOMAIN b : \E i \in DOMAIN u : i \in I /\ b[k] = u[i]
      <3>1. b = Append(a, x)
        BY <2>2, <2>11
      <3>2. Grown(a, x, b, Len(a))
        BY <2>7, <3>1, Growing
      <3> HIDE DEF m
      <3>3. /\ m \in Nat /\ DOMAIN a = 1 .. m /\ DOMAIN b = 1 .. m + 1 /\ b[m + 1] = x
            /\ \A i \in 1 .. m : b[i] = a[i]
        BY <3>2 DEF Grown, m
      <3>4. n + 1 \in DOMAIN u
        BY <2>8
      <3>5. ASSUME NEW k \in DOMAIN b PROVE \E i \in DOMAIN u : i \in I /\ b[k] = u[i]
        <4>1. CASE k = m + 1
          BY <2>8, <2>11, <3>3, <3>4, <4>1
        <4>2. CASE k # m + 1
          <5>1. k \in DOMAIN a /\ b[k] = a[k]
            BY <3>3, <4>2
          <5> QED BY <2>6, <2>9, <5>1
        <4> QED BY <4>1, <4>2
      <3> QED BY <3>5
    <2>12. \A k \in DOMAIN b : \E i \in DOMAIN u : i \in I /\ b[k] = u[i]
      BY <2>10, <2>11
    <2>13. Good(u)
      BY <2>5, <2>12
    <2> HIDE DEF Good
    <2>14. u \in G
      BY <2>1, <2>13 DEF u
    <2> QED BY <2>14 DEF u
  <1> HIDE DEF Good, G
  <1>3. s \in G
    BY <1>1, <1>2, GrowingSequence
  <1>4. Good(s)
    BY <1>3 DEF G
  <1> QED BY <1>4 DEF Good

\* What FieldStorage finds of a field, when the form has it once, and when it has not.
LEMMA HttpFinds ==
    ASSUME NEW q \in Chunks.http, q.encoding = "urlencoded", NEW field
    PROVE  LET v == At(q.form, HttpGiven(q, field))
           IN  /\ Len(v) \in Nat /\ (v = <<>> <=> Len(v) = 0)
               /\ Len(v) = 1 <=> Cardinality(HttpGiven(q, field)) = 1
               /\ Len(v) = 1 => v[1][2] = HttpValue(q, field)
  <1> DEFINE s == q.form  I == HttpGiven(q, field)  v == At(s, I)  n == Len(s)
  <1>1. s \in Seq(STRING \X STRING)
    BY LinesAssumption
  <1>2. v \in Seq(STRING \X STRING) /\ Len(v) = Cardinality(I \intersect (1 .. Len(s)))
    BY <1>1, AtType, AtLength
  <1>3. \A k \in DOMAIN v : \E i \in DOMAIN s : i \in I /\ v[k] = s[i]
    BY <1>1, AtElement
  <1>4. n \in Nat /\ DOMAIN s = 1 .. n
    BY <1>1
  <1>5. I \subseteq 1 .. n
    BY <1>4 DEF HttpGiven
  <1>6. IsFiniteSet(I)
    <2>1. IsFiniteSet(1 .. n)
      BY <1>4, FS_Interval
    <2> QED BY <1>5, <2>1, FS_Subset
  <1> HIDE DEF I, v, s, n
  <1>7. I \intersect (1 .. n) = I
    BY <1>5
  <1>8. Len(v) = Cardinality(I)
    BY <1>2, <1>7 DEF n
  <1>9. Len(v) \in Nat /\ (v = <<>> <=> Len(v) = 0) /\ DOMAIN v = 1 .. Len(v)
    <2> DEFINE K == STRING \X STRING
    <2>1. v \in Seq(K)
      BY <1>2
    <2> HIDE DEF K
    <2> QED BY <2>1, EmptySeq
  <1>10. ASSUME Len(v) = 1 PROVE v[1][2] = s[CHOOSE i \in I : TRUE][2]
    <2>1. PICK x : I = {x}
      BY <1>6, <1>8, <1>10, FS_Singleton
    <2>2. 1 \in DOMAIN v
      BY <1>9, <1>10
    <2>3. PICK i \in DOMAIN s : i \in I /\ v[1] = s[i]
      BY <1>3, <2>2
    <2>4. (CHOOSE k \in I : TRUE) \in I
      BY <2>1
    <2>5. (CHOOSE k \in I : TRUE) = i
      BY <2>1, <2>3, <2>4
    <2> QED BY <2>3, <2>5
  <1>11. HttpValue(q, field) = s[CHOOSE i \in I : TRUE][2]
    BY DEF HttpValue, I, s
  <1> QED BY <1>8, <1>9, <1>10, <1>11 DEF v, I, s

\* What the code takes for the form of a request is its form.
LEMMA HttpReadsForm ==
    ASSUME NEW q \in Chunks.http
    PROVE  /\ HttpIsForm(q) <=> Http!ReadsForm(q) /\ ~Http!IsTwice(q)
           /\ HttpIsForm(q) => /\ Http!Values(q, "username")[1][2] = HttpValue(q, "username")
                               /\ Http!Values(q, "password")[1][2] = HttpValue(q, "password")
  <1> DEFINE v(field) == At(q.form, HttpGiven(q, field))
  <1>1. CASE q.encoding # "urlencoded"
    <2>1. \A field : Http!Values(q, field) = <<>>
      BY <1>1 DEF Http!Values
    <2>2. ~Http!ReadsForm(q)
      BY <2>1, Zenon DEF Http!ReadsForm
    <2> QED BY <1>1, <2>2 DEF HttpIsForm
  <1>2. CASE q.encoding = "urlencoded"
    <2>1. \A field : Http!Values(q, field) = v(field)
      BY <1>2 DEF Http!Values, HttpGiven, Http!At, At
    <2>2. ASSUME NEW field
          PROVE  /\ Len(v(field)) \in Nat /\ (v(field) = <<>> <=> Len(v(field)) = 0)
                 /\ Len(v(field)) = 1 <=> Cardinality(HttpGiven(q, field)) = 1
                 /\ Len(v(field)) = 1 => v(field)[1][2] = HttpValue(q, field)
      BY <1>2, HttpFinds
    <2>3. Http!ReadsForm(q) <=>
            /\ q.method = "POST" /\ q.uri \in {"/login.html", "/"}
            /\ Configured.http[1] # "" /\ Configured.http[2] # ""
            /\ v("username") # <<>> /\ v("password") # <<>>
      BY <2>1 DEF Http!ReadsForm
    <2>4. Http!IsTwice(q) <=> \E field \in {"username", "password"} : Len(v(field)) > 1
      BY <2>1 DEF Http!IsTwice
    <2> HIDE DEF v
    <2>5. HttpIsForm(q) <=>
            /\ Configured.http[1] # "" /\ Configured.http[2] # ""
            /\ q.method = "POST" /\ q.uri \in {"/login.html", "/"}
            /\ Len(v("username")) = 1 /\ Len(v("password")) = 1
      BY <1>2, <2>2 DEF HttpIsForm
    <2>6. ASSUME NEW field PROVE Len(v(field)) = 1 <=> v(field) # <<>> /\ ~(Len(v(field)) > 1)
      <3> DEFINE k == Len(v(field))
      <3>1. k \in Nat /\ (v(field) = <<>> <=> k = 0)
        BY <2>2
      <3> HIDE DEF k
      <3>2. k = 1 <=> v(field) # <<>> /\ ~(k > 1)
        BY <3>1
      <3> QED BY <3>2 DEF k
    <2>7. HttpIsForm(q) <=> Http!ReadsForm(q) /\ ~Http!IsTwice(q)
      BY <2>3, <2>4, <2>5, <2>6
    <2>8. HttpIsForm(q) => /\ v("username")[1][2] = HttpValue(q, "username")
                           /\ v("password")[1][2] = HttpValue(q, "password")
      BY <2>2, <2>5
    <2> QED BY <2>1, <2>7, <2>8
  <1> QED BY <1>1, <1>2

\* One more request.
LEMMA HttpMore ==
    ASSUME NEW r, IsLog(r), NEW chunk, NEW t, t = Append(r, chunk)
    PROVE  /\ IsLog(HttpNames(r))
           /\ HttpIsForm(chunk) => HttpNames(t) = Append(HttpNames(r), HttpPair(chunk))
           /\ ~HttpIsForm(chunk) => HttpNames(t) = HttpNames(r)
           /\ HttpToCapture(t) = Append(HttpToCapture(r), HttpLine(chunk))
  <1> DEFINE n == Len(r)
             I == {i \in DOMAIN r : HttpIsForm(r[i])}
             J == {i \in DOMAIN t : HttpIsForm(t[i])}
             s == HttpForms(r)
             q == HttpForms(t)
             m == Len(s)
             f == [i \in 1 .. m + 1 |-> HttpPair(q[i])]
             g == [i \in 1 .. m |-> HttpPair(s[i])]
             h == [i \in 1 .. n + 1 |-> HttpLine(t[i])]
             k == [i \in 1 .. n |-> HttpLine(r[i])]
  <1>1. PICK S : r \in Seq(S) /\ chunk \in S
    <2>1. PICK T : r \in Seq(T)
      BY DEF IsLog
    <2> DEFINE S == T \union {chunk}
    <2>2. \A u \in Seq(T) : u \in Seq(S)
      OBVIOUS
    <2> QED BY <2>1, <2>2
  <1>2. Grown(r, chunk, t, n)
    BY Growing
  <1>3. /\ n \in Nat /\ DOMAIN r = 1 .. n /\ DOMAIN t = 1 .. n + 1 /\ t[n + 1] = chunk
        /\ \A i \in 1 .. n : t[i] = r[i]
    BY <1>2 DEF Grown
  <1>4. (\A i \in 1 .. Len(r) : i \in I <=> i \in J) /\ (Len(r) + 1 \in J <=> HttpIsForm(chunk))
    BY <1>3
  <1>5. s = At(r, I) /\ q = At(t, J)
    BY DEF HttpForms
  <1> HIDE DEF I, J
  <1>6. At(Append(r, chunk), J) = IF Len(r) + 1 \in J THEN Append(At(r, I), chunk) ELSE At(r, I)
    BY <1>1, <1>4, AtAppend
  <1>7. (HttpIsForm(chunk) => q = Append(s, chunk)) /\ (~HttpIsForm(chunk) => q = s)
    BY <1>4, <1>5, <1>6
  <1>8. s \in Seq(S)
    BY <1>1, <1>5, AtType
  <1>9. HttpNames(r) = [i \in DOMAIN s |-> HttpPair(s[i])] /\ HttpNames(t) = [i \in DOMAIN q |-> HttpPair(q[i])]
    BY DEF HttpNames
  <1>10. ~HttpIsForm(chunk) => HttpNames(t) = HttpNames(r)
    BY <1>7, <1>9
  <1>11. m \in Nat /\ DOMAIN s = 1 .. m
    BY <1>8
  <1>12. IsLog(HttpNames(r))
    <2> DEFINE T == {HttpPair(s[i]) : i \in 1 .. m}
    <2>1. g \in [1 .. m -> T] /\ HttpNames(r) = g
      BY <1>9, <1>11
    <2> HIDE DEF g, T, m
    <2> QED BY <1>11, <2>1, FunctionIsSequence DEF IsLog
  <1>13. ASSUME HttpIsForm(chunk) PROVE HttpNames(t) = Append(HttpNames(r), HttpPair(chunk))
    <2>1. IsLog(s) /\ q = Append(s, chunk)
      BY <1>7, <1>8, <1>13 DEF IsLog
    <2>2. Grown(s, chunk, q, m)
      BY <2>1, Growing
    <2>3. DOMAIN q = 1 .. m + 1 /\ q[m + 1] = chunk /\ \A i \in 1 .. m : q[i] = s[i]
      BY <2>2 DEF Grown
    <2> HIDE DEF s, q, m
    <2>4. f = [i \in 1 .. m + 1 |-> f[i]] /\ g = [i \in 1 .. m |-> f[i]] /\ f[m + 1] = HttpPair(chunk)
      BY <1>11, <2>3
    <2>5. HttpNames(r) = g /\ HttpNames(t) = f
      BY <1>9, <1>11, <2>3
    <2> HIDE DEF f, g
    <2>6. f = Append(g, f[m + 1])
      BY <1>11, <2>4, OneMore
    <2> QED BY <2>4, <2>5, <2>6
  <1>14. HttpToCapture(t) = Append(HttpToCapture(r), HttpLine(chunk))
    <2>1. HttpToCapture(t) = h /\ HttpToCapture(r) = k
      BY <1>3 DEF HttpToCapture
    <2> HIDE DEF n
    <2>2. h = [i \in 1 .. n + 1 |-> h[i]] /\ k = [i \in 1 .. n |-> h[i]] /\ h[n + 1] = HttpLine(chunk)
      BY <1>3
    <2> HIDE DEF h, k
    <2>3. h = Append(k, h[n + 1])
      BY <1>3, <2>2, OneMore
    <2> QED BY <2>1, <2>2, <2>3
  <1> QED BY <1>10, <1>12, <1>13, <1>14

\* What a request does to the log.
HttpTurns(chunk, e, f) ==
    /\ IsLog(f)
    /\ Data(f, "connection") = Append(Data(e, "connection"), HttpLine(chunk))
    /\ \/ ~HttpIsForm(chunk) /\ Matching(f, "login") = Matching(e, "login") /\ Names(f) = Names(e)
       \/ /\ HttpIsForm(chunk) /\ Names(f) = Append(Names(e), HttpPair(chunk))
          /\ \E x : HttpVerdict(x) /\ Matching(f, "login") = Append(Matching(e, "login"), x)

\* The request itself.
HttpSeen(chunk) == [action |-> "connection", data |-> HttpLine(chunk)]

\* The entry of a request that is no form.
LEMMA HttpLogsOne ==
    ASSUME NEW e, IsLog(e), NEW chunk, ~HttpIsForm(chunk), NEW f, f = e \o <<HttpSeen(chunk)>>
    PROVE  HttpTurns(chunk, e, f)
  <1> DEFINE con == HttpSeen(chunk)
  <1>1. con.action = "connection" /\ con.action # "login" /\ con.data = HttpLine(chunk)
    BY DEF HttpSeen
  <1> HIDE DEF con
  <1>2. f = Append(e, con)
    <2>1. \A x : e \o <<x>> = Append(e, x)
      BY LogConcat
    <2> QED BY <2>1 DEF con
  <1>3. Enters(e, con, f)
    BY <1>2, EntersLog
  <1> QED BY <1>1, <1>3 DEF HttpTurns, Enters

\* The entries of a request and a login.
LEMMA HttpLogsTwo ==
    ASSUME NEW e, IsLog(e), NEW chunk, ~HttpIsForm(chunk),
           NEW x, x.action # "login", x.action # "connection",
           NEW f, f = e \o <<HttpSeen(chunk), x>>
    PROVE  HttpTurns(chunk, e, f)
  <1> DEFINE con == HttpSeen(chunk)  g == Append(e, con)
  <1>1. con.action = "connection" /\ con.action # "login" /\ con.data = HttpLine(chunk)
    BY DEF HttpSeen
  <1> HIDE DEF con
  <1>2. IsLog(<<con>>) /\ e \o <<con>> = g /\ IsLog(g)
    BY SingleEntry, LogConcat
  <1>3. e \o Append(<<con>>, x) = Append(e \o <<con>>, x) /\ <<con, x>> = Append(<<con>>, x)
    BY <1>2, ConcatMore
  <1>4. f = Append(g, x)
    BY <1>2, <1>3 DEF con
  <1>5. /\ Matching(g, "login") = Matching(e, "login") /\ Names(g) = Names(e)
        /\ Data(g, "connection") = Append(Data(e, "connection"), HttpLine(chunk))
    <2>1. Enters(e, con, g)
      BY EntersLog
    <2> QED BY <1>1, <2>1 DEF Enters
  <1> HIDE DEF g
  <1>6. /\ IsLog(f) /\ Matching(f, "login") = Matching(g, "login") /\ Names(f) = Names(g)
        /\ Data(f, "connection") = Data(g, "connection")
    <2>1. Enters(g, x, f)
      BY <1>2, <1>4, EntersLog
    <2> QED BY <2>1 DEF Enters
  <1> QED BY <1>5, <1>6 DEF HttpTurns

\* The entries of a request with a login and what comes after it.
LEMMA HttpLogsThree ==
    ASSUME NEW e, IsLog(e), NEW chunk, HttpIsForm(chunk),
           NEW x, x.action # "login", x.action # "connection",
           NEW y, y.action = "login", HttpVerdict(y), <<y.username, y.password>> = HttpPair(chunk),
           NEW f, f = e \o <<HttpSeen(chunk), x, y>>
    PROVE  HttpTurns(chunk, e, f)
  <1> DEFINE con == HttpSeen(chunk)  g == Append(e, con)  h == Append(g, x)
  <1>1. con.action = "connection" /\ con.action # "login" /\ con.data = HttpLine(chunk)
    BY DEF HttpSeen
  <1> HIDE DEF con
  <1>2. IsLog(<<con>>) /\ e \o <<con>> = g /\ IsLog(g)
    BY SingleEntry, LogConcat
  <1>3. IsLog(<<con, x>>) /\ e \o <<con, x>> = h /\ IsLog(h)
    <2>1. <<con, x>> = Append(<<con>>, x)
      OBVIOUS
    <2>2. e \o Append(<<con>>, x) = Append(e \o <<con>>, x) /\ IsLog(Append(<<con>>, x))
      BY <1>2, ConcatMore, LogAppend
    <2>3. IsLog(h)
      BY <1>2, LogAppend
    <2> QED BY <1>2, <2>1, <2>2, <2>3
  <1>4. f = Append(h, y)
    <2>1. <<con, x, y>> = Append(<<con, x>>, y)
      OBVIOUS
    <2>2. e \o Append(<<con, x>>, y) = Append(e \o <<con, x>>, y)
      BY <1>3, ConcatMore
    <2> QED BY <1>3, <2>1, <2>2 DEF con
  <1>5. /\ Matching(g, "login") = Matching(e, "login") /\ Names(g) = Names(e)
        /\ Data(g, "connection") = Append(Data(e, "connection"), HttpLine(chunk))
    <2>1. Enters(e, con, g)
      BY EntersLog
    <2> QED BY <1>1, <2>1 DEF Enters
  <1> HIDE DEF g
  <1>6. /\ Matching(h, "login") = Matching(g, "login") /\ Names(h) = Names(g)
        /\ Data(h, "connection") = Data(g, "connection")
    <2>1. Enters(g, x, h)
      BY <1>2, EntersLog
    <2> QED BY <2>1 DEF Enters
  <1> HIDE DEF h
  <1>7. y.action # "connection"
    OBVIOUS
  <1>8. /\ IsLog(f) /\ Matching(f, "login") = Append(Matching(h, "login"), y)
        /\ Names(f) = Append(Names(h), <<y.username, y.password>>)
        /\ Data(f, "connection") = Data(h, "connection")
    <2>1. Enters(h, y, f)
      BY <1>3, <1>4, EntersLog
    <2> QED BY <1>7, <2>1 DEF Enters
  <1> QED BY <1>5, <1>6, <1>8 DEF HttpTurns

\* The verdict of a login.
LEMMA HttpJudges ==
    ASSUME NEW s, IsLog(s), HttpVerdicts(s), NEW x, HttpVerdict(x), NEW q, q = Append(s, x)
    PROVE  HttpVerdicts(q)
  <1> DEFINE n == Len(s)
  <1>1. /\ n \in Nat /\ Len(q) = n + 1 /\ q[n + 1] = x /\ \A i \in 1 .. n : q[i] = s[i]
    BY LogAppend
  <1>2. \A i \in 1 .. n : HttpVerdict(s[i])
    BY DEF HttpVerdicts
  <1> HIDE DEF n
  <1>3. \A i \in 1 .. n + 1 : i \in 1 .. n \/ i = n + 1
    BY <1>1
  <1> QED BY <1>1, <1>2, <1>3 DEF HttpVerdicts

HttpGoesOn(r, t, e, f, p) ==
    /\ HttpOK("open", t, f, p)
    /\ Moves("open", "open", HttpOffers(r), HttpOffers(t), Names(e), Names(f))

\* What is read, and what it makes of the connection.
LEMMA HttpReads ==
    ASSUME NEW r, NEW e, NEW p, HttpOK("open", r, e, p), NEW chunk \in Chunks.http,
           NEW t, t = Append(r, chunk), NEW f, HttpTurns(chunk, e, f),
           NEW file \in HttpReplies, NEW q, q = Append(p, file)
    PROVE  HttpGoesOn(r, t, e, f, q)
  <1>1. /\ r \in Seq(Chunks.http) /\ IsLog(r) /\ IsLog(e) /\ p \in Seq(HttpReplies) /\ Len(p) = Len(r)
        /\ Names(e) = HttpNames(r) /\ HttpVerdicts(Matching(e, "login")) /\ Data(e, "connection") = HttpToCapture(r)
    BY SequenceIsLog DEF HttpOK, Base
  <1>2. IsLog(f) /\ Data(f, "connection") = Append(Data(e, "connection"), HttpLine(chunk))
    BY DEF HttpTurns
  <1>3. t \in Seq(Chunks.http) /\ q \in Seq(HttpReplies) /\ Len(q) = Len(t)
    BY <1>1, AppendProperties
  <1>4. Base(Chunks.http, "open", t, f)
    BY <1>2, <1>3 DEF Base, Links
  <1>5. /\ IsLog(HttpNames(r))
        /\ HttpIsForm(chunk) => HttpNames(t) = Append(HttpNames(r), HttpPair(chunk))
        /\ ~HttpIsForm(chunk) => HttpNames(t) = HttpNames(r)
        /\ HttpToCapture(t) = Append(HttpToCapture(r), HttpLine(chunk))
    BY <1>1, HttpMore
  <1>6. Data(f, "connection") = HttpToCapture(t)
    BY <1>1, <1>2, <1>5
  <1>a. CASE ~HttpIsForm(chunk)
    <2>1. Matching(f, "login") = Matching(e, "login") /\ Names(f) = Names(e) /\ HttpNames(t) = HttpNames(r)
      BY <1>5, <1>a DEF HttpTurns
    <2>2. HttpOK("open", t, f, q)
      BY <1>1, <1>3, <1>4, <1>6, <2>1 DEF HttpOK
    <2>3. HttpOffers(t) = HttpOffers(r)
      BY <2>1 DEF HttpOffers
    <2> QED BY <2>1, <2>2, <2>3 DEF HttpGoesOn, Moves, PhaseOf
  <1>b. CASE HttpIsForm(chunk)
    <2> DEFINE x == HttpPair(chunk)
    <2>1. Names(f) = Append(Names(e), x) /\ HttpNames(t) = Append(HttpNames(r), x)
      BY <1>5, <1>b DEF HttpTurns
    <2> HIDE DEF x
    <2>2. PICK y : HttpVerdict(y) /\ Matching(f, "login") = Append(Matching(e, "login"), y)
      BY <1>b DEF HttpTurns
    <2>3. IsLog(Matching(e, "login"))
      BY <1>1, MatchingEntry
    <2>4. HttpVerdicts(Matching(f, "login"))
      BY <1>1, <2>2, <2>3, HttpJudges
    <2>5. HttpOK("open", t, f, q)
      BY <1>1, <1>3, <1>4, <1>6, <2>1, <2>4 DEF HttpOK
    <2>6. HttpOffers(t) = HttpOffers(r) \union {x}
      BY <1>5, <2>1, ElementsAppend DEF HttpOffers
    <2> QED BY <2>1, <2>5, <2>6 DEF HttpGoesOn, Moves, PhaseOf
  <1> QED BY <1>a, <1>b

\* Every step of the honeypot keeps its invariant, and is one LoginCapture allows.
LEMMA HttpStep ==
    ASSUME HttpInv, Http!Next, UNCHANGED <<server, state, user, buffer, answers>>
    PROVE  HttpInv' /\ \E c \in Conns : HttpMoves(c)
  <1>0. Rows
    BY DEF HttpInv
  <1>1. ASSUME NEW c \in Conns, Http!Open(c) PROVE HttpInv' /\ HttpMoves(c)
    <2>1. /\ link[c] = "none" /\ link'[c] = "open" /\ read'[c] = read[c] /\ events'[c] = events[c]
          /\ replies'[c] = replies[c] /\ Frame(c)
      BY <1>0, <1>1 DEF Http!Open, Rows, IsRow, Frame
    <2>2. HttpOK("none", read[c], events[c], replies[c])
      BY <2>1 DEF HttpInv
    <2>3. read[c] = <<>> /\ events[c] = <<>> /\ replies[c] = <<>>
      BY <2>2 DEF HttpOK, Base
    <2>4. HttpOK("open", <<>>, <<>>, <<>>)
      BY HttpComes
    <2>5. HttpInv'
      BY <2>1, <2>3, <2>4, HttpFrame
    <2> QED BY <2>1, <2>5 DEF HttpMoves, Moved, Moves, PhaseOf
  <1>2. ASSUME NEW c \in Conns, Http!Lost(c) PROVE HttpInv' /\ HttpMoves(c)
    <2>1. /\ link[c] \in {"open", "closing"} /\ link'[c] = "lost" /\ read'[c] = read[c]
          /\ events'[c] = events[c] /\ replies'[c] = replies[c] /\ Frame(c)
      BY <1>0, <1>2 DEF Http!Lost, Http!ConnectionLost, Rows, IsRow, Frame
    <2>2. HttpOK(link[c], read[c], events[c], replies[c])
      BY DEF HttpInv
    <2>3. HttpOK("lost", read[c], events[c], replies[c])
      BY <2>1, <2>2, HttpGoes
    <2>4. HttpInv'
      BY <2>1, <2>3, HttpFrame
    <2> QED BY <2>1, <2>4 DEF HttpMoves, Moved, Moves, PhaseOf
  <1>3. ASSUME NEW c \in Conns, NEW q \in Chunks.http,
               \/ Http!RenderGet(c, q) \/ Http!RenderLogin(c, q) \/ Http!RenderRaises(c, q)
               \/ Http!RenderPost(c, q) \/ Http!RenderOther(c, q)
        PROVE  HttpInv' /\ HttpMoves(c)
    <2>1. /\ link[c] = "open" /\ read'[c] = Append(read[c], q) /\ Frame(c) /\ link'[c] = "open"
      BY <1>0, <1>3 DEF Http!RenderGet, Http!RenderLogin, Http!RenderRaises, Http!RenderPost, Http!RenderOther,
                        Http!Received, Http!LogAll, Http!Reply, Rows, IsRow, Frame
    <2>2. \E file \in HttpReplies : replies'[c] = Append(replies[c], file)
      BY <1>0, <1>3 DEF Http!RenderGet, Http!RenderLogin, Http!RenderRaises, Http!RenderPost, Http!RenderOther,
                        Http!Reply, HttpReplies, Rows, IsRow
    <2>3. HttpOK("open", read[c], events[c], replies[c])
      BY <2>1 DEF HttpInv
    <2>4. IsLog(events[c])
      BY <2>3 DEF HttpOK, Base
    <2>5. /\ HttpIsForm(q) <=> Http!ReadsForm(q) /\ ~Http!IsTwice(q)
          /\ HttpIsForm(q) => /\ Http!Values(q, "username")[1][2] = HttpValue(q, "username")
                              /\ Http!Values(q, "password")[1][2] = HttpValue(q, "password")
      BY HttpReadsForm
    <2>6. HttpIsForm(q) => q.method = "POST"
      BY DEF HttpIsForm
    <2>7. Http!Connection(q) = HttpSeen(q)
      BY DEF Http!Connection, HttpSeen, HttpLine
    <2>8. HttpTurns(q, events[c], events'[c])
      <3> DEFINE get == [action |-> "GET"]  post == [action |-> "POST"]
      <3>0. get.action # "login" /\ get.action # "connection" /\ post.action # "login" /\ post.action # "connection"
        OBVIOUS
      <3>1. CASE Http!RenderGet(c, q)
        <4>1. q.method = "GET" /\ events'[c] = events[c] \o <<HttpSeen(q), get>>
          BY <1>0, <2>7, <3>1 DEF Http!RenderGet, Http!LogAll, Rows, IsRow
        <4> HIDE DEF get, post
        <4>2. ~HttpIsForm(q)
          BY <2>6, <4>1
        <4> QED BY <2>4, <3>0, <4>1, <4>2, HttpLogsTwo
      <3>2. CASE Http!RenderLogin(c, q)
        <4> DEFINE u == HttpValue(q, "username")  p == HttpValue(q, "password")
                   ok == Http!LoginIsCorrect(u, p)  y == Entry(u, p, ok)
        <4>1. HttpIsForm(q)
          BY <2>5, <3>2 DEF Http!RenderLogin
        <4>2. events'[c] = events[c] \o <<HttpSeen(q), post, y>>
          BY <1>0, <2>5, <2>7, <3>2, <4>1 DEF Http!RenderLogin, Http!LogAll, Http!LoginEvent, Entry, Rows, IsRow
        <4>3. /\ y.action = "login" /\ y.username = u /\ y.password = p
              /\ y.status = "success" <=> <<u, p>> = Configured.http
          BY DEF Entry, Http!LoginIsCorrect
        <4>4. HttpPair(q) = <<u, p>>
          BY DEF HttpPair
        <4> HIDE DEF y, ok, u, p, get, post
        <4>5. HttpVerdict(y) /\ <<y.username, y.password>> = HttpPair(q)
          BY <4>3, <4>4 DEF HttpVerdict
        <4> QED BY <2>4, <3>0, <4>1, <4>2, <4>3, <4>5, HttpLogsThree
      <3>3. CASE Http!RenderRaises(c, q)
        <4>1. events'[c] = events[c] \o <<HttpSeen(q), post>>
          BY <1>0, <2>7, <3>3 DEF Http!RenderRaises, Http!LogAll, Rows, IsRow
        <4>2. ~HttpIsForm(q)
          BY <2>5, <3>3 DEF Http!RenderRaises
        <4> HIDE DEF get, post
        <4> QED BY <2>4, <3>0, <4>1, <4>2, HttpLogsTwo
      <3>4. CASE Http!RenderPost(c, q)
        <4>1. events'[c] = events[c] \o <<HttpSeen(q), post>>
          BY <1>0, <2>7, <3>4 DEF Http!RenderPost, Http!LogAll, Rows, IsRow
        <4>2. ~HttpIsForm(q)
          BY <2>5, <3>4 DEF Http!RenderPost
        <4> HIDE DEF get, post
        <4> QED BY <2>4, <3>0, <4>1, <4>2, HttpLogsTwo
      <3>5. CASE Http!RenderOther(c, q)
        <4>1. q.method \notin {"GET", "POST"} /\ events'[c] = events[c] \o <<HttpSeen(q)>>
          BY <1>0, <2>7, <3>5 DEF Http!RenderOther, Http!LogAll, Rows, IsRow
        <4>2. ~HttpIsForm(q)
          BY <2>6, <4>1
        <4> QED BY <2>4, <4>1, <4>2, HttpLogsOne
      <3> QED BY <1>3, <3>1, <3>2, <3>3, <3>4, <3>5
    <2>9. PICK file \in HttpReplies : replies'[c] = Append(replies[c], file)
      BY <2>2
    <2>10. HttpGoesOn(read[c], read'[c], events[c], events'[c], replies'[c])
      BY <2>1, <2>3, <2>8, <2>9, HttpReads
    <2>11. HttpOK("open", read'[c], events'[c], replies'[c])
      BY <2>10 DEF HttpGoesOn
    <2>12. HttpInv'
      BY <2>1, <2>11, HttpFrame
    <2> QED BY <2>1, <2>10, <2>12 DEF HttpMoves, Moved, HttpGoesOn
  <1> QED BY <1>1, <1>2, <1>3 DEF Http!Next

\* The invariant holds at the start.
LEMMA HttpBegins ==
    ASSUME Http!Init, state = Nothing, user = Nothing, buffer = Nothing, answers = Nothing
    PROVE  HttpInv
  <1>1. /\ link = [c \in Conns |-> "none"] /\ read = [c \in Conns |-> <<>>]
        /\ events = [c \in Conns |-> <<>>] /\ replies = [c \in Conns |-> <<>>]
    BY DEF Http!Init, Http!ConnectionsInit
  <1>2. Rows
    BY <1>1 DEF Rows, IsRow, Nothing
  <1>3. HttpOK("none", <<>>, <<>>, <<>>)
    BY HttpComes
  <1> QED BY <1>1, <1>2, <1>3 DEF HttpInv

\* The invariant implies the properties of the honeypot, and what is offered is what was said.
LEMMA HttpSafe ==
    ASSUME HttpInv
    PROVE  /\ Http!TypeOK /\ Http!EveryFormIsLogged
           /\ \A c \in Conns : /\ Http!Offered(c) = HttpOffers(read[c])
                               /\ Http!Requests(c) = Http!RequestLines(c)
  <1>1. ASSUME NEW c \in Conns
        PROVE  /\ link[c] \in Links /\ read[c] \in Seq(Chunks.http) /\ IsLog(events[c])
               /\ replies[c] \in Seq(HttpReplies) /\ Len(replies[c]) = Len(read[c])
               /\ Names(events[c]) = HttpNames(read[c])
               /\ HttpVerdicts(Matching(events[c], "login"))
               /\ Data(events[c], "connection") = HttpToCapture(read[c])
    <2>1. HttpOK(link[c], read[c], events[c], replies[c])
      BY DEF HttpInv
    <2> QED BY <2>1, Basics DEF HttpOK
  <1>2. Http!TypeOK
    BY <1>1 DEF HttpInv, Rows, IsRow, Http!TypeOK, Links, HttpReplies
  <1>3. \A c \in Conns : Http!Captured(c) = Names(events[c])
    BY IsNames DEF Http!Captured, Telnet!Captured, Http!Logins, Telnet!Logins, Http!Matching, Telnet!Matching,
             Http!Positions, Telnet!Positions, Http!At, Telnet!At
  <1>4. \A q : (Http!IsForm(q) <=> HttpIsForm(q)) /\ Http!Pair(q) = HttpPair(q)
    <2>1. \A S : Http!Cardinality(S) = Cardinality(S)
      BY DEF Http!Cardinality, Cardinality
    <2>2. \A q, field : Http!Given(q, field) = HttpGiven(q, field)
      BY DEF Http!Given, HttpGiven
    <2>3. \A q : Http!IsForm(q) <=> HttpIsForm(q)
      BY <2>1, <2>2 DEF Http!IsForm, HttpIsForm
    <2>4. \A q, field : Http!Value(q, field) = HttpValue(q, field)
      BY <2>2 DEF Http!Value, HttpValue
    <2> QED BY <2>3, <2>4 DEF Http!Pair, HttpPair
  <1>5. \A c \in Conns : Http!Forms(c) = HttpForms(read[c])
    <2>1. \A c \in Conns : {i \in DOMAIN read[c] : Http!IsForm(read[c][i])} = {i \in DOMAIN read[c] : HttpIsForm(read[c][i])}
      BY <1>4
    <2>2. \A s, I : Http!At(s, I) = At(s, I)
      BY DEF Http!At, At
    <2> QED BY <2>1, <2>2 DEF Http!Forms, HttpForms
  <1>6. \A c \in Conns : Http!Offered(c) = HttpOffers(read[c])
    BY <1>4, <1>5 DEF Http!Offered, HttpOffers, Elements, HttpNames
  <1>7. \A c \in Conns : Http!Requests(c) = Http!RequestLines(c)
    <2>1. \A c \in Conns : Http!Requests(c) = Data(events[c], "connection")
      BY DEF Http!Requests, Data, Http!Matching, Matching, Http!Positions, Positions, Http!At, At
    <2>2. \A c \in Conns : Http!RequestLines(c) = HttpToCapture(read[c])
      BY DEF Http!RequestLines, HttpToCapture, HttpLine
    <2> QED BY <1>1, <2>1, <2>2
  <1>8. Http!EveryFormIsLogged
    <2>1. \A c \in Conns : Http!Logins(c) = Matching(events[c], "login")
      BY DEF Http!Logins, Http!Matching, Matching, Http!Positions, Positions, Http!At, At
    <2> SUFFICES ASSUME NEW c \in Conns
                 PROVE  /\ Http!Captured(c) = [i \in DOMAIN Http!Forms(c) |-> Http!Pair(Http!Forms(c)[i])]
                        /\ \A i \in DOMAIN Http!Logins(c) :
                              Http!Logins(c)[i].status = "success" <=> Http!Captured(c)[i] = Configured.http
      BY DEF Http!EveryFormIsLogged
    <2>2. Http!Captured(c) = [i \in DOMAIN Http!Forms(c) |-> Http!Pair(Http!Forms(c)[i])]
      BY <1>1, <1>3, <1>4, <1>5 DEF HttpNames
    <2> DEFINE s == Matching(events[c], "login")
    <2>3. IsLog(s)
      BY <1>1, MatchingEntry
    <2>4. DOMAIN s = 1 .. Len(s)
      BY <2>3, LogConcat
    <2>5. Names(events[c]) = [i \in DOMAIN s |-> <<s[i].username, s[i].password>>]
      BY DEF Names
    <2>6. HttpVerdicts(s)
      BY <1>1
    <2> HIDE DEF s
    <2>7. ASSUME NEW i \in DOMAIN s PROVE s[i].status = "success" <=> Http!Captured(c)[i] = Configured.http
      <3>1. HttpVerdict(s[i])
        BY <2>4, <2>6 DEF HttpVerdicts
      <3>2. Http!Captured(c)[i] = <<s[i].username, s[i].password>>
        BY <1>3, <2>5
      <3> QED BY <3>1, <3>2 DEF HttpVerdict
    <2> QED BY <2>1, <2>2, <2>7 DEF s
  <1> QED BY <1>2, <1>6, <1>7, <1>8

-------------------------------------------------------------------------------
(* The honeypot that was chosen *)

\* What is offered, of two of the honeypots.
LEMMA MysqlOffering ==
    /\ \A c \in Conns : Mysql!Offered(c) = MysqlOffers(read[c])
    /\ \A c \in Conns : Postgres!Offered(c) = PostgresOffers(read[c])
  BY DEF Mysql!Offered, MysqlOffers, Postgres!Offered, Postgres!Answered, PostgresOffers, PostgresAnswered

Known13 == {"telnet", "postgres", "mysql", "vnc", "ldap", "mssql", "pop3", "ftp", "imap", "redis", "smtp", "irc", "http"}

\* The inductive invariant: that of the honeypot that was chosen.
Inv ==
    /\ server \in Known13
    /\ server = "telnet" => TelnetInv
    /\ server = "postgres" => PostgresInv
    /\ server = "mysql" => MysqlInv
    /\ server = "vnc" => VncInv
    /\ server = "ldap" => LdapInv
    /\ server = "mssql" => MssqlInv
    /\ server = "pop3" => Pop3Inv
    /\ server = "ftp" => FtpInv
    /\ server = "imap" => ImapInv
    /\ server = "redis" => RedisInv
    /\ server = "smtp" => SmtpInv
    /\ server = "irc" => IrcInv
    /\ server = "http" => HttpInv

\* What LoginCapture sees of a connection, by its read and answers and by the logins in its log.
Offers(s, r, a) ==
    IF s = "telnet" THEN TelnetOffers(a)
    ELSE IF s = "postgres" THEN PostgresOffers(r)
    ELSE IF s = "mysql" THEN MysqlOffers(r)
    ELSE IF s = "vnc" THEN VncOffers(r)
    ELSE IF s = "ldap" THEN LdapOffers(r)
    ELSE IF s = "mssql" THEN MssqlOffers(r)
    ELSE IF s = "pop3" THEN Pop3Offers(r)
    ELSE IF s = "ftp" THEN FtpOffers(r)
    ELSE IF s = "imap" THEN ImapOffers(r)
    ELSE IF s = "redis" THEN RedisOffers(r)
    ELSE IF s = "smtp" THEN SmtpOffers(r)
    ELSE IF s = "irc" THEN IrcOffers(r)
    ELSE HttpOffers(r)

Shows(s, n) == IF s = "vnc" THEN VncShown(n) ELSE IF s = "ldap" THEN LdapShown(n) ELSE n

Views ==
    \A c \in Conns : /\ Offered(c) = Offers(server, read[c], answers[c])
                     /\ Captured(c) = Shows(server, Names(events[c]))
                     /\ Telnet!Phase(c) = PhaseOf(link[c])

\* A step of one of the connections, as LoginCapture sees it.
Steps(c) ==
    /\ Frame(c)
    /\ Moves(link[c], link'[c], Offers(server, read[c], answers[c]), Offers(server, read'[c], answers'[c]),
             Shows(server, Names(events[c])), Shows(server, Names(events'[c])))

\* The invariant holds at the start.
LEMMA Begins == Init => Inv
  <1> SUFFICES ASSUME Init PROVE Inv
    OBVIOUS
  <1>1. ASSUME server = "telnet", Telnet!Init, replies = Nothing PROVE Inv
    <2>1. TelnetInv
      BY <1>1, TelnetBegins
    <2> QED BY <1>1, <2>1 DEF Inv, Known13
  <1>2. ASSUME server = "postgres", Postgres!Init, buffer = Nothing, answers = Nothing, replies = Nothing PROVE Inv
    <2>1. PostgresInv
      BY <1>2, PostgresBegins
    <2> QED BY <1>2, <2>1 DEF Inv, Known13
  <1>3. ASSUME server = "mysql", Mysql!Init, state = Nothing, user = Nothing, buffer = Nothing, answers = Nothing PROVE Inv
    <2>1. MysqlInv
      BY <1>3, MysqlBegins
    <2> QED BY <1>3, <2>1 DEF Inv, Known13
  <1>4. ASSUME server = "vnc", Vnc!Init, user = Nothing, buffer = Nothing, answers = Nothing, replies = Nothing PROVE Inv
    <2>1. VncInv
      BY <1>4, VncBegins
    <2> QED BY <1>4, <2>1 DEF Inv, Known13
  <1>5. ASSUME server = "ldap", Ldap!Init, user = Nothing, buffer = Nothing, answers = Nothing, replies = Nothing PROVE Inv
    <2>1. LdapInv
      BY <1>5, LdapBegins
    <2> QED BY <1>5, <2>1 DEF Inv, Known13
  <1>6. ASSUME server = "mssql", Mssql!Init, state = Nothing, user = Nothing, buffer = Nothing, answers = Nothing PROVE Inv
    <2>1. MssqlInv
      BY <1>6, MssqlBegins
    <2> QED BY <1>6, <2>1 DEF Inv, Known13
  <1>7. ASSUME server = "pop3", Pop3!Init, state = Nothing, buffer = Nothing, answers = Nothing PROVE Inv
    <2>1. Pop3Inv
      BY <1>7, Pop3Begins
    <2> QED BY <1>7, <2>1 DEF Inv, Known13
  <1>8. ASSUME server = "ftp", Ftp!Init, buffer = Nothing, answers = Nothing, replies = Nothing PROVE Inv
    <2>1. FtpInv
      BY <1>8, FtpBegins
    <2> QED BY <1>8, <2>1 DEF Inv, Known13
  <1>9. ASSUME server = "imap", Imap!Init, state = Nothing, buffer = Nothing, answers = Nothing, replies = Nothing PROVE Inv
    <2>1. ImapInv
      BY <1>9, ImapBegins
    <2> QED BY <1>9, <2>1 DEF Inv, Known13
  <1>10. ASSUME server = "redis", Redis!Init, state = Nothing, user = Nothing, buffer = Nothing, answers = Nothing PROVE Inv
    <2>1. RedisInv
      BY <1>10, RedisBegins
    <2> QED BY <1>10, <2>1 DEF Inv, Known13
  <1>11. ASSUME server = "smtp", Smtp!Init, state = Nothing, user = Nothing, buffer = Nothing, answers = Nothing, replies = Nothing PROVE Inv
    <2>1. SmtpInv
      BY <1>11, SmtpBegins
    <2> QED BY <1>11, <2>1 DEF Inv, Known13
  <1>12. ASSUME server = "irc", Irc!Init, state = Nothing, buffer = Nothing, answers = Nothing, replies = Nothing PROVE Inv
    <2>1. IrcInv
      BY <1>12, IrcBegins
    <2> QED BY <1>12, <2>1 DEF Inv, Known13
  <1>13. ASSUME server = "http", Http!Init, state = Nothing, user = Nothing, buffer = Nothing, answers = Nothing PROVE Inv
    <2>1. HttpInv
      BY <1>13, HttpBegins
    <2> QED BY <1>13, <2>1 DEF Inv, Known13
  <1> QED BY <1>1, <1>2, <1>3, <1>4, <1>5, <1>6, <1>7, <1>8, <1>9, <1>10, <1>11, <1>12, <1>13 DEF Init

\* A step keeps the invariant, and is one of one connection.
LEMMA Advances ==
    ASSUME Inv, Next
    PROVE  Inv' /\ \E c \in Conns : Steps(c)
  <1>0. server' = server
    BY DEF Next
  <1>1. ASSUME server = "telnet", Telnet!Next, UNCHANGED <<replies>> PROVE Inv' /\ \E c \in Conns : Steps(c)
    <2>1. TelnetInv' /\ \E c \in Conns : TelnetMoves(c)
      BY <1>0, <1>1, TelnetStep DEF Inv
    <2>2. Inv'
      BY <1>0, <1>1, <2>1 DEF Inv, Known13
    <2>3. ASSUME NEW c \in Conns, TelnetMoves(c) PROVE Steps(c)
      BY <1>1, <2>3 DEF TelnetMoves, Moved, Steps, Offers, Shows
    <2> QED BY <2>1, <2>2, <2>3
  <1>2. ASSUME server = "postgres", Postgres!Next, UNCHANGED <<buffer, answers, replies>> PROVE Inv' /\ \E c \in Conns : Steps(c)
    <2>1. PostgresInv' /\ \E c \in Conns : PostgresMoves(c)
      BY <1>0, <1>2, PostgresStep DEF Inv
    <2>2. Inv'
      BY <1>0, <1>2, <2>1 DEF Inv, Known13
    <2>3. ASSUME NEW c \in Conns, PostgresMoves(c) PROVE Steps(c)
      BY <1>2, <2>3 DEF PostgresMoves, Moved, Steps, Offers, Shows
    <2> QED BY <2>1, <2>2, <2>3
  <1>3. ASSUME server = "mysql", Mysql!Next, UNCHANGED <<state, user, buffer, answers>> PROVE Inv' /\ \E c \in Conns : Steps(c)
    <2>1. MysqlInv' /\ \E c \in Conns : MysqlMoves(c)
      BY <1>0, <1>3, MysqlStep DEF Inv
    <2>2. Inv'
      BY <1>0, <1>3, <2>1 DEF Inv, Known13
    <2>3. ASSUME NEW c \in Conns, MysqlMoves(c) PROVE Steps(c)
      BY <1>3, <2>3 DEF MysqlMoves, Moved, Steps, Offers, Shows
    <2> QED BY <2>1, <2>2, <2>3
  <1>4. ASSUME server = "vnc", Vnc!Next, UNCHANGED <<user, buffer, answers, replies>> PROVE Inv' /\ \E c \in Conns : Steps(c)
    <2>1. VncInv' /\ \E c \in Conns : VncMoves(c)
      BY <1>0, <1>4, VncStep DEF Inv
    <2>2. Inv'
      BY <1>0, <1>4, <2>1 DEF Inv, Known13
    <2>3. ASSUME NEW c \in Conns, VncMoves(c) PROVE Steps(c)
      BY <1>4, <2>3 DEF VncMoves, Moved, Steps, Offers, Shows
    <2> QED BY <2>1, <2>2, <2>3
  <1>5. ASSUME server = "ldap", Ldap!Next, UNCHANGED <<user, buffer, answers, replies>> PROVE Inv' /\ \E c \in Conns : Steps(c)
    <2>1. LdapInv' /\ \E c \in Conns : LdapMoves(c)
      BY <1>0, <1>5, LdapStep DEF Inv
    <2>2. Inv'
      BY <1>0, <1>5, <2>1 DEF Inv, Known13
    <2>3. ASSUME NEW c \in Conns, LdapMoves(c) PROVE Steps(c)
      BY <1>5, <2>3 DEF LdapMoves, Moved, Steps, Offers, Shows
    <2> QED BY <2>1, <2>2, <2>3
  <1>6. ASSUME server = "mssql", Mssql!Next, UNCHANGED <<state, user, buffer, answers>> PROVE Inv' /\ \E c \in Conns : Steps(c)
    <2>1. MssqlInv' /\ \E c \in Conns : MssqlMoves(c)
      BY <1>0, <1>6, MssqlStep DEF Inv
    <2>2. Inv'
      BY <1>0, <1>6, <2>1 DEF Inv, Known13
    <2>3. ASSUME NEW c \in Conns, MssqlMoves(c) PROVE Steps(c)
      BY <1>6, <2>3 DEF MssqlMoves, Moved, Steps, Offers, Shows
    <2> QED BY <2>1, <2>2, <2>3
  <1>7. ASSUME server = "pop3", Pop3!Next, UNCHANGED <<state, buffer, answers>> PROVE Inv' /\ \E c \in Conns : Steps(c)
    <2>1. Pop3Inv' /\ \E c \in Conns : Pop3Moves(c)
      BY <1>0, <1>7, Pop3Step DEF Inv
    <2>2. Inv'
      BY <1>0, <1>7, <2>1 DEF Inv, Known13
    <2>3. ASSUME NEW c \in Conns, Pop3Moves(c) PROVE Steps(c)
      BY <1>7, <2>3 DEF Pop3Moves, Moved, Steps, Offers, Shows
    <2> QED BY <2>1, <2>2, <2>3
  <1>8. ASSUME server = "ftp", Ftp!Next, UNCHANGED <<buffer, answers, replies>> PROVE Inv' /\ \E c \in Conns : Steps(c)
    <2>1. FtpInv' /\ \E c \in Conns : FtpMoves(c)
      BY <1>0, <1>8, FtpStep DEF Inv
    <2>2. Inv'
      BY <1>0, <1>8, <2>1 DEF Inv, Known13
    <2>3. ASSUME NEW c \in Conns, FtpMoves(c) PROVE Steps(c)
      BY <1>8, <2>3 DEF FtpMoves, Moved, Steps, Offers, Shows
    <2> QED BY <2>1, <2>2, <2>3
  <1>9. ASSUME server = "imap", Imap!Next, UNCHANGED <<state, buffer, answers, replies>> PROVE Inv' /\ \E c \in Conns : Steps(c)
    <2>1. ImapInv' /\ \E c \in Conns : ImapMoves(c)
      BY <1>0, <1>9, ImapStep DEF Inv
    <2>2. Inv'
      BY <1>0, <1>9, <2>1 DEF Inv, Known13
    <2>3. ASSUME NEW c \in Conns, ImapMoves(c) PROVE Steps(c)
      BY <1>9, <2>3 DEF ImapMoves, Moved, Steps, Offers, Shows
    <2> QED BY <2>1, <2>2, <2>3
  <1>10. ASSUME server = "redis", Redis!Next, UNCHANGED <<state, user, buffer, answers>> PROVE Inv' /\ \E c \in Conns : Steps(c)
    <2>1. RedisInv' /\ \E c \in Conns : RedisMoves(c)
      BY <1>0, <1>10, RedisStep DEF Inv
    <2>2. Inv'
      BY <1>0, <1>10, <2>1 DEF Inv, Known13
    <2>3. ASSUME NEW c \in Conns, RedisMoves(c) PROVE Steps(c)
      BY <1>10, <2>3 DEF RedisMoves, Moved, Steps, Offers, Shows
    <2> QED BY <2>1, <2>2, <2>3
  <1>11. ASSUME server = "smtp", Smtp!Next, UNCHANGED <<state, user, buffer, answers, replies>> PROVE Inv' /\ \E c \in Conns : Steps(c)
    <2>1. SmtpInv' /\ \E c \in Conns : SmtpMoves(c)
      BY <1>0, <1>11, SmtpStep DEF Inv
    <2>2. Inv'
      BY <1>0, <1>11, <2>1 DEF Inv, Known13
    <2>3. ASSUME NEW c \in Conns, SmtpMoves(c) PROVE Steps(c)
      BY <1>11, <2>3 DEF SmtpMoves, Moved, Steps, Offers, Shows
    <2> QED BY <2>1, <2>2, <2>3
  <1>12. ASSUME server = "irc", Irc!Next, UNCHANGED <<state, buffer, answers, replies>> PROVE Inv' /\ \E c \in Conns : Steps(c)
    <2>1. IrcInv' /\ \E c \in Conns : IrcMoves(c)
      BY <1>0, <1>12, IrcStep DEF Inv
    <2>2. Inv'
      BY <1>0, <1>12, <2>1 DEF Inv, Known13
    <2>3. ASSUME NEW c \in Conns, IrcMoves(c) PROVE Steps(c)
      BY <1>12, <2>3 DEF IrcMoves, Moved, Steps, Offers, Shows
    <2> QED BY <2>1, <2>2, <2>3
  <1>13. ASSUME server = "http", Http!Next, UNCHANGED <<state, user, buffer, answers>> PROVE Inv' /\ \E c \in Conns : Steps(c)
    <2>1. HttpInv' /\ \E c \in Conns : HttpMoves(c)
      BY <1>0, <1>13, HttpStep DEF Inv
    <2>2. Inv'
      BY <1>0, <1>13, <2>1 DEF Inv, Known13
    <2>3. ASSUME NEW c \in Conns, HttpMoves(c) PROVE Steps(c)
      BY <1>13, <2>3 DEF HttpMoves, Moved, Steps, Offers, Shows
    <2> QED BY <2>1, <2>2, <2>3
  <1> QED BY <1>1, <1>2, <1>3, <1>4, <1>5, <1>6, <1>7, <1>8, <1>9, <1>10, <1>11, <1>12, <1>13 DEF Next

\* The invariant is kept by every step.
LEMMA Keeps == Inv /\ [Next]_everything => Inv'
  <1>1. ASSUME Inv, UNCHANGED everything PROVE Inv'
    <2>1. /\ server' = server /\ link' = link /\ read' = read /\ events' = events /\ state' = state
          /\ user' = user /\ buffer' = buffer /\ answers' = answers /\ replies' = replies
      BY <1>1 DEF everything, tcp
    <2>2. Rows' <=> Rows
      BY <2>1 DEF Rows, IsRow
    <2>3. TelnetInv => TelnetInv'
      BY <2>1, <2>2 DEF TelnetInv
    <2>4. PostgresInv => PostgresInv'
      BY <2>1, <2>2 DEF PostgresInv
    <2>5. MysqlInv => MysqlInv'
      BY <2>1, <2>2 DEF MysqlInv
    <2>6. VncInv => VncInv'
      BY <2>1, <2>2 DEF VncInv
    <2>7. LdapInv => LdapInv'
      BY <2>1, <2>2 DEF LdapInv
    <2>8. MssqlInv => MssqlInv'
      BY <2>1, <2>2 DEF MssqlInv
    <2>9. Pop3Inv => Pop3Inv'
      BY <2>1, <2>2 DEF Pop3Inv
    <2>10. FtpInv => FtpInv'
      BY <2>1, <2>2 DEF FtpInv
    <2>11. ImapInv => ImapInv'
      BY <2>1, <2>2 DEF ImapInv
    <2>12. RedisInv => RedisInv'
      BY <2>1, <2>2 DEF RedisInv
    <2>13. SmtpInv => SmtpInv'
      BY <2>1, <2>2 DEF SmtpInv
    <2>14. IrcInv => IrcInv'
      BY <2>1, <2>2 DEF IrcInv
    <2>15. HttpInv => HttpInv'
      BY <2>1, <2>2 DEF HttpInv
    <2> QED BY <1>1, <2>1, <2>3, <2>4, <2>5, <2>6, <2>7, <2>8, <2>9, <2>10, <2>11, <2>12, <2>13, <2>14, <2>15 DEF Inv
  <1>2. ASSUME Inv, Next PROVE Inv'
    <2>1. Inv' /\ \E c \in Conns : Steps(c)
      BY <1>2, Advances
    <2> QED BY <2>1
  <1> QED BY <1>1, <1>2

\* What the invariant says of the properties of LoginServers.
Good ==
    /\ TypeOK /\ EveryDialogueIsLogged /\ EveryTryIsLogged /\ SuccessIsConfigured
    /\ ShellNeedsLogin /\ LiteralCostsOneLogin /\ CommandsAreLogged

\* The invariant implies the properties.
LEMMA Safe == Inv => Good
  <1> SUFFICES ASSUME Inv PROVE Good
    OBVIOUS
  <1>1. ASSUME server = "telnet"
        PROVE  Telnet!TypeOK /\ Telnet!AnswersAreLogged
    BY <1>1, TelnetSafe DEF Inv
  <1>2. ASSUME server = "postgres"
        PROVE  Postgres!TypeOK /\ Postgres!ThreeChunks
    BY <1>2, PostgresSafe DEF Inv
  <1>3. ASSUME server = "mysql"
        PROVE  Mysql!TypeOK /\ Mysql!EveryTryIsLogged
    BY <1>3, MysqlSafe DEF Inv
  <1>4. ASSUME server = "vnc"
        PROVE  Vnc!TypeOK /\ Vnc!SuccessIsConfigured
    BY <1>4, VncSafe DEF Inv
  <1>5. ASSUME server = "ldap"
        PROVE  Ldap!TypeOK /\ Ldap!TwoTries
    BY <1>5, LdapSafe DEF Inv
  <1>6. ASSUME server = "mssql"
        PROVE  Mssql!TypeOK
    BY <1>6, MssqlSafe DEF Inv
  <1>7. ASSUME server = "pop3"
        PROVE  Pop3!TypeOK /\ Pop3!EveryPairIsLogged /\ \A c \in Conns : Pop3!Commands(c) = Pop3!ToCapture(c)
    BY <1>7, Pop3Safe DEF Inv
  <1>8. ASSUME server = "ftp"
        PROVE  Ftp!TypeOK /\ Ftp!ShellNeedsLogin /\ \A c \in Conns : Ftp!Commands(c) = Ftp!ToCapture(c)
    BY <1>8, FtpSafe DEF Inv
  <1>9. ASSUME server = "imap"
        PROVE  Imap!TypeOK /\ Imap!LiteralCostsOneLogin
    BY <1>9, ImapSafe DEF Inv
  <1>10. ASSUME server = "redis"
        PROVE  Redis!TypeOK /\ Redis!OneRequest
    BY <1>10, RedisSafe DEF Inv
  <1>11. ASSUME server = "smtp"
        PROVE  Smtp!TypeOK /\ Smtp!EveryAuthIsLogged
    BY <1>11, SmtpSafe DEF Inv
  <1>12. ASSUME server = "irc"
        PROVE  Irc!TypeOK /\ Irc!EveryNickIsLogged /\ \A c \in Conns : Irc!Commands(c) = Irc!Decoded(c)
    BY <1>12, IrcSafe DEF Inv
  <1>13. ASSUME server = "http"
        PROVE  Http!TypeOK /\ Http!EveryFormIsLogged /\ \A c \in Conns : Http!Requests(c) = Http!RequestLines(c)
    BY <1>13, HttpSafe DEF Inv
  <1>14. TypeOK
    BY <1>1, <1>2, <1>3, <1>4, <1>5, <1>6, <1>7, <1>8, <1>9, <1>10, <1>11, <1>12, <1>13 DEF TypeOK
  <1>15. EveryDialogueIsLogged
    BY <1>1, <1>2, <1>7 DEF EveryDialogueIsLogged
  <1>16. EveryTryIsLogged
    BY <1>3, <1>5, <1>10, <1>11, <1>12, <1>13 DEF EveryTryIsLogged
  <1>17. SuccessIsConfigured /\ ShellNeedsLogin /\ LiteralCostsOneLogin
    BY <1>4, <1>8, <1>9 DEF SuccessIsConfigured, ShellNeedsLogin, LiteralCostsOneLogin
  <1>18. CommandsAreLogged
    BY <1>7, <1>8, <1>12, <1>13 DEF CommandsAreLogged
  <1> QED BY <1>14, <1>15, <1>16, <1>17, <1>18 DEF Good

\* What LoginCapture sees is what the invariants speak of.
LEMMA Viewed == Inv => Views
  <1> SUFFICES ASSUME Inv, NEW c \in Conns
               PROVE  /\ Offered(c) = Offers(server, read[c], answers[c])
                      /\ Captured(c) = Shows(server, Names(events[c]))
                      /\ Telnet!Phase(c) = PhaseOf(link[c])
    BY DEF Views
  <1>1. Telnet!Phase(c) = PhaseOf(link[c])
    BY DEF Telnet!Phase, PhaseOf
  <1>2. Telnet!Captured(c) = Names(events[c])
    <2>1. Telnet!Logins(c) = Matching(events[c], "login")
      BY DEF Telnet!Logins, Telnet!Matching, Matching, Telnet!Positions, Positions, Telnet!At, At
    <2> QED BY <2>1 DEF Telnet!Captured, Names
  <1>3. Captured(c) = Shows(server, Names(events[c]))
    BY <1>2, VncSafe, LdapSafe DEF Inv, Captured, Shows
  <1>4. server = "telnet" => Offered(c) = Offers(server, read[c], answers[c])
    <2>1. server = "telnet" => Telnet!Offered(c) = TelnetOffers(answers[c])
      BY TelnetSafe DEF Inv
    <2> QED BY <2>1 DEF Offered, Offers
  <1>5. server = "postgres" => Offered(c) = Offers(server, read[c], answers[c])
    <2>1. server = "postgres" => Postgres!Offered(c) = PostgresOffers(read[c])
      BY MysqlOffering DEF Inv
    <2> QED BY <2>1 DEF Offered, Offers
  <1>6. server = "mysql" => Offered(c) = Offers(server, read[c], answers[c])
    <2>1. server = "mysql" => Mysql!Offered(c) = MysqlOffers(read[c])
      BY MysqlOffering DEF Inv
    <2> QED BY <2>1 DEF Offered, Offers
  <1>7. server = "vnc" => Offered(c) = Offers(server, read[c], answers[c])
    <2>1. server = "vnc" => Vnc!Offered(c) = VncOffers(read[c])
      BY VncSafe DEF Inv
    <2> QED BY <2>1 DEF Offered, Offers
  <1>8. server = "ldap" => Offered(c) = Offers(server, read[c], answers[c])
    <2>1. server = "ldap" => Ldap!Offered(c) = LdapOffers(read[c])
      BY LdapSafe DEF Inv
    <2> QED BY <2>1 DEF Offered, Offers
  <1>9. server = "mssql" => Offered(c) = Offers(server, read[c], answers[c])
    <2>1. server = "mssql" => Mssql!Offered(c) = MssqlOffers(read[c])
      BY MssqlSafe DEF Inv
    <2> QED BY <2>1 DEF Offered, Offers
  <1>10. server = "pop3" => Offered(c) = Offers(server, read[c], answers[c])
    <2>1. server = "pop3" => Pop3!Offered(c) = Pop3Offers(read[c])
      BY Pop3Safe DEF Inv
    <2> QED BY <2>1 DEF Offered, Offers
  <1>11. server = "ftp" => Offered(c) = Offers(server, read[c], answers[c])
    <2>1. server = "ftp" => Ftp!Offered(c) = FtpOffers(read[c])
      BY FtpSafe DEF Inv
    <2> QED BY <2>1 DEF Offered, Offers
  <1>12. server = "imap" => Offered(c) = Offers(server, read[c], answers[c])
    <2>1. server = "imap" => Imap!Offered(c) = ImapOffers(read[c])
      BY ImapSafe DEF Inv
    <2> QED BY <2>1 DEF Offered, Offers
  <1>13. server = "redis" => Offered(c) = Offers(server, read[c], answers[c])
    <2>1. server = "redis" => Redis!Offered(c) = RedisOffers(read[c])
      BY RedisSafe DEF Inv
    <2> QED BY <2>1 DEF Offered, Offers
  <1>14. server = "smtp" => Offered(c) = Offers(server, read[c], answers[c])
    <2>1. server = "smtp" => Smtp!Offered(c) = SmtpOffers(read[c])
      BY SmtpSafe DEF Inv
    <2> QED BY <2>1 DEF Offered, Offers
  <1>15. server = "irc" => Offered(c) = Offers(server, read[c], answers[c])
    <2>1. server = "irc" => Irc!Offered(c) = IrcOffers(read[c])
      BY IrcSafe DEF Inv
    <2> QED BY <2>1 DEF Offered, Offers
  <1>16. server = "http" => Offered(c) = Offers(server, read[c], answers[c])
    <2>1. server = "http" => Http!Offered(c) = HttpOffers(read[c])
      BY HttpSafe DEF Inv
    <2> QED BY <2>1 DEF Offered, Offers
  <1> QED BY <1>1, <1>3, <1>4, <1>5, <1>6, <1>7, <1>8, <1>9, <1>10, <1>11, <1>12, <1>13, <1>14, <1>15, <1>16 DEF Inv, Known13

-------------------------------------------------------------------------------
(* The promise of LoginCapture *)

phases == [c \in Conns |-> Telnet!Phase(c)]
offers == [c \in Conns |-> Offered(c)]
captures == [c \in Conns |-> Captured(c)]

\* What it sees, by the values of the variables.
Seen ==
    /\ phases = [c \in Conns |-> PhaseOf(link[c])]
    /\ offers = [c \in Conns |-> Offers(server, read[c], answers[c])]
    /\ captures = [c \in Conns |-> Shows(server, Names(events[c]))]

\* The same of all connections together.
LEMMA Sees == Inv => Seen
  BY Viewed DEF Views, Seen, phases, offers, captures

\* After a step.
LEMMA WillSee == Inv' => Seen'
  BY Sees, PTL

\* A step of one connection is a step of LoginCapture.
LEMMA CaptureStep ==
    ASSUME Seen, Seen', NEW c \in Conns, Steps(c)
    PROVE  Capture!CaptureNext
  <1>0. server' = server
    BY DEF Steps, Frame
  <1> DEFINE p == phases  q == phases'  o == offers  n == offers'  l == captures  m == captures'
  <1>1. \A d \in Conns : /\ p[d] = PhaseOf(link[d]) /\ o[d] = Offers(server, read[d], answers[d])
                         /\ l[d] = Shows(server, Names(events[d]))
                         /\ q[d] = PhaseOf(link'[d]) /\ n[d] = Offers(server, read'[d], answers'[d])
                         /\ m[d] = Shows(server, Names(events'[d]))
    BY <1>0 DEF Seen
  <1>2. /\ p = [d \in Conns |-> p[d]] /\ q = [d \in Conns |-> q[d]] /\ o = [d \in Conns |-> o[d]]
        /\ n = [d \in Conns |-> n[d]] /\ l = [d \in Conns |-> l[d]] /\ m = [d \in Conns |-> m[d]]
    BY DEF Seen
  <1>3. \A d \in Conns \ {c} : q[d] = p[d] /\ n[d] = o[d] /\ m[d] = l[d]
    <2>1. \A d \in Conns \ {c} : link'[d] = link[d] /\ read'[d] = read[d] /\ events'[d] = events[d] /\ answers'[d] = answers[d]
      BY DEF Steps, Frame
    <2> QED BY <1>1, <2>1
  <1>4. \/ p[c] = "none" /\ q[c] = "open" /\ n[c] = o[c] /\ m[c] = l[c]
        \/ /\ p[c] = "open" /\ q[c] \in {"open", "lost"} /\ o[c] \subseteq n[c]
           /\ (m[c] = l[c] \/ \E x \in n[c] : m[c] = Append(l[c], x))
    BY <1>1 DEF Steps, Moves
  <1>5. ASSUME p[c] = "none", q[c] = "open", n[c] = o[c], m[c] = l[c]
        PROVE  Capture!Admit(c)
    <2> HIDE DEF p, q, o, n, l, m
    <2>1. (\A d \in Conns : n[d] = o[d]) /\ (\A d \in Conns : m[d] = l[d])
      BY <1>3, <1>5
    <2>2. n = o /\ m = l
      BY <1>2, <2>1
    <2>3. q = [p EXCEPT ![c] = "open"]
      BY <1>2, <1>3, <1>5
    <2> QED BY <1>5, <2>2, <2>3 DEF Capture!Admit, p, q, o, n, l, m, phases, offers, captures
  <1>6. ASSUME p[c] = "open", q[c] \in {"open", "lost"}, o[c] \subseteq n[c],
               m[c] = l[c] \/ \E x \in n[c] : m[c] = Append(l[c], x)
        PROVE  Capture!Handle(c)
    BY <1>3, <1>6 DEF Capture!Handle, phases, offers, captures
  <1>7. Capture!Admit(c) \/ Capture!Handle(c)
    BY <1>4, <1>5, <1>6
  <1> QED BY <1>7 DEF Capture!CaptureNext

\* Nothing is offered by who has sent nothing.
LEMMA NoOffers ==
    ASSUME NEW z, DOMAIN z = {}, Len(z) = 0
    PROVE  /\ TelnetOffers(z) = {} /\ PostgresOffers(z) = {} /\ MysqlOffers(z) = {} /\ VncOffers(z) = {}
           /\ LdapOffers(z) = {} /\ MssqlOffers(z) = {} /\ Pop3Offers(z) = {} /\ FtpOffers(z) = {}
           /\ ImapOffers(z) = {} /\ RedisOffers(z) = {} /\ IrcOffers(z) = {} /\ Elements(z) = {}
  <1>1. 2 .. Len(z) = {} /\ ~(Len(z) >= 3)
    OBVIOUS
  <1>2. TelnetOffers(z) = {} /\ PostgresOffers(z) = {}
    BY <1>1 DEF TelnetOffers, PostgresOffers, PostgresAnswered
  <1>3. MysqlOffers(z) = {} /\ LdapOffers(z) = {} /\ MssqlOffers(z) = {} /\ RedisOffers(z) = {} /\ Elements(z) = {}
    BY DEF MysqlOffers, LdapOffers, MssqlOffers, RedisOffers, Elements
  <1>4. VncOffers(z) = {}
    BY DEF VncOffers, VncAnswering
  <1>5. Pop3Pairs(z) = {} /\ FtpPairs(z) = {} /\ ImapPairs(z) = {} /\ IrcPairs(z) = {}
    BY DEF Pop3Pairs, FtpPairs, ImapPairs, IrcPairs
  <1>6. Pop3Offers(z) = {} /\ FtpOffers(z) = {} /\ ImapSplit(z) = {} /\ IrcWith(z) = {}
    BY <1>5 DEF Pop3Offers, FtpOffers, ImapSplit, IrcWith
  <1>7. ImapWhole(z) = {} /\ IrcAlone(z) = {}
    BY DEF ImapWhole, IrcAlone
  <1> QED BY <1>2, <1>3, <1>4, <1>6, <1>7 DEF ImapOffers, IrcOffers

\* The same of whichever honeypot it is.
LEMMA NoneOffered == \A s \in Known13 : Offers(s, <<>>, <<>>) = {} /\ Shows(s, Names(<<>>)) = <<>>
  <1> DEFINE z == <<>>
  <1>1. DOMAIN z = {} /\ Len(z) = 0
    OBVIOUS
  <1>2. HttpNames(z) = z /\ SmtpNames(z) = z /\ VncShown(z) = z /\ LdapShown(z) = z /\ Names(z) = z
    BY HttpNothing, SmtpNothing, VncShowing, LdapShowing, NoEntries
  <1> HIDE DEF z
  <1>3. HttpOffers(z) = {} /\ SmtpOffers(z) = {}
    BY <1>1, <1>2, NoOffers DEF HttpOffers, SmtpOffers
  <1>4. /\ TelnetOffers(z) = {} /\ PostgresOffers(z) = {} /\ MysqlOffers(z) = {} /\ VncOffers(z) = {}
        /\ LdapOffers(z) = {} /\ MssqlOffers(z) = {} /\ Pop3Offers(z) = {} /\ FtpOffers(z) = {}
        /\ ImapOffers(z) = {} /\ RedisOffers(z) = {} /\ IrcOffers(z) = {}
    BY <1>1, NoOffers
  <1>5. ASSUME NEW s \in Known13 PROVE Offers(s, z, z) = {} /\ Shows(s, Names(z)) = z
    BY <1>2, <1>3, <1>4 DEF Offers, Shows
  <1> QED BY <1>5 DEF z

\* The start of the server is one of LoginCapture.
LEMMA Starts == Init => Capture!CaptureInit
  <1> SUFFICES ASSUME Init PROVE Capture!CaptureInit
    OBVIOUS
  <1>1. Inv /\ Seen
    BY Begins, Sees
  <1>2. \A c \in Conns : link[c] = "none" /\ read[c] = <<>> /\ events[c] = <<>> /\ answers[c] = <<>>
    BY DEF Init, Nothing, Telnet!Init, Telnet!ConnectionsInit, Postgres!Init, Postgres!ConnectionsInit, Mysql!Init, Mysql!ConnectionsInit, Vnc!Init, Vnc!ConnectionsInit, Ldap!Init, Ldap!ConnectionsInit, Mssql!Init, Mssql!ConnectionsInit, Pop3!Init, Pop3!ConnectionsInit, Ftp!Init, Ftp!ConnectionsInit, Imap!Init, Imap!ConnectionsInit, Redis!Init, Redis!ConnectionsInit, Smtp!Init, Smtp!ConnectionsInit, Irc!Init, Irc!ConnectionsInit, Http!Init, Http!ConnectionsInit
  <1>3. server \in Known13
    BY <1>1 DEF Inv
  <1>4. \A c \in Conns : /\ PhaseOf(link[c]) = "none" /\ Offers(server, read[c], answers[c]) = {}
                         /\ Shows(server, Names(events[c])) = <<>>
    BY <1>2, <1>3, NoneOffered DEF PhaseOf
  <1>5. /\ phases = [c \in Conns |-> "none"] /\ offers = [c \in Conns |-> {}]
        /\ captures = [c \in Conns |-> <<>>]
    BY <1>1, <1>4 DEF Seen
  <1> QED BY <1>5 DEF Capture!CaptureInit, phases, offers, captures

\* A step that changes nothing that LoginCapture looks at.
LEMMA Stutters == Seen /\ Seen' /\ UNCHANGED everything => UNCHANGED Capture!captureVars
  <1> SUFFICES ASSUME Seen, Seen', UNCHANGED everything PROVE UNCHANGED Capture!captureVars
    OBVIOUS
  <1>1. server' = server /\ link' = link /\ read' = read /\ events' = events /\ answers' = answers
    BY DEF everything, tcp
  <1>2. phases' = phases /\ offers' = offers /\ captures' = captures
    BY <1>1 DEF Seen
  <1> QED BY <1>2 DEF Capture!captureVars, phases, offers, captures

\* Every step is one of LoginCapture, or changes nothing it looks at.
LEMMA StepsCapture == Inv /\ Inv' /\ [Next]_everything => [Capture!CaptureNext]_(Capture!captureVars)
  <1> SUFFICES ASSUME Inv, Inv', Next PROVE Capture!CaptureNext
    BY Stutters, Sees, WillSee
  <1>1. PICK c \in Conns : Steps(c)
    BY Advances
  <1> QED BY <1>1, Sees, WillSee, CaptureStep

-------------------------------------------------------------------------------
(* The theorems *)

\* What the theorems below follow from: the invariant of the honeypot that was chosen, which
\* ties the state, the log and what was read of every connection together.
THEOREM Invariant == Spec => []Inv
  <1> QED BY Begins, Keeps, PTL DEF Spec

\* Of all thirteen honeypots the variables are well-typed, and the state of a connection agrees
\* with what its peer has sent (the TypeOK of each module).
THEOREM TypesAreKept == Spec => []TypeOK
  <1>1. Inv => TypeOK
    BY Safe DEF Good
  <1> QED BY <1>1, Invariant, PTL

\* telnet, postgres and pop3: who has answered for a user and a password is in the log with
\* these answers and no others (telnet_server.py:54-59, postgres_server.py:45-65,
\* pop3_server.py:71-85), for any clients, chunks, lines and credentials.
THEOREM DialoguesAreLogged == Spec => []EveryDialogueIsLogged
  <1>1. Inv => EveryDialogueIsLogged
    BY Safe DEF Good
  <1> QED BY <1>1, Invariant, PTL

\* mysql, smtp, irc, http, ldap and redis: every login packet, AUTH PLAIN, NICK, form, bind and
\* AUTH is a login in the log, in order, with its own verdict (mysql_server.py:105-138,
\* smtp_server.py:44-70, irc_server.py:58-62, base_http_server.py:91-117, ldap_server.py:72-88,
\* redis_server.py:35-75).
THEOREM TriesAreLogged == Spec => []EveryTryIsLogged
  <1>1. Inv => EveryTryIsLogged
    BY Safe DEF Good
  <1> QED BY <1>1, Invariant, PTL

\* vnc: a login succeeds exactly for the response to the configured password, whatever words
\* there are and whatever responses they share (vnc_server.py:28, 79-82).
THEOREM SuccessAlwaysConfigured == Spec => []SuccessIsConfigured
  <1>1. Inv => SuccessIsConfigured
    BY Safe DEF Good
  <1> QED BY <1>1, Invariant, PTL

\* ftp: whoever has a shell is in the log with the configured credentials as its last login, and
\* is not the anonymous user (ftp_server.py:77-83, 115-144).
THEOREM ShellsNeedLogin == Spec => []ShellNeedsLogin
  <1>1. Inv => ShellNeedsLogin
    BY Safe DEF Good
  <1> QED BY <1>1, Invariant, PTL

\* imap: a literal uses up at most one later command: the logins in the log are as many as the
\* whole LOGINs, give or take one for every literal (imap_server.py:35-96).
THEOREM LiteralsCostOneLogin == Spec => []LiteralCostsOneLogin
  <1>1. Inv => LiteralCostsOneLogin
    BY Safe DEF Good
  <1> QED BY <1>1, Invariant, PTL

\* pop3, ftp, irc and http: with capture_commands the log holds every line in order, without it
\* none (pop3_server.py:38-51, ftp_server.py:99-113, irc_server.py:31-44,
\* base_http_server.py:68-75).
THEOREM CommandsAreCaptured == Spec => []CommandsAreLogged
  <1>1. Inv => CommandsAreLogged
    BY Safe DEF Good
  <1> QED BY <1>1, Invariant, PTL

\* All thirteen implement LoginCapture: a login that is logged was offered by that peer by then,
\* one at most for each input, none for another peer, none after the connection is over.
THEOREM PromiseIsKept == Spec => KeepsPromise
  <1> QED BY Starts, StepsCapture, Invariant, PTL DEF Spec, KeepsPromise, Capture!CaptureSpec
===============================================================================
