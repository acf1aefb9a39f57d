--------------------------- MODULE QueryServersProofs ---------------------------
(***************************************************************************)
(* What TLAPS proves of the query servers: for any addresses, any requests *)
(* as QueryServers describes them and any number of them, the invariant of *)
(* each of the twelve is inductive, and with it TypeOK, RequestsAreLogged, *)
(* OptionsAreRead, AnswersGoToAskers and OneAnswerPerScan hold.            *)
(***************************************************************************)
EXTENDS QueryServers, LogsProofs

-------------------------------------------------------------------------------
(* What is found at some positions of a sequence, continued *)

\* The same positions are chosen up to the n-th.
SameUpTo(n, I, J) == \A i \in 1 .. n : i \in I <=> i \in J

\* The same positions are chosen, n further on.
SameBehind(n, m, I, K) == \A i \in 1 .. m : n + i \in I <=> i \in K

\* What is found in two sequences, one after the other.
LEMMA AtConcat ==
    ASSUME NEW S, NEW s \in Seq(S), NEW t \in Seq(S), NEW I, NEW J, NEW K,
           SameUpTo(Len(s), I, J), SameBehind(Len(s), Len(t), I, K)
    PROVE  At(s \o t, I) = At(s, J) \o At(t, K)
  <1> DEFINE n == Len(s)
             P == {u \in Seq(S) : (\A i \in 1 .. Len(u) : n + i \in I <=> i \in K) =>
                                     At(s \o u, I) = At(s, J) \o At(u, K)}
  <1>1. n \in Nat /\ At(s, J) \in Seq(S) /\ At(s, I) = At(s, J)
    BY AtType, AtSame DEF SameUpTo
  <1> HIDE DEF n
  <1>2. <<>> \in P
    <2>1. <<>> \in Seq(S) /\ s \o <<>> = s /\ At(s, J) \o <<>> = At(s, J)
      BY <1>1, EmptySeq, ConcatEmptySeq
    <2>2. At(s \o <<>>, I) = At(s, J) \o At(<<>>, K)
      BY <1>1, <2>1, AtEmpty, Zenon
    <2> QED BY <2>1, <2>2
  <1>3. ASSUME NEW u \in Seq(S), NEW e \in S, u \in P PROVE Append(u, e) \in P
    <2> DEFINE v == Append(u, e)
               m == Len(u)
    <2>1. /\ v \in Seq(S) /\ Len(v) = m + 1 /\ m \in Nat
          /\ s \o u \in Seq(S) /\ Len(s \o u) = n + m
          /\ At(u, K) \in Seq(S)
      BY AppendProperties, ConcatProperties, AtType DEF n
    <2>2. s \o v = Append(s \o u, e)
      BY ConcatAppend
    <2> HIDE DEF v
    <2> SUFFICES ASSUME \A i \in 1 .. m + 1 : n + i \in I <=> i \in K
                 PROVE  At(s \o v, I) = At(s, J) \o At(v, K)
      BY <2>1 DEF v
    <2>3. (\A i \in 1 .. m : n + i \in I <=> i \in K) /\ (n + (m + 1) \in I <=> m + 1 \in K)
      BY <2>1
    <2>4. At(s \o u, I) = At(s, J) \o At(u, K)
      BY <1>3, <2>3
    <2> HIDE DEF P
    <2>5. At(Append(s \o u, e), I) =
            IF Len(s \o u) + 1 \in I THEN Append(At(s \o u, I), e) ELSE At(s \o u, I)
      <3>1. \A w \in Seq(S) :
              At(Append(w, e), I) = IF Len(w) + 1 \in I THEN Append(At(w, I), e) ELSE At(w, I)
        BY AtAppend
      <3> QED BY <2>1, <3>1, Zenon
    <2>6. At(v, K) = IF Len(u) + 1 \in K THEN Append(At(u, K), e) ELSE At(u, K)
      BY AtAppend DEF v
    <2>7. Len(s \o u) + 1 = n + (m + 1)
      BY <1>1, <2>1
    <2>8. At(s, J) \o Append(At(u, K), e) = Append(At(s, J) \o At(u, K), e)
      BY <1>1, <2>1, ConcatAppend
    <2>9. CASE m + 1 \in K
      <3>1. At(s \o v, I) = Append(At(s, J) \o At(u, K), e)
        BY <2>2, <2>3, <2>4, <2>5, <2>7, <2>9
      <3>2. At(v, K) = Append(At(u, K), e)
        BY <2>6, <2>9
      <3> QED BY <2>8, <3>1, <3>2
    <2>10. CASE m + 1 \notin K
      <3>1. At(s \o v, I) = At(s, J) \o At(u, K)
        BY <2>2, <2>3, <2>4, <2>5, <2>7, <2>10
      <3>2. At(v, K) = At(u, K)
        BY <2>6, <2>10
      <3> QED BY <3>1, <3>2
    <2> QED BY <2>9, <2>10
  <1> HIDE DEF P
  <1>4. t \in P
    BY <1>2, <1>3, GrowingSequence
  <1> QED BY <1>4 DEF P, n, SameBehind

\* At all positions, and at none.
LEMMA AtAll ==
    ASSUME NEW S, NEW s \in Seq(S), NEW I, \A i \in 1 .. Len(s) : i \in I
    PROVE  At(s, I) = s
  <1> DEFINE P == {u \in Seq(S) : (\A i \in 1 .. Len(u) : i \in I) => At(u, I) = u}
  <1>1. <<>> \in P
    BY EmptySeq, AtEmpty
  <1>2. ASSUME NEW u \in Seq(S), NEW e \in S, u \in P PROVE Append(u, e) \in P
    <2>1. Append(u, e) \in Seq(S) /\ Len(Append(u, e)) = Len(u) + 1 /\ Len(u) \in Nat
      BY AppendProperties
    <2>2. At(Append(u, e), I) = IF Len(u) + 1 \in I THEN Append(At(u, I), e) ELSE At(u, I)
      BY AtAppend
    <2>3. ASSUME \A i \in 1 .. Len(u) + 1 : i \in I PROVE At(Append(u, e), I) = Append(u, e)
      <3>1. (\A i \in 1 .. Len(u) : i \in I) /\ Len(u) + 1 \in I
        BY <2>1, <2>3
      <3> QED BY <1>2, <2>2, <3>1
    <2> QED BY <2>1, <2>3
  <1> HIDE DEF P
  <1>3. s \in P
    BY <1>1, <1>2, GrowingSequence
  <1> QED BY <1>3 DEF P

LEMMA AtNone ==
    ASSUME NEW S, NEW s \in Seq(S), NEW I, \A i \in 1 .. Len(s) : i \notin I
    PROVE  At(s, I) = <<>>
  <1> DEFINE P == {u \in Seq(S) : (\A i \in 1 .. Len(u) : i \notin I) => At(u, I) = <<>>}
  <1>1. <<>> \in P
    BY EmptySeq, AtEmpty
  <1>2. ASSUME NEW u \in Seq(S), NEW e \in S, u \in P PROVE Append(u, e) \in P
    <2>1. Append(u, e) \in Seq(S) /\ Len(Append(u, e)) = Len(u) + 1 /\ Len(u) \in Nat
      BY AppendProperties
    <2>2. At(Append(u, e), I) = IF Len(u) + 1 \in I THEN Append(At(u, I), e) ELSE At(u, I)
      BY AtAppend
    <2>3. ASSUME \A i \in 1 .. Len(u) + 1 : i \notin I PROVE At(Append(u, e), I) = <<>>
      <3>1. (\A i \in 1 .. Len(u) : i \notin I) /\ Len(u) + 1 \notin I
        BY <2>1, <2>3
      <3> QED BY <1>2, <2>2, <3>1
    <2> QED BY <2>1, <2>3
  <1> HIDE DEF P
  <1>3. s \in P
    BY <1>1, <1>2, GrowingSequence
  <1> QED BY <1>3 DEF P

\* The number of some positions of a sequence is that of the elements found there.
LEMMA CountAt ==
    ASSUME NEW S, NEW s \in Seq(S), NEW I \in SUBSET (1 .. Len(s))
    PROVE  Cardinality(I) = Len(At(s, I))
  <1>1. I \intersect (1 .. Len(s)) = I
    OBVIOUS
  <1> QED BY <1>1, AtLength

\* One position more, or not.
LEMMA CountMore ==
    ASSUME NEW n \in Nat, NEW I \in SUBSET (1 .. n), NEW J \in SUBSET (1 .. n + 1),
           \A i \in 1 .. n : i \in I <=> i \in J
    PROVE  /\ Cardinality(I) \in Nat
           /\ Cardinality(J) = IF n + 1 \in J THEN Cardinality(I) + 1 ELSE Cardinality(I)
  <1>1. IsFiniteSet(I)
    <2>1. IsFiniteSet(1 .. n)
      BY FS_Interval
    <2> QED BY <2>1, FS_Subset
  <1>0. \A i \in 1 .. n + 1 : i \in 1 .. n \/ i = n + 1
    OBVIOUS
  <1>2. Cardinality(I) \in Nat /\ n + 1 \notin I
    BY <1>1, FS_CardinalityType
  <1>3. CASE n + 1 \in J
    <2>1. J = I \union {n + 1}
      <3>1. \A i \in J : i \in I \/ i = n + 1
        BY <1>0
      <3>2. \A i \in I : i \in J
        OBVIOUS
      <3> QED BY <1>3, <3>1, <3>2
    <2> QED BY <1>1, <1>2, <1>3, <2>1, FS_AddElement
  <1>4. CASE n + 1 \notin J
    <2>1. J = I
      <3>1. \A i \in J : i \in I
        BY <1>0, <1>4
      <3>2. \A i \in I : i \in J
        OBVIOUS
      <3> QED BY <3>1, <3>2
    <2> QED BY <1>2, <1>4, <2>1
  <1> QED BY <1>3, <1>4

\* The elements that are not dropped.
LEMMA DroppingElements ==
    ASSUME NEW S, NEW s \in Seq(S), NEW X
    PROVE  Elements(Dropping(s, X)) = Elements(s) \ X
  <1> DEFINE P == {u \in Seq(S) : Elements(Dropping(u, X)) = Elements(u) \ X}
  <1>1. <<>> \in P
    <2>1. Elements(<<>>) = {} /\ <<>> \in Seq(S)
      BY DEF Elements
    <2>2. Dropping(<<>>, X) = <<>>
      BY DroppingEmpty
    <2>3. Elements(Dropping(<<>>, X)) = {}
      BY <2>1, <2>2, Zenon
    <2> QED BY <2>1, <2>3
  <1>2. ASSUME NEW u \in Seq(S), NEW e \in S, u \in P PROVE Append(u, e) \in P
    <2>1. Append(u, e) \in Seq(S) /\ IsLog(u) /\ IsLog(Dropping(u, X))
      BY AppendProperties, DroppingType DEF IsLog
    <2>2. Dropping(Append(u, e), X) = IF e \in X THEN Dropping(u, X) ELSE Append(Dropping(u, X), e)
      BY DroppingAppend
    <2>3. Elements(Append(u, e)) = Elements(u) \union {e}
      BY <2>1, ElementsAppend
    <2>4. Elements(Append(Dropping(u, X), e)) = Elements(Dropping(u, X)) \union {e}
      BY <2>1, ElementsAppend
    <2>5. Elements(Dropping(u, X)) = Elements(u) \ X
      BY <1>2
    <2>6. Elements(Dropping(Append(u, e), X)) = Elements(Append(u, e)) \ X
      <3>1. CASE e \in X
        <4>1. Dropping(Append(u, e), X) = Dropping(u, X)
          BY <2>2, <3>1
        <4> HIDE DEF P
        <4> QED BY <2>3, <2>5, <3>1, <4>1
      <3>2. CASE e \notin X
        <4>1. Dropping(Append(u, e), X) = Append(Dropping(u, X), e)
          BY <2>2, <3>2
        <4> HIDE DEF P
        <4> QED BY <2>3, <2>4, <2>5, <3>2, <4>1
      <3> QED BY <3>1, <3>2
    <2> QED BY <2>1, <2>6
  <1> HIDE DEF P
  <1>3. s \in P
    BY <1>1, <1>2, GrowingSequence
  <1> QED BY <1>3 DEF P

\* What is read out of a log with one more entry.
LEMMA DataMore ==
    ASSUME NEW log, IsLog(log), NEW e, NEW action
    PROVE  /\ e.action = action => Data(Append(log, e), action) = Append(Data(log, action), e.data)
           /\ e.action # action => Data(Append(log, e), action) = Data(log, action)
  <1>1. PICK S : log \in Seq(S)
    BY DEF IsLog
  <1> DEFINE E == S \union {e}
  <1>2. log \in Seq(E) /\ e \in E
    <2>1. \A u \in Seq(S) : u \in Seq(E)
      OBVIOUS
    <2> QED BY <1>1, <2>1
  <1> HIDE DEF E
  <1> QED BY <1>2, OneEntry

\* A sequence that has something for every element of another.
Listed(f, s) == f = [i \in DOMAIN s |-> f[i]]

\* Nothing changes for the elements that are there already.
Agree(f, s, g, t) == \A i \in DOMAIN s : t[i] = s[i] => g[i] = f[i]

\* The position after the last is chosen.
NextIn(s, I) == Len(s) + 1 \in I

\* Two functions that read something out of every element of a sequence, and out of the
\* sequence with one more element.
LEMMA Mapped ==
    ASSUME NEW s, IsLog(s), NEW x, NEW t, t = Append(s, x),
           NEW f, Listed(f, s), NEW g, Listed(g, t), Agree(f, s, g, t)
    PROVE  g = Append(f, g[Len(s) + 1]) /\ Len(s) + 1 \in DOMAIN t /\ t[Len(s) + 1] = x
  <1> DEFINE n == Len(s)
  <1>1. /\ n \in Nat /\ DOMAIN s = 1 .. n /\ DOMAIN t = 1 .. n + 1 /\ t[n + 1] = x
        /\ \A i \in 1 .. n : t[i] = s[i]
    BY LogAppend
  <1> HIDE DEF n
  <1>2. g = [i \in 1 .. n + 1 |-> g[i]] /\ f = [i \in 1 .. n |-> g[i]]
    BY <1>1 DEF Listed, Agree
  <1>3. g = Append(f, g[n + 1])
    BY <1>1, <1>2, OneMore
  <1>4. n + 1 \in DOMAIN t
    BY <1>1
  <1> QED BY <1>1, <1>3, <1>4 DEF n

\* One element more, at a chosen position or not, of a sequence of whatever.
LEMMA AtMore ==
    ASSUME NEW s, IsLog(s), NEW e, NEW I, NEW J, SameUpTo(Len(s), I, J)
    PROVE  /\ NextIn(s, J) => At(Append(s, e), J) = Append(At(s, I), e)
           /\ ~NextIn(s, J) => At(Append(s, e), J) = At(s, I)
           /\ IsLog(At(s, I))
  <1>1. PICK S : s \in Seq(S)
    BY DEF IsLog
  <1> DEFINE E == S \union {e}
  <1>2. s \in Seq(E) /\ e \in E
    <2>1. \A u \in Seq(S) : u \in Seq(E)
      OBVIOUS
    <2> QED BY <1>1, <2>1
  <1> HIDE DEF E
  <1>3. At(Append(s, e), J) = IF Len(s) + 1 \in J THEN Append(At(s, I), e) ELSE At(s, I)
    BY <1>2, AtAppend DEF SameUpTo
  <1>4. At(s, I) \in Seq(E)
    BY <1>2, AtType
  <1> QED BY <1>3, <1>4 DEF IsLog, NextIn

\* The elements of s that are in X, in order.
Selected(s, X) == At(s, {i \in DOMAIN s : s[i] \in X})

LEMMA SelectedMore ==
    ASSUME NEW s, IsLog(s), NEW x, NEW X
    PROVE  /\ x \in X => Selected(Append(s, x), X) = Append(Selected(s, X), x)
           /\ x \notin X => Selected(Append(s, x), X) = Selected(s, X)
           /\ IsLog(Selected(s, X))
  <1> DEFINE t == Append(s, x)
             I == {i \in DOMAIN s : s[i] \in X}
             J == {i \in DOMAIN t : t[i] \in X}
  <1>1. /\ Len(s) \in Nat /\ DOMAIN s = 1 .. Len(s) /\ DOMAIN t = 1 .. Len(s) + 1
        /\ t[Len(s) + 1] = x /\ \A i \in 1 .. Len(s) : t[i] = s[i]
    BY LogAppend
  <1>2. SameUpTo(Len(s), I, J) /\ (NextIn(s, J) <=> x \in X)
    <2> HIDE DEF t
    <2> QED BY <1>1 DEF SameUpTo, NextIn
  <1>3. Selected(s, X) = At(s, I) /\ Selected(Append(s, x), X) = At(Append(s, x), J)
    BY DEF Selected
  <1> HIDE DEF I, J, t
  <1>4. NextIn(s, J) => At(Append(s, x), J) = Append(At(s, I), x)
    BY <1>2, AtMore, SMT
  <1>5. ~NextIn(s, J) => At(Append(s, x), J) = At(s, I)
    BY <1>2, AtMore, SMT
  <1>6. IsLog(At(s, I))
    BY <1>2, AtMore
  <1> QED BY <1>2, <1>3, <1>4, <1>5, <1>6, Zenon

LEMMA SelectedNone == ASSUME NEW X PROVE Selected(<<>>, X) = <<>>
  BY AtEmpty DEF Selected

\* What g makes of every element.
Through(g, s) == [i \in DOMAIN s |-> g[s[i]]]

LEMMA ThroughMore ==
    ASSUME NEW g, NEW s, IsLog(s), NEW x
    PROVE  /\ Through(g, Append(s, x)) = Append(Through(g, s), g[x])
           /\ DOMAIN Through(g, s) = DOMAIN s
  <1> DEFINE t == Append(s, x)
  <1>1. t = Append(s, x)
    OBVIOUS
  <1> HIDE DEF t
  <1>2. Len(s) \in Nat /\ \A i \in DOMAIN s : i \in DOMAIN t
    BY <1>1, LogAppend
  <1>3. Listed(Through(g, s), s) /\ Listed(Through(g, t), t) /\ Agree(Through(g, s), s, Through(g, t), t)
    BY <1>2 DEF Listed, Agree, Through
  <1>4. /\ Through(g, t) = Append(Through(g, s), Through(g, t)[Len(s) + 1])
        /\ Len(s) + 1 \in DOMAIN t /\ t[Len(s) + 1] = x
    <2>1. \A v, f, h : v = Append(s, x) /\ Listed(f, s) /\ Listed(h, v) /\ Agree(f, s, h, v)
             => /\ h = Append(f, h[Len(s) + 1])
                /\ Len(s) + 1 \in DOMAIN v /\ v[Len(s) + 1] = x
      BY Mapped
    <2> QED BY <1>1, <1>3, <2>1, Zenon
  <1>5. Through(g, t)[Len(s) + 1] = g[x]
    BY <1>4 DEF Through
  <1> QED BY <1>1, <1>4, <1>5 DEF Through

LEMMA ThroughNone == ASSUME NEW g PROVE Through(g, <<>>) = <<>>
  BY DEF Through

\* The entries of an action in two logs, one after the other.
LEMMA MatchingConcat ==
    ASSUME NEW s, IsLog(s), NEW t, IsLog(t), NEW action
    PROVE  Matching(s \o t, action) = Matching(s, action) \o Matching(t, action)
  <1>1. PICK S : s \in Seq(S) /\ t \in Seq(S)
    BY CommonSet
  <1> DEFINE w == s \o t
             I == Positions(w, action)
             J == Positions(s, action)
             K == Positions(t, action)
  <1>2. /\ Len(s) \in Nat /\ Len(t) \in Nat
        /\ DOMAIN s = 1 .. Len(s) /\ DOMAIN t = 1 .. Len(t) /\ DOMAIN w = 1 .. Len(s) + Len(t)
        /\ \A i \in 1 .. Len(s) : w[i] = s[i]
        /\ \A i \in 1 .. Len(t) : w[Len(s) + i] = t[i]
    BY LogConcat
  <1>3. Matching(w, action) = At(w, I) /\ Matching(s, action) = At(s, J) /\ Matching(t, action) = At(t, K)
    BY DEF Matching
  <1>4. SameUpTo(Len(s), I, J) /\ SameBehind(Len(s), Len(t), I, K)
    <2> HIDE DEF w
    <2>1. \A i \in 1 .. Len(s) : i \in DOMAIN w
      BY <1>2
    <2>2. \A i \in 1 .. Len(t) : Len(s) + i \in DOMAIN w
      BY <1>2
    <2> QED BY <1>2, <2>1, <2>2 DEF Positions, SameUpTo, SameBehind
  <1> HIDE DEF I, J, K
  <1>5. At(s \o t, I) = At(s, J) \o At(t, K)
    BY <1>1, <1>4, AtConcat
  <1> QED BY <1>3, <1>5

-------------------------------------------------------------------------------
(* Variables that are functions on the connections *)

IsRow(f) == f = [c \in Conns |-> f[c]]

Rows == IsRow(link) /\ IsRow(read) /\ IsRow(events) /\ IsRow(replies)

\* One place of a row, or of none, is changed.
Sets(f, g, c, v) == IsRow(g) /\ g[c] = v /\ \A d \in Conns \ {c} : g[d] = f[d]

LEMMA Changed ==
    ASSUME NEW f, IsRow(f), NEW c \in Conns, NEW v, NEW g, g = [f EXCEPT ![c] = v]
    PROVE  Sets(f, g, c, v)
  BY DEF IsRow, Sets

\* Two sequences of one element.
LEMMA TwoElements == ASSUME NEW x, NEW y PROVE <<x>> \o <<y>> = <<x, y>>
  <1> DEFINE S == {x, y}
  <1>1. /\ <<x>> \in Seq(S) /\ <<y>> \in Seq(S) /\ <<x, y>> \in Seq(S)
        /\ Len(<<x>>) = 1 /\ Len(<<y>>) = 1 /\ Len(<<x, y>>) = 2
        /\ <<x>>[1] = x /\ <<y>>[1] = y /\ <<x, y>>[1] = x /\ <<x, y>>[2] = y
    OBVIOUS
  <1> HIDE DEF S
  <1>2. /\ <<x>> \o <<y>> \in Seq(S) /\ Len(<<x>> \o <<y>>) = 2
        /\ (<<x>> \o <<y>>)[1] = x /\ (<<x>> \o <<y>>)[2] = y
    BY <1>1, ConcatProperties
  <1>3. \A i \in 1 .. Len(<<x>> \o <<y>>) : (<<x>> \o <<y>>)[i] = <<x, y>>[i]
    <2>1. \A i \in 1 .. 2 : i = 1 \/ i = 2
      OBVIOUS
    <2> QED BY <1>1, <1>2, <2>1
  <1> QED BY <1>1, <1>2, <1>3, SeqEqual

LEMMA Kept ==
    ASSUME NEW f, IsRow(f), NEW c \in Conns, NEW g, g = f
    PROVE  Sets(f, g, c, f[c])
  BY DEF IsRow, Sets

\* The rows at the start.
LEMMA Starting ==
    ASSUME NEW v PROVE IsRow([c \in Conns |-> v]) /\ \A c \in Conns : [d \in Conns |-> v][c] = v
  BY DEF IsRow

\* A step of one connection: what its link, the chunks it has sent, its log and its answers
\* become.  The others are left alone.
Steps(c, l, r, e, p) ==
    /\ server' = server
    /\ Sets(link, link', c, l) /\ Sets(read, read', c, r)
    /\ Sets(events, events', c, e) /\ Sets(replies, replies', c, p)

\* What a step leaves of the rows.
LEMMA Stepped ==
    ASSUME NEW c \in Conns, NEW l, NEW r, NEW e, NEW p, Steps(c, l, r, e, p)
    PROVE  /\ server' = server /\ Rows'
           /\ link'[c] = l /\ read'[c] = r /\ events'[c] = e /\ replies'[c] = p
           /\ \A d \in Conns \ {c} : /\ link'[d] = link[d] /\ read'[d] = read[d]
                                     /\ events'[d] = events[d] /\ replies'[d] = replies[d]
  BY DEF Steps, Sets, Rows, IsRow

-------------------------------------------------------------------------------
(* Clients that come and go *)

Links == {"none", "open", "closing", "lost"}

Connected == <<[action |-> "connection"]>>

\* Nothing was sent yet to a server that logs who connects.
Fresh(l, r, e, p) ==
    /\ l \in Links /\ r = <<>> /\ p = <<>>
    /\ e = IF l = "none" THEN <<>> ELSE Connected

\* The log of somebody who has just connected.
LEMMA ConnectedLog ==
    /\ IsLog(Connected) /\ Connected # <<>> /\ Len(Connected) = 1
    /\ \A action : action # "connection" => Data(Connected, action) = <<>>
  <1> DEFINE e == [action |-> "connection"]
  <1>1. Connected = <<e>> /\ e.action = "connection" /\ Connected # <<>>
    BY DEF Connected
  <1> HIDE DEF e
  <1> QED BY <1>1, SingleEntry

\* A client connects, to a server that logs it and to one that does not.
Comes(c) == link[c] = "none" /\ Steps(c, "open", read[c], Connected, replies[c])
ComesUnlogged(c) == link[c] = "none" /\ Steps(c, "open", read[c], events[c], replies[c])

Goes(c) ==
    /\ link[c] \in {"open", "closing"}
    /\ Steps(c, "lost", read[c], events[c], replies[c])

\* A chunk is read.
Reads(c, chunk, l, e, p) ==
    /\ link[c] = "open"
    /\ Steps(c, l, Append(read[c], chunk), e, p)

\* What is known of the peers of every server that goes on: K is what they may send.
Heard(K, l, r, e, p) ==
    /\ l \in Links /\ r \in Seq(K) /\ IsLog(r) /\ IsLog(e) /\ IsLog(p)
    /\ l = "none" => r = <<>> /\ e = <<>>

\* Nobody yet.
LEMMA Unheard ==
    ASSUME NEW K
    PROVE  \A l \in Links : Heard(K, l, <<>>, <<>>, <<>>)
  <1>1. <<>> \in Seq(K) /\ IsLog(<<>>)
    BY NoEntries, EmptySeq
  <1> QED BY <1>1 DEF Heard

\* A chunk was read and some entries logged.
LEMMA Hears ==
    ASSUME NEW K, NEW r, NEW e, NEW p, Heard(K, "open", r, e, p), NEW chunk \in K,
           NEW l \in {"open", "closing"}, NEW es, IsLog(es), NEW q, q = p \/ \E x : q = Append(p, x)
    PROVE  /\ Heard(K, l, Append(r, chunk), e \o es, q)
           /\ Len(r) \in Nat /\ Len(Append(r, chunk)) = Len(r) + 1
           /\ Len(e) \in Nat /\ Len(es) \in Nat /\ Len(e \o es) = Len(e) + Len(es)
           /\ Len(p) \in Nat /\ (q = p \/ Len(q) = Len(p) + 1)
           /\ \A action : Data(e \o es, action) = Data(e, action) \o Data(es, action)
  <1>1. /\ r \in Seq(K) /\ IsLog(r) /\ IsLog(e) /\ IsLog(p)
    BY DEF Heard
  <1>2. /\ Append(r, chunk) \in Seq(K) /\ IsLog(Append(r, chunk))
        /\ Len(r) \in Nat /\ Len(Append(r, chunk)) = Len(r) + 1
    BY <1>1, AppendProperties, LogAppend
  <1>3. /\ IsLog(e \o es) /\ Len(e) \in Nat /\ Len(es) \in Nat /\ Len(e \o es) = Len(e) + Len(es)
        /\ \A action : Data(e \o es, action) = Data(e, action) \o Data(es, action)
    <2>1. IsLog(e \o es) /\ Len(e) \in Nat /\ Len(es) \in Nat /\ Len(e \o es) = Len(e) + Len(es)
      BY <1>1, LogConcat
    <2>2. \A action : Data(e \o es, action) = Data(e, action) \o Data(es, action)
      BY <1>1, MoreEntries
    <2> QED BY <2>1, <2>2
  <1>4. IsLog(q) /\ Len(p) \in Nat /\ (q = p \/ Len(q) = Len(p) + 1)
    <2>1. \A x : IsLog(Append(p, x)) /\ Len(Append(p, x)) = Len(p) + 1 /\ Len(p) \in Nat
      BY <1>1, LogAppend
    <2>2. Len(p) \in Nat
      BY <2>1
    <2>3. CASE q = p
      BY <1>1, <2>2, <2>3
    <2>4. CASE \E x : q = Append(p, x)
      BY <2>1, <2>4
    <2> QED BY <2>3, <2>4
  <1> QED BY <1>2, <1>3, <1>4 DEF Heard, Links

\* A peer is in the log with a connection only.
LEMMA ConnectionLogged ==
    ASSUME NEW e, IsLog(e), NEW f, f = Append(e, [action |-> "connection"])
    PROVE  /\ IsLog(f) /\ Len(e) \in Nat /\ Len(f) = Len(e) + 1
           /\ IsLog(Matching(e, "connection")) /\ IsLog(Matching(e, "query"))
           /\ Len(Matching(e, "connection")) \in Nat
           /\ Len(Matching(f, "connection")) = Len(Matching(e, "connection")) + 1
           /\ \A action : action # "connection" => Matching(f, action) = Matching(e, action)
  <1> DEFINE x == [action |-> "connection"]
  <1>1. x.action = "connection" /\ f = Append(e, x)
    OBVIOUS
  <1> HIDE DEF x
  <1>2. IsLog(f) /\ Len(e) \in Nat /\ Len(f) = Len(e) + 1
    BY <1>1, LogAppend
  <1>3. /\ IsLog(Matching(e, "connection")) /\ IsLog(Matching(e, "query"))
        /\ Matching(f, "connection") = Append(Matching(e, "connection"), x)
        /\ \A action : action # "connection" => Matching(f, action) = Matching(e, action)
    <2>1. \A y, action : /\ IsLog(Matching(e, action))
                         /\ y.action = action =>
                              Matching(Append(e, y), action) = Append(Matching(e, action), y)
                         /\ y.action # action => Matching(Append(e, y), action) = Matching(e, action)
      BY MatchingEntry
    <2> QED BY <1>1, <2>1, Zenon
  <1>4. /\ Len(Matching(e, "connection")) \in Nat
        /\ Len(Matching(f, "connection")) = Len(Matching(e, "connection")) + 1
    BY <1>3, LogAppend
  <1> QED BY <1>2, <1>3, <1>4

\* A log that ends with two entries.
LEMMA TwoMore ==
    ASSUME NEW e, IsLog(e), NEW x, NEW y
    PROVE  e \o <<x, y>> = Append(Append(e, x), y)
  <1>1. IsLog(<<x>>) /\ <<x, y>> = Append(<<x>>, y)
    BY SingleEntry
  <1>2. e \o Append(<<x>>, y) = Append(e \o <<x>>, y)
    BY <1>1, ConcatMore
  <1>3. e \o <<x>> = Append(e, x)
    BY <1>1, LogConcat
  <1> QED BY <1>1, <1>2, <1>3

\* A peer is in the log with a connection and a query.
LEMMA QueryLogged ==
    ASSUME NEW e, IsLog(e), NEW y, y.action = "query",
           NEW f, f = e \o <<[action |-> "connection"], y>>
    PROVE  /\ IsLog(f) /\ Len(e) \in Nat /\ Len(f) = Len(e) + 2
           /\ IsLog(Matching(e, "query")) /\ IsLog(Data(e, "query"))
           /\ Matching(f, "query") = Append(Matching(e, "query"), y)
           /\ Data(f, "query") = Append(Data(e, "query"), y.data)
           /\ Len(Matching(e, "connection")) \in Nat
           /\ Len(Matching(f, "connection")) = Len(Matching(e, "connection")) + 1
  <1> DEFINE x == [action |-> "connection"]
             g == Append(e, x)
  <1>1. f = Append(g, y)
    BY TwoMore
  <1>2. x.action # "query"
    OBVIOUS
  <1>3. /\ IsLog(g) /\ Len(e) \in Nat /\ Len(g) = Len(e) + 1
        /\ Len(Matching(e, "connection")) \in Nat
        /\ Len(Matching(g, "connection")) = Len(Matching(e, "connection")) + 1
        /\ Matching(g, "query") = Matching(e, "query")
    BY ConnectionLogged
  <1>4. Data(g, "query") = Data(e, "query")
    BY <1>3, Zenon DEF Data
  <1> HIDE DEF x, g
  <1>5. IsLog(f) /\ Len(f) = Len(g) + 1
    <2>1. \A h, z : IsLog(h) => IsLog(Append(h, z)) /\ Len(Append(h, z)) = Len(h) + 1
      BY LogAppend
    <2> QED BY <1>1, <1>3, <2>1, Zenon
  <1>6. Matching(f, "query") = Append(Matching(g, "query"), y)
    <2>1. \A h, z : IsLog(h) /\ z.action = "query" =>
             Matching(Append(h, z), "query") = Append(Matching(h, "query"), z)
      BY MatchingEntry
    <2> QED BY <1>1, <1>3, <2>1, Zenon
  <1>7. Matching(f, "connection") = Matching(g, "connection")
    <2>1. \A h, z : IsLog(h) /\ z.action # "connection" =>
             Matching(Append(h, z), "connection") = Matching(h, "connection")
      BY MatchingEntry
    <2>2. y.action # "connection"
      OBVIOUS
    <2> QED BY <1>1, <1>3, <2>1, <2>2, Zenon
  <1>8. Data(f, "query") = Append(Data(g, "query"), y.data)
    <2>1. \A h, z : IsLog(h) /\ z.action = "query" =>
             Data(Append(h, z), "query") = Append(Data(h, "query"), z.data)
      BY DataMore
    <2> QED BY <1>1, <1>3, <2>1, Zenon
  <1>9. IsLog(Matching(e, "query")) /\ IsLog(Data(e, "query"))
    <2>1. \A h : IsLog(h) => IsLog(Matching(h, "query"))
      BY MatchingEntry
    <2>2. \A h : IsLog(h) => IsLog(Data(h, "query"))
      BY EntryType
    <2> QED BY <2>1, <2>2, Zenon
  <1>10. Len(f) = Len(e) + 2
    BY <1>3, <1>5
  <1> QED BY <1>3, <1>4, <1>5, <1>6, <1>7, <1>8, <1>9, <1>10, Zenon

-------------------------------------------------------------------------------
(* memcache *)

\* What is logged of the words of the first line.
MemcacheEntries(words) ==
    IF words[1] \in Undecodable \union {""} THEN <<>> ELSE <<[action |-> words[1]]>>

MemcacheOK(l, r, e, p) ==
    \/ Fresh(l, r, e, p)
    \/ \E chunk \in Chunks.memcache :
          /\ l \in {"closing", "lost"} /\ r = <<chunk>>
          /\ \/ chunk[1] = <<"get">> /\ e = Connected /\ p = <<>>
             \/ chunk[1] # <<"get">> /\ e = Connected \o MemcacheEntries(chunk[1])
                                     /\ Len(p) = 1

MemcacheInv ==
    server = "memcache" =>
        Rows /\ \A c \in Conns : MemcacheOK(link[c], read[c], events[c], replies[c])

LEMMA MemcacheStarts == Init /\ server = "memcache" => MemcacheInv
  <1> SUFFICES ASSUME Init, server = "memcache" PROVE MemcacheInv
    OBVIOUS
  <1>1. Memcache!Init
    BY DEF Init
  <1>2. /\ link = [c \in Conns |-> "none"] /\ read = [c \in Conns |-> <<>>]
        /\ events = [c \in Conns |-> <<>>] /\ replies = [c \in Conns |-> <<>>]
    BY <1>1 DEF Memcache!Init, Memcache!TcpInit, Memcache!ConnectionsInit
  <1>3. Rows
    BY <1>2, Starting, Zenon DEF Rows
  <1>4. ASSUME NEW c \in Conns PROVE Fresh(link[c], read[c], events[c], replies[c])
    BY <1>2 DEF Fresh, Links
  <1> QED BY <1>3, <1>4 DEF MemcacheInv, MemcacheOK

\* The shapes of the steps.
LEMMA MemcacheNexts ==
    ASSUME MemcacheInv, server = "memcache", Memcache!MemcacheNext, server' = server
    PROVE  \E c \in Conns :
              \/ Comes(c) \/ Goes(c)
              \/ \E chunk \in Chunks.memcache :
                    \/ /\ chunk[1] = <<"get">>
                       /\ Reads(c, chunk, "closing", events[c], replies[c])
                    \/ \E x : /\ chunk[1] # <<"get">>
                              /\ Reads(c, chunk, "closing", events[c] \o MemcacheEntries(chunk[1]),
                                       Append(replies[c], x))
  <1>0. Rows
    BY DEF MemcacheInv
  <1>1. PICK c \in Conns : \/ Memcache!ConnectionMade(c) \/ Memcache!Lost(c)
                           \/ \E chunk \in Chunks.memcache : \/ Memcache!GetWithoutKey(c, chunk)
                                                             \/ Memcache!Command(c, chunk)
    BY DEF Memcache!MemcacheNext
  <1>2. CASE Memcache!ConnectionMade(c)
    <2>1. /\ link[c] = "none" /\ link' = [link EXCEPT ![c] = "open"] /\ read' = read
          /\ events' = [events EXCEPT ![c] = Connected] /\ replies' = replies
      BY <1>2 DEF Memcache!ConnectionMade, Memcache!Accept, Connected
    <2> QED BY <1>0, <2>1, Changed, Kept DEF Rows, Comes, Steps
  <1>3. CASE Memcache!Lost(c)
    <2>1. /\ link[c] \in {"open", "closing"} /\ link' = [link EXCEPT ![c] = "lost"] /\ read' = read
          /\ events' = events /\ replies' = replies
      BY <1>3 DEF Memcache!Lost, Memcache!ConnectionLost
    <2> QED BY <1>0, <2>1, Changed, Kept DEF Rows, Goes, Steps
  <1>4. ASSUME NEW chunk \in Chunks.memcache, Memcache!GetWithoutKey(c, chunk)
        PROVE  chunk[1] = <<"get">> /\ Reads(c, chunk, "closing", events[c], replies[c])
    <2>1. /\ link[c] = "open" /\ link' = [link EXCEPT ![c] = "closing"]
          /\ read' = [read EXCEPT ![c] = Append(@, chunk)]
          /\ events' = events /\ replies' = replies /\ Head(chunk) = <<"get">>
      BY <1>4 DEF Memcache!GetWithoutKey, Memcache!Received, Memcache!LoseConnection
    <2>2. Head(chunk) = chunk[1]
      BY MemcacheAssumption
    <2> QED BY <1>0, <2>1, <2>2, Changed, Kept DEF Rows, Reads, Steps
  <1>5. ASSUME NEW chunk \in Chunks.memcache, Memcache!Command(c, chunk)
        PROVE  \E x : /\ chunk[1] # <<"get">>
                      /\ Reads(c, chunk, "closing", events[c] \o MemcacheEntries(chunk[1]),
                                       Append(replies[c], x))
    <2> DEFINE x == Memcache!Answer(chunk[1])
    <2>2. Head(chunk) = chunk[1]
      BY MemcacheAssumption
    <2>1. /\ link[c] = "open" /\ link' = [link EXCEPT ![c] = "closing"]
          /\ read' = [read EXCEPT ![c] = Append(@, chunk)] /\ chunk[1] # <<"get">>
          /\ events' = [events EXCEPT ![c] = @ \o MemcacheEntries(chunk[1])]
          /\ replies' = [replies EXCEPT ![c] = Append(@, x)]
      BY <1>5, <2>2 DEF Memcache!Command, Memcache!Received, Memcache!LoseConnection, Memcache!Reply,
                    Memcache!LogAll, MemcacheEntries
    <2> HIDE DEF x
    <2>3. Reads(c, chunk, "closing", events[c] \o MemcacheEntries(chunk[1]), Append(replies[c], x))
      BY <1>0, <2>1, Changed DEF Rows, Reads, Steps
    <2> QED BY <2>1, <2>3
  <1> QED BY <1>1, <1>2, <1>3, <1>4, <1>5

LEMMA MemcacheSteps ==
    ASSUME MemcacheInv, server = "memcache", Memcache!MemcacheNext, server' = server
    PROVE  MemcacheInv'
  <1>0. Rows /\ \A d \in Conns : MemcacheOK(link[d], read[d], events[d], replies[d])
    BY DEF MemcacheInv
  <1>1. PICK c \in Conns :
              \/ Comes(c) \/ Goes(c)
              \/ \E chunk \in Chunks.memcache :
                    \/ /\ chunk[1] = <<"get">>
                       /\ Reads(c, chunk, "closing", events[c], replies[c])
                    \/ \E x : /\ chunk[1] # <<"get">>
                              /\ Reads(c, chunk, "closing", events[c] \o MemcacheEntries(chunk[1]),
                                       Append(replies[c], x))
    BY MemcacheNexts
  <1>2. MemcacheOK(link[c], read[c], events[c], replies[c])
    BY <1>0
  <1>3. CASE Comes(c)
    <2>1. MemcacheOK("open", read[c], Connected, replies[c])
      BY <1>2, <1>3 DEF MemcacheOK, Fresh, Links, Comes
    <2> QED BY <1>0, <1>3, <2>1, Stepped DEF Comes, MemcacheInv
  <1>4. CASE Goes(c)
    <2>1. MemcacheOK("lost", read[c], events[c], replies[c])
      BY <1>2, <1>4 DEF MemcacheOK, Fresh, Links, Goes
    <2> QED BY <1>0, <1>4, <2>1, Stepped DEF Goes, MemcacheInv
  <1>5. ASSUME NEW chunk \in Chunks.memcache, NEW e, NEW p, Reads(c, chunk, "closing", e, p),
               \/ chunk[1] = <<"get">> /\ e = events[c] /\ p = replies[c]
               \/ /\ chunk[1] # <<"get">> /\ e = events[c] \o MemcacheEntries(chunk[1])
                  /\ \E x : p = Append(replies[c], x)
        PROVE  MemcacheInv'
    <2>1. Fresh("open", read[c], events[c], replies[c])
      BY <1>2, <1>5 DEF MemcacheOK, Reads
    <2>2. Append(read[c], chunk) = <<chunk>> /\ events[c] = Connected /\ replies[c] = <<>>
      BY <2>1 DEF Fresh
    <2>3. \A x : Len(Append(<<>>, x)) = 1
      OBVIOUS
    <2>4. MemcacheOK("closing", Append(read[c], chunk), e, p)
      BY <1>5, <2>2, <2>3 DEF MemcacheOK
    <2> QED BY <1>0, <1>5, <2>4, Stepped DEF Reads, MemcacheInv
  <1> QED BY <1>1, <1>3, <1>4, <1>5

\* The invariant says what TypeOK and CommandsAreLogged say.
LEMMA MemcacheSays ==
    ASSUME MemcacheInv, server = "memcache"
    PROVE  Memcache!TypeOK /\ Memcache!CommandsAreLogged
  <1>0. Rows /\ \A c \in Conns : MemcacheOK(link[c], read[c], events[c], replies[c])
    BY DEF MemcacheInv
  <1>1. ASSUME NEW c \in Conns
        PROVE  /\ link[c] \in Links /\ read[c] \in Seq(Chunks.memcache)
               /\ link[c] = "none" <=> events[c] = <<>>
               /\ Len(replies[c]) <= Len(read[c])
               /\ link[c] = "open" => read[c] = <<>>
    <2>1. CASE Fresh(link[c], read[c], events[c], replies[c])
      BY <2>1 DEF Fresh, Links, Connected
    <2>2. ASSUME NEW chunk \in Chunks.memcache, link[c] \in {"closing", "lost"}, read[c] = <<chunk>>,
               \/ events[c] = Connected /\ replies[c] = <<>>
               \/ events[c] = Connected \o MemcacheEntries(chunk[1]) /\ Len(replies[c]) = 1
          PROVE  /\ link[c] \in Links /\ read[c] \in Seq(Chunks.memcache)
                 /\ events[c] # <<>> /\ Len(replies[c]) <= Len(read[c])
      <3>1. Connected # <<>> /\ Connected \o MemcacheEntries(chunk[1]) # <<>>
        BY DEF Connected, MemcacheEntries
      <3>2. /\ Len(<<>>) = 0 /\ \A x : Len(<<x>>) = 1
            /\ \A S : \A x \in S : <<x>> \in Seq(S)
        OBVIOUS
      <3>3. read[c] \in Seq(Chunks.memcache) /\ Len(read[c]) = 1
        BY <2>2, <3>2, Zenon
      <3>4. Len(replies[c]) <= 1
        <4>1. Len(replies[c]) = 0 \/ Len(replies[c]) = 1
          BY <2>2, <3>2, Zenon
        <4>2. 0 <= 1 /\ 1 <= 1
          OBVIOUS
        <4> QED BY <4>1, <4>2, Zenon
      <3> QED BY <2>2, <3>1, <3>3, <3>4 DEF Links
    <2> QED BY <1>0, <2>1, <2>2 DEF MemcacheOK
  <1>2. Memcache!TypeOK
    <2>1. link \in [Conns -> Links]
      BY <1>0, <1>1 DEF Rows, IsRow
    <2> QED BY <1>1, <2>1 DEF Memcache!TypeOK, Memcache!ConnectionsTypeOK, Memcache!QueriesTypeOK, Links
  <1>3. ASSUME NEW c \in Conns
        PROVE  LET names == [i \in DOMAIN events[c] |-> events[c][i].action]
                   first == read[c][1][1]
                   isLogged == /\ read[c] # <<>> /\ first[1] \notin Undecodable \union {""}
                               /\ first[1] = "get" => Len(first) > 1
               IN  /\ link[c] # "none" =>
                        names = IF isLogged THEN <<"connection", first[1]>> ELSE <<"connection">>
                   /\ Len(replies[c]) = IF read[c] # <<>> /\ first # <<"get">> THEN 1 ELSE 0
    <2> DEFINE names == [i \in DOMAIN events[c] |-> events[c][i].action]
               first == read[c][1][1]
               isLogged == /\ read[c] # <<>> /\ first[1] \notin Undecodable \union {""}
                           /\ first[1] = "get" => Len(first) > 1
    <2>1. /\ events[c] = <<>> => names = <<>>
          /\ events[c] = Connected => names = <<"connection">>
      BY DEF Connected
    <2>2. read[c] = <<>> => ~isLogged
      OBVIOUS
    <2>3. ASSUME NEW chunk \in Chunks.memcache, read[c] = <<chunk>>, chunk[1] = <<"get">>,
                 events[c] = Connected
          PROVE  ~isLogged /\ names = <<"connection">>
      <3>1. first = <<"get">>
        BY <2>3
      <3>2. first[1] = "get" /\ ~(Len(first) > 1)
        BY <3>1
      <3> HIDE DEF first
      <3> QED BY <2>1, <2>3, <3>2
    <2>4. ASSUME NEW chunk \in Chunks.memcache, read[c] = <<chunk>>, chunk[1] # <<"get">>,
                 events[c] = Connected \o MemcacheEntries(chunk[1])
          PROVE  names = IF isLogged THEN <<"connection", first[1]>> ELSE <<"connection">>
      <3>1. first = chunk[1]
        BY <2>4
      <3>2. first \in Seq(STRING) /\ first # <<>>
        BY <2>4, MemcacheAssumption
      <3>3. first[1] = "get" => Len(first) > 1
        BY <2>4, <3>1, <3>2
      <3>4. read[c] # <<>>
        BY <2>4
      <3> HIDE DEF first
      <3>5. CASE first[1] \in Undecodable \union {""}
        <4>1. Connected \o <<>> = Connected
          BY DEF Connected
        <4>2. MemcacheEntries(chunk[1]) = <<>>
          BY <3>1, <3>5 DEF MemcacheEntries
        <4> QED BY <2>1, <2>4, <3>5, <4>1, <4>2
      <3>6. CASE first[1] \notin Undecodable \union {""}
        <4>1. MemcacheEntries(chunk[1]) = <<[action |-> first[1]]>>
          BY <3>1, <3>6 DEF MemcacheEntries
        <4>2. events[c] = <<[action |-> "connection"], [action |-> first[1]]>>
          BY <2>4, <4>1, TwoElements, Zenon DEF Connected
        <4>3. names = <<"connection", first[1]>>
          BY <4>2
        <4> QED BY <3>3, <3>4, <3>6, <4>3
      <3> QED BY <3>5, <3>6
    <2>5. MemcacheOK(link[c], read[c], events[c], replies[c])
      BY <1>0
    <2>6. Len(<<"connection">>) = 1 /\ Len(<<>>) = 0
      OBVIOUS
    <2> HIDE DEF names, isLogged
    <2>7. CASE Fresh(link[c], read[c], events[c], replies[c])
      <3>1. read[c] = <<>> /\ replies[c] = <<>>
        BY <2>7 DEF Fresh
      <3>2. ~isLogged /\ (link[c] # "none" => names = <<"connection">>)
        BY <2>1, <2>2, <2>7 DEF Fresh
      <3>3. Len(replies[c]) = IF read[c] # <<>> /\ first # <<"get">> THEN 1 ELSE 0
        BY <2>6, <3>1, Zenon
      <3>4. link[c] # "none" =>
               names = IF isLogged THEN <<"connection", first[1]>> ELSE <<"connection">>
        BY <3>2, Zenon
      <3> QED BY <3>3, <3>4 DEF names, isLogged
    <2>8. ASSUME NEW chunk \in Chunks.memcache, read[c] = <<chunk>>,
                 \/ chunk[1] = <<"get">> /\ events[c] = Connected /\ replies[c] = <<>>
                 \/ /\ chunk[1] # <<"get">> /\ events[c] = Connected \o MemcacheEntries(chunk[1])
                    /\ Len(replies[c]) = 1
          PROVE  /\ names = IF isLogged THEN <<"connection", first[1]>> ELSE <<"connection">>
                 /\ Len(replies[c]) = IF read[c] # <<>> /\ first # <<"get">> THEN 1 ELSE 0
      <3>0. first = chunk[1] /\ read[c] # <<>>
        BY <2>8
      <3> HIDE DEF first
      <3>1. CASE chunk[1] = <<"get">>
        <4>1. names = <<"connection">> /\ ~isLogged /\ replies[c] = <<>>
          BY <2>3, <2>8, <3>1
        <4>2. Len(replies[c]) = 0 /\ ~(read[c] # <<>> /\ first # <<"get">>)
          BY <2>6, <3>0, <3>1, <4>1, Zenon
        <4>3. Len(replies[c]) = IF read[c] # <<>> /\ first # <<"get">> THEN 1 ELSE 0
          BY <4>2, Zenon
        <4>4. names = IF isLogged THEN <<"connection", first[1]>> ELSE <<"connection">>
          BY <4>1, Zenon
        <4> QED BY <4>3, <4>4
      <3>2. CASE chunk[1] # <<"get">>
        <4>1. Len(replies[c]) = 1
          BY <2>8, <3>2
        <4>2. names = IF isLogged THEN <<"connection", first[1]>> ELSE <<"connection">>
          BY <2>4, <2>8, <3>2
        <4> QED BY <3>0, <3>2, <4>1, <4>2, Zenon
      <3> QED BY <3>1, <3>2
    <2>9. CASE \E chunk \in Chunks.memcache :
                   /\ read[c] = <<chunk>>
                   /\ \/ chunk[1] = <<"get">> /\ events[c] = Connected /\ replies[c] = <<>>
                      \/ /\ chunk[1] # <<"get">> /\ events[c] = Connected \o MemcacheEntries(chunk[1])
                         /\ Len(replies[c]) = 1
      <3>1. /\ names = IF isLogged THEN <<"connection", first[1]>> ELSE <<"connection">>
            /\ Len(replies[c]) = IF read[c] # <<>> /\ first # <<"get">> THEN 1 ELSE 0
        BY <2>8, <2>9
      <3> QED BY <3>1 DEF names, isLogged
    <2> QED BY <2>5, <2>7, <2>9 DEF MemcacheOK
  <1>4. Memcache!CommandsAreLogged
    BY <1>3 DEF Memcache!CommandsAreLogged
  <1> QED BY <1>2, <1>4

-------------------------------------------------------------------------------
(* pjl *)

\* What is logged of a chunk.
PjlEntry(chunk) == [action |-> "query", data |-> Dropping(chunk, {"UEL"})]

PjlOK(l, r, e, p) ==
    \/ Fresh(l, r, e, p)
    \/ \E chunk \in Chunks.pjl :
          /\ l \in {"closing", "lost"} /\ r = <<chunk>> /\ e = Append(Connected, PjlEntry(chunk))
          /\ Len(p) \in {0, 1}

PjlInv ==
    server = "pjl" => Rows /\ \A c \in Conns : PjlOK(link[c], read[c], events[c], replies[c])

LEMMA PjlStarts == Init /\ server = "pjl" => PjlInv
  <1> SUFFICES ASSUME Init, server = "pjl" PROVE PjlInv
    OBVIOUS
  <1>1. Pjl!Init
    BY DEF Init
  <1>2. /\ link = [c \in Conns |-> "none"] /\ read = [c \in Conns |-> <<>>]
        /\ events = [c \in Conns |-> <<>>] /\ replies = [c \in Conns |-> <<>>]
    BY <1>1 DEF Pjl!Init, Pjl!TcpInit, Pjl!ConnectionsInit
  <1>3. Rows
    BY <1>2, Starting, Zenon DEF Rows
  <1>4. ASSUME NEW c \in Conns PROVE Fresh(link[c], read[c], events[c], replies[c])
    BY <1>2 DEF Fresh, Links
  <1> QED BY <1>3, <1>4 DEF PjlInv, PjlOK

\* The shapes of the steps.
LEMMA PjlNexts ==
    ASSUME PjlInv, server = "pjl", Pjl!PjlNext, server' = server
    PROVE  \E c \in Conns :
              \/ Comes(c) \/ Goes(c)
              \/ \E chunk \in Chunks.pjl : \E p :
                    /\ p = replies[c] \/ \E x : p = Append(replies[c], x)
                    /\ Reads(c, chunk, "closing", Append(events[c], PjlEntry(chunk)), p)
  <1>0. Rows
    BY DEF PjlInv
  <1>1. PICK c \in Conns : \/ Pjl!ConnectionMade(c) \/ Pjl!Lost(c)
                           \/ \E chunk \in Chunks.pjl : Pjl!PrinterDataReceived(c, chunk)
    BY DEF Pjl!PjlNext
  <1>2. CASE Pjl!ConnectionMade(c)
    <2>1. /\ link[c] = "none" /\ link' = [link EXCEPT ![c] = "open"] /\ read' = read
          /\ events' = [events EXCEPT ![c] = Connected] /\ replies' = replies
      BY <1>2 DEF Pjl!ConnectionMade, Pjl!Accept, Connected
    <2> QED BY <1>0, <2>1, Changed, Kept DEF Rows, Comes, Steps
  <1>3. CASE Pjl!Lost(c)
    <2>1. /\ link[c] \in {"open", "closing"} /\ link' = [link EXCEPT ![c] = "lost"] /\ read' = read
          /\ events' = events /\ replies' = replies
      BY <1>3 DEF Pjl!Lost, Pjl!ConnectionLost
    <2> QED BY <1>0, <2>1, Changed, Kept DEF Rows, Goes, Steps
  <1>4. ASSUME NEW chunk \in Chunks.pjl, Pjl!PrinterDataReceived(c, chunk)
        PROVE  \E p : /\ p = replies[c] \/ \E x : p = Append(replies[c], x)
                      /\ Reads(c, chunk, "closing", Append(events[c], PjlEntry(chunk)), p)
    <2>1. Pjl!Query(Pjl!WithoutEscapes(chunk)) = PjlEntry(chunk)
      BY DEF Pjl!Query, Pjl!WithoutEscapes, Pjl!Dropping, Dropping, Pjl!At, At, PjlEntry
    <2>2. /\ link[c] = "open" /\ link' = [link EXCEPT ![c] = "closing"]
          /\ read' = [read EXCEPT ![c] = Append(@, chunk)]
          /\ events' = [events EXCEPT ![c] = Append(@, PjlEntry(chunk))]
      BY <1>4, <2>1 DEF Pjl!PrinterDataReceived, Pjl!Received, Pjl!LoseConnection, Pjl!Log
    <2>3. replies' = replies \/ \E x : replies' = [replies EXCEPT ![c] = Append(@, x)]
      BY <1>4 DEF Pjl!PrinterDataReceived, Pjl!Reply
    <2>4. CASE replies' = replies
      <3>1. Reads(c, chunk, "closing", Append(events[c], PjlEntry(chunk)), replies[c])
        BY <1>0, <2>2, <2>4, Changed, Kept DEF Rows, Reads, Steps
      <3> QED BY <3>1
    <2>5. ASSUME NEW x, replies' = [replies EXCEPT ![c] = Append(@, x)]
          PROVE  Reads(c, chunk, "closing", Append(events[c], PjlEntry(chunk)), Append(replies[c], x))
      BY <1>0, <2>2, <2>5, Changed DEF Rows, Reads, Steps
    <2> QED BY <2>3, <2>4, <2>5
  <1> QED BY <1>1, <1>2, <1>3, <1>4

LEMMA PjlSteps ==
    ASSUME PjlInv, server = "pjl", Pjl!PjlNext, server' = server
    PROVE  PjlInv'
  <1>0. Rows /\ \A d \in Conns : PjlOK(link[d], read[d], events[d], replies[d])
    BY DEF PjlInv
  <1>1. PICK c \in Conns :
              \/ Comes(c) \/ Goes(c)
              \/ \E chunk \in Chunks.pjl : \E p :
                    /\ p = replies[c] \/ \E x : p = Append(replies[c], x)
                    /\ Reads(c, chunk, "closing", Append(events[c], PjlEntry(chunk)), p)
    BY PjlNexts
  <1>2. PjlOK(link[c], read[c], events[c], replies[c])
    BY <1>0
  <1>3. CASE Comes(c)
    <2>1. PjlOK("open", read[c], Connected, replies[c])
      BY <1>2, <1>3 DEF PjlOK, Fresh, Links, Comes
    <2> QED BY <1>0, <1>3, <2>1, Stepped DEF Comes, PjlInv
  <1>4. CASE Goes(c)
    <2>1. PjlOK("lost", read[c], events[c], replies[c])
      BY <1>2, <1>4 DEF PjlOK, Fresh, Links, Goes
    <2> QED BY <1>0, <1>4, <2>1, Stepped DEF Goes, PjlInv
  <1>5. ASSUME NEW chunk \in Chunks.pjl, NEW p, p = replies[c] \/ \E x : p = Append(replies[c], x),
               Reads(c, chunk, "closing", Append(events[c], PjlEntry(chunk)), p)
        PROVE  PjlInv'
    <2>1. Fresh("open", read[c], events[c], replies[c])
      BY <1>2, <1>5 DEF PjlOK, Reads
    <2>2. Append(read[c], chunk) = <<chunk>> /\ events[c] = Connected /\ replies[c] = <<>>
      BY <2>1 DEF Fresh
    <2>3. Len(<<>>) = 0 /\ \A x : Len(Append(<<>>, x)) = 1
      OBVIOUS
    <2>4. Len(p) \in {0, 1}
      BY <1>5, <2>2, <2>3, Zenon
    <2>5. PjlOK("closing", Append(read[c], chunk), Append(events[c], PjlEntry(chunk)), p)
      BY <2>2, <2>4 DEF PjlOK
    <2> QED BY <1>0, <1>5, <2>5, Stepped DEF Reads, PjlInv
  <1> QED BY <1>1, <1>3, <1>4, <1>5

\* The invariant says what TypeOK and TextsAreLogged say.
LEMMA PjlSays ==
    ASSUME PjlInv, server = "pjl"
    PROVE  Pjl!TypeOK /\ Pjl!TextsAreLogged
  <1>0. Rows /\ \A c \in Conns : PjlOK(link[c], read[c], events[c], replies[c])
    BY DEF PjlInv
  <1>1. ASSUME NEW c \in Conns
        PROVE  /\ link[c] \in Links /\ read[c] \in Seq(Chunks.pjl)
               /\ link[c] = "none" <=> events[c] = <<>>
               /\ Len(replies[c]) <= Len(read[c])
               /\ link[c] = "open" => read[c] = <<>>
               /\ Len(Data(events[c], "query")) = Len(read[c])
               /\ \A i \in DOMAIN read[c] :
                     Elements(Data(events[c], "query")[i]) = Elements(read[c][i]) \ {"UEL"}
    <2>1. CASE Fresh(link[c], read[c], events[c], replies[c])
      <3>1. events[c] = <<>> \/ events[c] = Connected
        BY <2>1 DEF Fresh
      <3>2. Data(events[c], "query") = <<>>
        BY <3>1, NoEntries, ConnectedLog
      <3>3. /\ link[c] \in Links /\ read[c] = <<>> /\ replies[c] = <<>>
            /\ link[c] = "none" <=> events[c] = <<>>
        BY <2>1, ConnectedLog DEF Fresh
      <3>4. <<>> \in Seq(Chunks.pjl) /\ DOMAIN <<>> = {} /\ Len(<<>>) = 0
        OBVIOUS
      <3> QED BY <3>2, <3>3, <3>4
    <2>2. ASSUME NEW chunk \in Chunks.pjl, link[c] \in {"closing", "lost"}, read[c] = <<chunk>>,
               events[c] = Append(Connected, PjlEntry(chunk)), Len(replies[c]) \in {0, 1}
          PROVE  /\ link[c] \in Links /\ read[c] \in Seq(Chunks.pjl)
                 /\ events[c] # <<>> /\ Len(replies[c]) <= Len(read[c])
                 /\ Len(Data(events[c], "query")) = Len(read[c])
                 /\ \A i \in DOMAIN read[c] :
                     Elements(Data(events[c], "query")[i]) = Elements(read[c][i]) \ {"UEL"}
      <3>1. PjlEntry(chunk).action = "query" /\ PjlEntry(chunk).data = Dropping(chunk, {"UEL"})
        BY DEF PjlEntry
      <3>2. Data(events[c], "query") = Append(<<>>, Dropping(chunk, {"UEL"}))
        <4>1. \A x : x.action = "query" => Data(Append(Connected, x), "query") = Append(<<>>, x.data)
          BY DataMore, ConnectedLog
        <4> QED BY <2>2, <3>1, <4>1, Zenon
      <3>3. chunk \in Seq(STRING)
        BY PjlAssumption
      <3>4. Elements(Dropping(chunk, {"UEL"})) = Elements(chunk) \ {"UEL"}
        BY <3>3, DroppingElements
      <3>5. /\ \A x : Len(<<x>>) = 1 /\ DOMAIN <<x>> = {1} /\ <<x>>[1] = x /\ Append(<<>>, x) = <<x>>
            /\ \A S : \A x \in S : <<x>> \in Seq(S)
        OBVIOUS
      <3>6. events[c] # <<>>
        BY <2>2, ConnectedLog, LogAppend, NoEntries
      <3>7. /\ read[c] \in Seq(Chunks.pjl) /\ Len(read[c]) = 1 /\ DOMAIN read[c] = {1} /\ read[c][1] = chunk
            /\ Len(Data(events[c], "query")) = 1
            /\ Data(events[c], "query")[1] = Dropping(chunk, {"UEL"})
        BY <2>2, <3>2, <3>5, Zenon
      <3>8. link[c] \in Links /\ 0 <= 1 /\ 1 <= 1
        BY <2>2 DEF Links
      <3>9. Len(replies[c]) <= Len(read[c])
        BY <2>2, <3>7, <3>8
      <3> QED BY <3>4, <3>6, <3>7, <3>8, <3>9
    <2> QED BY <1>0, <2>1, <2>2 DEF PjlOK
  <1>2. Pjl!TypeOK
    <2>1. link \in [Conns -> Links]
      BY <1>0, <1>1 DEF Rows, IsRow
    <2> QED BY <1>1, <2>1 DEF Pjl!TypeOK, Pjl!ConnectionsTypeOK, Pjl!QueriesTypeOK, Links
  <1>3. ASSUME NEW c \in Conns PROVE Pjl!Queried(c) = Data(events[c], "query")
    BY DEF Pjl!Queried, Pjl!Matching, Matching, Pjl!Positions, Positions, Pjl!At, At, Data
  <1>4. Pjl!TextsAreLogged
    <2>1. ASSUME NEW c \in Conns
          PROVE  /\ Len(Pjl!Queried(c)) = Len(read[c])
                 /\ \A i \in DOMAIN read[c] :
                       {Pjl!Queried(c)[i][j] : j \in DOMAIN Pjl!Queried(c)[i]} =
                       {read[c][i][j] : j \in DOMAIN read[c][i]} \ {"UEL"}
      <3>1. Len(Pjl!Queried(c)) = Len(read[c])
        BY <1>1, <1>3
      <3>2. ASSUME NEW i \in DOMAIN read[c]
            PROVE  {Pjl!Queried(c)[i][j] : j \in DOMAIN Pjl!Queried(c)[i]} =
                   {read[c][i][j] : j \in DOMAIN read[c][i]} \ {"UEL"}
        <4>1. Elements(Pjl!Queried(c)[i]) = Elements(read[c][i]) \ {"UEL"}
          BY <1>1, <1>3, Zenon
        <4> QED BY <4>1 DEF Elements
      <3> QED BY <3>1, <3>2
    <2> QED BY <2>1, Zenon DEF Pjl!TextsAreLogged
  <1> QED BY <1>2, <1>4

-------------------------------------------------------------------------------
(* oracle *)

\* What is found in a descriptor: a value of the field, and if nothing raises the one of the
\* last item that is not cut and whose name begins like it.
LEMMA OracleParses ==
    ASSUME NEW items \in Chunks.oracle, NEW f \in Oracle!Fields
    PROVE  LET found == Oracle!ParsePayload(items)[f]
           IN  /\ found = "" \/ \E i \in DOMAIN items : items[i].begins = f /\ items[i].value = found
               /\ (\A i \in DOMAIN items : ~Oracle!Raising(items[i])) =>
                     \A i \in DOMAIN items :
                        /\ items[i].name = f /\ ~items[i].cut
                        /\ \A j \in DOMAIN items : j > i =>
                              ~(items[j].begins = items[i].name /\ ~items[j].cut)
                        => found = items[i].value
  <1> DEFINE n == Len(items)
             own == {i \in Oracle!Parsed(items) : items[i].begins = f}
             found == Oracle!ParsePayload(items)[f]
  <1>1. n \in Nat /\ DOMAIN items = 1 .. n
    <2>1. items \in Seq([name : STRING, begins : STRING, value : STRING, cut : BOOLEAN])
      BY OracleAssumption, Zenon
    <2> QED BY <2>1
  <1>2. found = IF own = {} THEN "" ELSE items[Latest(own)].value
    BY DEF Oracle!ParsePayload, Oracle!Latest, Latest
  <1>3. own \in SUBSET (1 .. n)
    BY <1>1 DEF Oracle!Parsed
  <1>4. own # {} => Latest(own) \in own /\ \A j \in own : j <= Latest(own)
    BY <1>1, <1>3, LatestIs
  <1>5. found = "" \/ \E i \in DOMAIN items : items[i].begins = f /\ items[i].value = found
    <2>1. CASE own = {}
      BY <1>2, <2>1
    <2>2. CASE own # {}
      BY <1>1, <1>2, <1>3, <1>4, <2>2
    <2> QED BY <2>1, <2>2
  <1>6. ASSUME \A i \in DOMAIN items : ~Oracle!Raising(items[i]),
               NEW i \in DOMAIN items, items[i].name = f, ~items[i].cut,
               \A j \in DOMAIN items : j > i =>
                  ~(items[j].begins = items[i].name /\ ~items[j].cut)
        PROVE  found = items[i].value
    <2>1. \A j \in 1 .. i : j \in DOMAIN items
      BY <1>1
    <2>6. items[i].begins # "bare"
      BY <1>6 DEF Oracle!Raising
    <2>7. items[i].begins = f
      <3>1. f \in {"SERVICE_NAME", "PROGRAM", "USER"}
        BY DEF Oracle!Fields
      <3> QED BY <1>6, <2>6, <3>1, OracleAssumption
    <2>2. i \in own
      BY <1>6, <2>1, <2>7 DEF Oracle!Parsed
    <2>3. Latest(own) \in own /\ i <= Latest(own) /\ own # {}
      BY <1>4, <2>2
    <2>4. items[Latest(own)].begins = f /\ ~items[Latest(own)].cut
      BY <2>3 DEF Oracle!Parsed
    <2>5. Latest(own) \in 1 .. n /\ i \in 1 .. n
      BY <1>1, <1>3, <2>3
    <2> HIDE DEF own, n, found
    <2>8. Latest(own) = i
      <3>1. Latest(own) \in DOMAIN items
        BY <1>1, <2>5
      <3>2. ~(Latest(own) > i)
        BY <1>6, <2>4, <3>1
      <3> QED BY <1>1, <2>3, <2>5, <3>2
    <2> QED BY <1>2, <2>3, <2>8
  <1> HIDE DEF own, n
  <1> QED BY <1>5, <1>6

\* What is logged of a descriptor.
OracleEntries(items) ==
    IF \A f \in Oracle!Fields : Oracle!ParsePayload(items)[f] = "" THEN <<>>
    ELSE <<[action |-> "login", data |-> Oracle!ParsePayload(items)]>>

OracleOK(l, r, e, p) ==
    \/ Fresh(l, r, e, p)
    \/ \E items \in Chunks.oracle :
          /\ l \in {"closing", "lost"} /\ r = <<items>> /\ e = Connected \o OracleEntries(items)
          /\ Len(p) = 1

OracleInv ==
    server = "oracle" => Rows /\ \A c \in Conns : OracleOK(link[c], read[c], events[c], replies[c])

LEMMA OracleStarts == Init /\ server = "oracle" => OracleInv
  <1> SUFFICES ASSUME Init, server = "oracle" PROVE OracleInv
    OBVIOUS
  <1>1. Oracle!Init
    BY DEF Init
  <1>2. /\ link = [c \in Conns |-> "none"] /\ read = [c \in Conns |-> <<>>]
        /\ events = [c \in Conns |-> <<>>] /\ replies = [c \in Conns |-> <<>>]
    BY <1>1 DEF Oracle!Init, Oracle!TcpInit, Oracle!ConnectionsInit
  <1>3. Rows
    BY <1>2, Starting, Zenon DEF Rows
  <1>4. ASSUME NEW c \in Conns PROVE Fresh(link[c], read[c], events[c], replies[c])
    BY <1>2 DEF Fresh, Links
  <1> QED BY <1>3, <1>4 DEF OracleInv, OracleOK

\* The shapes of the steps.
LEMMA OracleNexts ==
    ASSUME OracleInv, server = "oracle", Oracle!OracleNext, server' = server
    PROVE  \E c \in Conns :
              \/ Comes(c) \/ Goes(c)
              \/ \E items \in Chunks.oracle :
                    Reads(c, items, "closing", events[c] \o OracleEntries(items),
                          Append(replies[c], "refuse"))
  <1>0. Rows
    BY DEF OracleInv
  <1>1. PICK c \in Conns : \/ Oracle!ConnectionMade(c) \/ Oracle!Lost(c)
                           \/ \E items \in Chunks.oracle : Oracle!DescriptorReceived(c, items)
    BY DEF Oracle!OracleNext
  <1>2. CASE Oracle!ConnectionMade(c)
    <2>1. /\ link[c] = "none" /\ link' = [link EXCEPT ![c] = "open"] /\ read' = read
          /\ events' = [events EXCEPT ![c] = Connected] /\ replies' = replies
      BY <1>2 DEF Oracle!ConnectionMade, Oracle!Accept, Connected
    <2> QED BY <1>0, <2>1, Changed, Kept DEF Rows, Comes, Steps
  <1>3. CASE Oracle!Lost(c)
    <2>1. /\ link[c] \in {"open", "closing"} /\ link' = [link EXCEPT ![c] = "lost"] /\ read' = read
          /\ events' = events /\ replies' = replies
      BY <1>3 DEF Oracle!Lost, Oracle!ConnectionLost
    <2> QED BY <1>0, <2>1, Changed, Kept DEF Rows, Goes, Steps
  <1>4. ASSUME NEW items \in Chunks.oracle, Oracle!DescriptorReceived(c, items)
        PROVE  Reads(c, items, "closing", events[c] \o OracleEntries(items),
                     Append(replies[c], "refuse"))
    <2>1. /\ link[c] = "open" /\ link' = [link EXCEPT ![c] = "closing"]
          /\ read' = [read EXCEPT ![c] = Append(@, items)]
          /\ events' = [events EXCEPT ![c] = @ \o OracleEntries(items)]
          /\ replies' = [replies EXCEPT ![c] = Append(@, "refuse")]
      BY <1>4 DEF Oracle!DescriptorReceived, Oracle!Received, Oracle!LoseConnection, Oracle!LogAll,
                  Oracle!Reply, OracleEntries
    <2> QED BY <1>0, <2>1, Changed DEF Rows, Reads, Steps
  <1> QED BY <1>1, <1>2, <1>3, <1>4

LEMMA OracleSteps ==
    ASSUME OracleInv, server = "oracle", Oracle!OracleNext, server' = server
    PROVE  OracleInv'
  <1>0. Rows /\ \A d \in Conns : OracleOK(link[d], read[d], events[d], replies[d])
    BY DEF OracleInv
  <1>1. PICK c \in Conns :
              \/ Comes(c) \/ Goes(c)
              \/ \E items \in Chunks.oracle :
                    Reads(c, items, "closing", events[c] \o OracleEntries(items),
                          Append(replies[c], "refuse"))
    BY OracleNexts
  <1>2. OracleOK(link[c], read[c], events[c], replies[c])
    BY <1>0
  <1>3. CASE Comes(c)
    <2>1. OracleOK("open", read[c], Connected, replies[c])
      BY <1>2, <1>3 DEF OracleOK, Fresh, Links, Comes
    <2> QED BY <1>0, <1>3, <2>1, Stepped DEF Comes, OracleInv
  <1>4. CASE Goes(c)
    <2>1. OracleOK("lost", read[c], events[c], replies[c])
      BY <1>2, <1>4 DEF OracleOK, Fresh, Links, Goes
    <2> QED BY <1>0, <1>4, <2>1, Stepped DEF Goes, OracleInv
  <1>5. ASSUME NEW items \in Chunks.oracle,
               Reads(c, items, "closing", events[c] \o OracleEntries(items), Append(replies[c], "refuse"))
        PROVE  OracleInv'
    <2>1. Fresh("open", read[c], events[c], replies[c])
      BY <1>2, <1>5 DEF OracleOK, Reads
    <2>2. /\ Append(read[c], items) = <<items>> /\ events[c] = Connected
          /\ Len(Append(replies[c], "refuse")) = 1
      BY <2>1 DEF Fresh
    <2>3. OracleOK("closing", Append(read[c], items), events[c] \o OracleEntries(items),
                   Append(replies[c], "refuse"))
      BY <2>2 DEF OracleOK
    <2> QED BY <1>0, <1>5, <2>3, Stepped DEF Reads, OracleInv
  <1> QED BY <1>1, <1>3, <1>4, <1>5

\* The logins of those who have only connected, and of those who have sent a descriptor.
LEMMA OracleLogins ==
    /\ Matching(<<>>, "login") = <<>> /\ Matching(Connected, "login") = <<>>
    /\ \A items : /\ Matching(Connected \o OracleEntries(items), "login") = OracleEntries(items)
                  /\ Connected \o OracleEntries(items) # <<>>
  <1>1. Matching(<<>>, "login") = <<>>
    BY NoMatching
  <1>2. Matching(Connected, "login") = <<>>
    <2> DEFINE e == [action |-> "connection"]
    <2>1. e.action # "login" /\ Connected = Append(<<>>, e)
      BY DEF Connected
    <2> HIDE DEF e
    <2> QED BY <1>1, <2>1, NoEntries, MatchingEntry
  <1>3. ASSUME NEW items
        PROVE  /\ Matching(Connected \o OracleEntries(items), "login") = OracleEntries(items)
               /\ Connected \o OracleEntries(items) # <<>>
    <2> DEFINE x == [action |-> "login", data |-> Oracle!ParsePayload(items)]
    <2>1. x.action = "login"
      OBVIOUS
    <2>2. OracleEntries(items) = <<>> \/ OracleEntries(items) = <<x>>
      BY DEF OracleEntries
    <2> HIDE DEF x
    <2>3. Connected \o <<>> = Connected /\ Connected \o <<x>> = Append(Connected, x)
      BY ConnectedLog, NoEntries, LogConcat
    <2>4. Matching(Append(Connected, x), "login") = Append(<<>>, x)
      <3>1. \A y : y.action = "login" =>
               Matching(Append(Connected, y), "login") = Append(Matching(Connected, "login"), y)
        BY ConnectedLog, MatchingEntry
      <3> QED BY <1>2, <2>1, <3>1, Zenon
    <2>5. Append(<<>>, x) = <<x>>
      OBVIOUS
    <2>6. Append(Connected, x) # <<>>
      BY ConnectedLog, LogAppend, NoEntries
    <2>7. CASE OracleEntries(items) = <<>>
      BY <1>2, <2>3, <2>7, ConnectedLog, Zenon
    <2>8. CASE OracleEntries(items) = <<x>>
      BY <2>3, <2>4, <2>5, <2>6, <2>8, Zenon
    <2> QED BY <2>2, <2>7, <2>8
  <1> QED BY <1>1, <1>2, <1>3

\* What is logged of a descriptor is in it, and is all that is in it if nothing raises.
OracleFound(items, logged) ==
    /\ \A i \in DOMAIN logged : \A f \in Oracle!Fields :
          \/ logged[i].data[f] = ""
          \/ \E j \in DOMAIN items : items[j].begins = f /\ items[j].value = logged[i].data[f]
    /\ (\A i \in DOMAIN items : ~Oracle!Raising(items[i])) =>
          \A i \in DOMAIN items :
             /\ items[i].name \in Oracle!Fields /\ ~items[i].cut
             /\ \A j \in DOMAIN items : j > i =>
                   ~(items[j].begins = items[i].name /\ ~items[j].cut)
             => logged # <<>> /\ logged[1].data[items[i].name] = items[i].value

\* The invariant says what TypeOK and FieldsAreLogged say.
LEMMA OracleSays ==
    ASSUME OracleInv, server = "oracle"
    PROVE  Oracle!TypeOK /\ Oracle!FieldsAreLogged
  <1>0. Rows /\ \A c \in Conns : OracleOK(link[c], read[c], events[c], replies[c])
    BY DEF OracleInv
  <1>9. ASSUME NEW c \in Conns PROVE Oracle!Logins(c) = Matching(events[c], "login")
    BY DEF Oracle!Logins, Oracle!Matching, Matching, Oracle!Positions, Positions, Oracle!At, At
  <1>1. ASSUME NEW c \in Conns
        PROVE  /\ link[c] \in Links /\ read[c] \in Seq(Chunks.oracle)
               /\ link[c] = "none" <=> events[c] = <<>>
               /\ Len(replies[c]) <= Len(read[c])
               /\ link[c] = "open" => read[c] = <<>>
               /\ read[c] # <<>> => /\ read[c][1] \in Chunks.oracle
                                    /\ Oracle!Logins(c) = OracleEntries(read[c][1])
    <2>1. CASE Fresh(link[c], read[c], events[c], replies[c])
      BY <2>1 DEF Fresh, Connected
    <2>2. ASSUME NEW items \in Chunks.oracle, link[c] \in {"closing", "lost"}, read[c] = <<items>>,
               events[c] = Connected \o OracleEntries(items), Len(replies[c]) = 1
          PROVE  /\ link[c] \in Links /\ read[c] \in Seq(Chunks.oracle)
                 /\ events[c] # <<>> /\ Len(replies[c]) <= Len(read[c])
                 /\ read[c][1] \in Chunks.oracle
                 /\ Oracle!Logins(c) = OracleEntries(read[c][1])
      <3>1. /\ \A x : Len(<<x>>) = 1 /\ <<x>>[1] = x
            /\ \A S : \A x \in S : <<x>> \in Seq(S)
        OBVIOUS
      <3>2. read[c] \in Seq(Chunks.oracle) /\ Len(read[c]) = 1 /\ read[c][1] = items
        BY <2>2, <3>1, Zenon
      <3>3. link[c] \in Links /\ 1 <= 1
        BY <2>2 DEF Links
      <3>4. events[c] # <<>> /\ Matching(events[c], "login") = OracleEntries(items)
        BY <2>2, OracleLogins
      <3> QED BY <1>9, <2>2, <3>2, <3>3, <3>4
    <2> QED BY <1>0, <2>1, <2>2 DEF OracleOK
  <1>2. Oracle!TypeOK
    <2>1. link \in [Conns -> Links]
      BY <1>0, <1>1 DEF Rows, IsRow
    <2> QED BY <1>1, <2>1 DEF Oracle!TypeOK, Oracle!ConnectionsTypeOK, Oracle!QueriesTypeOK, Links
  <1>3. ASSUME NEW c \in Conns, read[c] # <<>>,
               NEW items, items = read[c][1], NEW logged, logged = Oracle!Logins(c)
        PROVE  OracleFound(items, logged)
    <2> DEFINE found == Oracle!ParsePayload(items)
               x == [action |-> "login", data |-> found]
    <2>1. /\ items \in Chunks.oracle
          /\ logged = IF \A f \in Oracle!Fields : found[f] = "" THEN <<>> ELSE <<x>>
      BY <1>1, <1>3 DEF OracleEntries
    <2>2. x.data = found
      OBVIOUS
    <2> HIDE DEF x, found
    <2>3. /\ DOMAIN <<>> = {} /\ DOMAIN <<x>> = {1} /\ <<x>>[1] = x /\ <<x>> # <<>>
      OBVIOUS
    <2>4. ASSUME NEW i \in DOMAIN logged, NEW f \in Oracle!Fields
          PROVE  \/ logged[i].data[f] = ""
                 \/ \E j \in DOMAIN items : items[j].begins = f /\ items[j].value = logged[i].data[f]
      <3>1. logged = <<x>> /\ i = 1
        BY <2>1, <2>3, <2>4
      <3>2. logged[i].data = found
        BY <2>2, <2>3, <3>1
      <3>3. found[f] = "" \/ \E j \in DOMAIN items : items[j].begins = f /\ items[j].value = found[f]
        BY <2>1, OracleParses DEF found
      <3> QED BY <3>2, <3>3
    <2>5. ASSUME \A i \in DOMAIN items : ~Oracle!Raising(items[i]),
                 NEW i \in DOMAIN items, items[i].name \in Oracle!Fields, ~items[i].cut,
                 \A j \in DOMAIN items : j > i =>
                    ~(items[j].begins = items[i].name /\ ~items[j].cut)
          PROVE  logged # <<>> /\ logged[1].data[items[i].name] = items[i].value
      <3>1. found[items[i].name] = items[i].value
        <4> DEFINE f == items[i].name
        <4>1. f \in Oracle!Fields /\ items[i].name = f
          BY <2>5
        <4> HIDE DEF f
        <4>2. (\A k \in DOMAIN items : ~Oracle!Raising(items[k])) =>
                 \A k \in DOMAIN items :
                    /\ items[k].name = f /\ ~items[k].cut
                    /\ \A j \in DOMAIN items : j > k =>
                          ~(items[j].begins = items[k].name /\ ~items[j].cut)
                    => found[f] = items[k].value
          BY <2>1, <4>1, OracleParses DEF found
        <4>3. found[f] = items[i].value
          BY <2>5, <4>1, <4>2
        <4> QED BY <4>1, <4>3
      <3>4. items[i].value # ""
        <4>1. items[i].begins # "bare"
          BY <2>5 DEF Oracle!Raising
        <4>2. \A k \in DOMAIN items : items[k].begins # "bare" /\ items[k].value = "" => items[k].cut
          BY <2>1, OracleAssumption, Zenon
        <4> QED BY <2>5, <4>1, <4>2
      <3>2. logged = <<x>>
        BY <2>1, <2>5, <3>1, <3>4
      <3> QED BY <2>2, <2>3, <3>1, <3>2
    <2> QED BY <2>4, <2>5 DEF OracleFound
  <1>4. Oracle!FieldsAreLogged
    <2>1. ASSUME NEW c \in Conns, read[c] # <<>> PROVE OracleFound(read[c][1], Oracle!Logins(c))
      BY <1>3, <2>1
    <2> QED BY <2>1, Zenon DEF Oracle!FieldsAreLogged, OracleFound
  <1> QED BY <1>2, <1>4

-------------------------------------------------------------------------------
(* http proxy *)

\* The chunks with a host.
Asked(r) == At(r, {i \in DOMAIN r : HttpProxy!HasHost(r[i])})
Hosts(r) == [i \in DOMAIN Asked(r) |-> Asked(r)[i].host]

\* With one chunk more.
LEMMA AskedMore ==
    ASSUME NEW r, IsLog(r), NEW x
    PROVE  /\ HttpProxy!HasHost(x) => Asked(Append(r, x)) = Append(Asked(r), x)
           /\ ~HttpProxy!HasHost(x) => Asked(Append(r, x)) = Asked(r)
           /\ IsLog(Asked(r))
  <1> DEFINE t == Append(r, x)
             I == {i \in DOMAIN r : HttpProxy!HasHost(r[i])}
             J == {i \in DOMAIN t : HttpProxy!HasHost(t[i])}
  <1>1. /\ Len(r) \in Nat /\ DOMAIN r = 1 .. Len(r) /\ DOMAIN t = 1 .. Len(r) + 1
        /\ t[Len(r) + 1] = x /\ \A i \in 1 .. Len(r) : t[i] = r[i]
    BY LogAppend
  <1>2. SameUpTo(Len(r), I, J) /\ (NextIn(r, J) <=> HttpProxy!HasHost(x))
    <2> HIDE DEF t
    <2> QED BY <1>1 DEF SameUpTo, NextIn
  <1>3. Asked(r) = At(r, I) /\ Asked(Append(r, x)) = At(Append(r, x), J)
    BY DEF Asked
  <1> HIDE DEF I, J, t
  <1>4. \A u, y, A, B : IsLog(u) /\ SameUpTo(Len(u), A, B) =>
           /\ NextIn(u, B) => At(Append(u, y), B) = Append(At(u, A), y)
           /\ ~NextIn(u, B) => At(Append(u, y), B) = At(u, A)
           /\ IsLog(At(u, A))
    BY AtMore
  <1>5. NextIn(r, J) => At(Append(r, x), J) = Append(At(r, I), x)
    BY <1>2, AtMore, SMT
  <1>6. ~NextIn(r, J) => At(Append(r, x), J) = At(r, I)
    BY <1>2, AtMore, SMT
  <1>7. IsLog(At(r, I))
    BY <1>2, AtMore, SMT
  <1> QED BY <1>2, <1>3, <1>5, <1>6, <1>7, Zenon

LEMMA HostsMore ==
    ASSUME NEW r, IsLog(r), NEW x, NEW t, t = Append(r, x)
    PROVE  /\ IsLog(Asked(r)) /\ Len(Asked(r)) \in Nat
           /\ HttpProxy!HasHost(x) => /\ Len(Asked(t)) = Len(Asked(r)) + 1
                                      /\ Hosts(t) = Append(Hosts(r), x.host)
           /\ ~HttpProxy!HasHost(x) => Asked(t) = Asked(r) /\ Hosts(t) = Hosts(r)
  <1>4. /\ Asked(t) = IF HttpProxy!HasHost(x) THEN Append(Asked(r), x) ELSE Asked(r)
        /\ IsLog(Asked(r))
    BY AskedMore
  <1>5. CASE HttpProxy!HasHost(x)
    <2>1. Asked(t) = Append(Asked(r), x)
      BY <1>4, <1>5
    <2>2. Len(Asked(r)) \in Nat /\ Len(Asked(t)) = Len(Asked(r)) + 1
      BY <1>4, <2>1, LogAppend
    <2>3. /\ Listed(Hosts(r), Asked(r)) /\ Listed(Hosts(t), Asked(t))
          /\ \A i \in DOMAIN Asked(t) : Hosts(t)[i] = Asked(t)[i].host
          /\ \A i \in DOMAIN Asked(r) : Hosts(r)[i] = Asked(r)[i].host
      BY DEF Hosts, Listed
    <2>4. Agree(Hosts(r), Asked(r), Hosts(t), Asked(t))
      <3>1. \A i \in DOMAIN Asked(r) : i \in DOMAIN Asked(t)
        BY <1>4, <2>1, <2>2, LogAppend
      <3> QED BY <2>3, <3>1 DEF Agree
    <2>5. /\ Hosts(t) = Append(Hosts(r), Hosts(t)[Len(Asked(r)) + 1])
          /\ Len(Asked(r)) + 1 \in DOMAIN Asked(t) /\ Asked(t)[Len(Asked(r)) + 1] = x
      <3>1. \A u, v, f, g : IsLog(u) /\ v = Append(u, x) /\ Listed(f, u) /\ Listed(g, v) /\ Agree(f, u, g, v)
               => /\ g = Append(f, g[Len(u) + 1])
                  /\ Len(u) + 1 \in DOMAIN v /\ v[Len(u) + 1] = x
        BY Mapped
      <3> QED BY <1>4, <2>1, <2>3, <2>4, <3>1, Zenon
    <2>6. Hosts(t)[Len(Asked(r)) + 1] = x.host
      BY <2>3, <2>5
    <2> QED BY <1>4, <1>5, <2>2, <2>5, <2>6
  <1>6. CASE ~HttpProxy!HasHost(x)
    <2>1. Asked(t) = Asked(r)
      BY <1>4, <1>6
    <2>2. Hosts(t) = Hosts(r)
      BY <2>1, Zenon DEF Hosts
    <2>3. Len(Asked(r)) \in Nat
      BY <1>4, LogAppend
    <2> QED BY <1>4, <1>6, <2>1, <2>2, <2>3
  <1> QED BY <1>5, <1>6

\* Nothing was asked for yet.
LEMMA NoHosts == Asked(<<>>) = <<>> /\ Hosts(<<>>) = <<>>
  <1>1. Asked(<<>>) = <<>>
    BY AtEmpty DEF Asked
  <1>2. Hosts(<<>>) = [i \in DOMAIN <<>> |-> <<>>[i].host]
    BY <1>1, Zenon DEF Hosts
  <1> QED BY <1>1, <1>2

ProxyOK(l, r, e, p) ==
    /\ Heard(Chunks.httpproxy, l, r, e, p)
    /\ Data(e, "query") = Hosts(r) /\ Len(e) = Len(r) + Len(Asked(r))
    /\ Len(p) <= Len(r) /\ (l \in {"none", "open"} => Len(p) = Len(r))

ProxyInv ==
    server = "httpproxy" =>
        Rows /\ \A c \in Conns : ProxyOK(link[c], read[c], events[c], replies[c])

LEMMA ProxyStarts == Init /\ server = "httpproxy" => ProxyInv
  <1> SUFFICES ASSUME Init, server = "httpproxy" PROVE ProxyInv
    OBVIOUS
  <1>1. HttpProxy!Init
    BY DEF Init
  <1>2. /\ link = [c \in Conns |-> "none"] /\ read = [c \in Conns |-> <<>>]
        /\ events = [c \in Conns |-> <<>>] /\ replies = [c \in Conns |-> <<>>]
    BY <1>1 DEF HttpProxy!Init, HttpProxy!TcpInit, HttpProxy!ConnectionsInit
  <1>3. Rows
    BY <1>2, Starting, Zenon DEF Rows
  <1>4. ProxyOK("none", <<>>, <<>>, <<>>)
    <2>1. Heard(Chunks.httpproxy, "none", <<>>, <<>>, <<>>)
      BY Unheard DEF Links
    <2>2. Data(<<>>, "query") = Hosts(<<>>) /\ Len(<<>>) = 0 /\ Len(Asked(<<>>)) = 0
      BY NoEntries, NoHosts
    <2> QED BY <2>1, <2>2 DEF ProxyOK
  <1>5. ASSUME NEW c \in Conns PROVE ProxyOK(link[c], read[c], events[c], replies[c])
    <2>1. link[c] = "none" /\ read[c] = <<>> /\ events[c] = <<>> /\ replies[c] = <<>>
      BY <1>2
    <2> QED BY <1>4, <2>1, Zenon
  <1> QED BY <1>3, <1>5 DEF ProxyInv

ProxyQuery(chunk) == [action |-> "query", data |-> chunk.host]

\* The shapes of the steps that read.
ProxyReads(c, chunk) ==
    \/ /\ ~HttpProxy!HasHost(chunk)
       /\ Reads(c, chunk, "closing", Append(events[c], [action |-> "connection"]), replies[c])
    \/ /\ HttpProxy!HasHost(chunk)
       /\ Reads(c, chunk, "closing", events[c] \o <<[action |-> "connection"], ProxyQuery(chunk)>>,
                replies[c])
    \/ /\ HttpProxy!HasHost(chunk)
       /\ Reads(c, chunk, "open", events[c] \o <<[action |-> "connection"], ProxyQuery(chunk)>>,
                Append(replies[c], "dummy page"))

LEMMA ProxyNexts ==
    ASSUME ProxyInv, server = "httpproxy", HttpProxy!HttpProxyNext, server' = server
    PROVE  \E c \in Conns :
              ComesUnlogged(c) \/ Goes(c) \/ \E chunk \in Chunks.httpproxy : ProxyReads(c, chunk)
  <1>0. Rows
    BY DEF ProxyInv
  <1>1. PICK c \in Conns : \/ HttpProxy!ConnectionMadeUnlogged(c) \/ HttpProxy!Lost(c)
                           \/ \E chunk \in Chunks.httpproxy :
                                 \/ HttpProxy!NoHost(c, chunk) \/ HttpProxy!Unresolved(c, chunk)
                                 \/ HttpProxy!Resolved(c, chunk)
    BY DEF HttpProxy!HttpProxyNext
  <1>2. CASE HttpProxy!ConnectionMadeUnlogged(c)
    <2>1. /\ link[c] = "none" /\ link' = [link EXCEPT ![c] = "open"]
          /\ read' = read /\ events' = events /\ replies' = replies
      BY <1>2 DEF HttpProxy!ConnectionMadeUnlogged
    <2> QED BY <1>0, <2>1, Changed, Kept DEF Rows, ComesUnlogged, Steps
  <1>3. CASE HttpProxy!Lost(c)
    <2>1. /\ link[c] \in {"open", "closing"} /\ link' = [link EXCEPT ![c] = "lost"]
          /\ read' = read /\ events' = events /\ replies' = replies
      BY <1>3 DEF HttpProxy!Lost, HttpProxy!ConnectionLost
    <2> QED BY <1>0, <2>1, Changed, Kept DEF Rows, Goes, Steps
  <1>4. ASSUME NEW chunk \in Chunks.httpproxy, HttpProxy!NoHost(c, chunk)
        PROVE  ProxyReads(c, chunk)
    <2>1. /\ link[c] = "open" /\ link' = [link EXCEPT ![c] = "closing"]
          /\ read' = [read EXCEPT ![c] = Append(@, chunk)]
          /\ events' = [events EXCEPT ![c] = Append(@, [action |-> "connection"])]
          /\ replies' = replies /\ ~HttpProxy!HasHost(chunk)
      BY <1>4 DEF HttpProxy!NoHost, HttpProxy!Received, HttpProxy!LoseConnection, HttpProxy!Log,
                  HttpProxy!Connection
    <2>2. Reads(c, chunk, "closing", Append(events[c], [action |-> "connection"]), replies[c])
      BY <1>0, <2>1, Changed, Kept DEF Rows, Reads, Steps
    <2> QED BY <2>1, <2>2 DEF ProxyReads
  <1>5. ASSUME NEW chunk \in Chunks.httpproxy, HttpProxy!Unresolved(c, chunk)
        PROVE  ProxyReads(c, chunk)
    <2> DEFINE es == <<[action |-> "connection"], ProxyQuery(chunk)>>
    <2>1. /\ link[c] = "open" /\ link' = [link EXCEPT ![c] = "closing"]
          /\ read' = [read EXCEPT ![c] = Append(@, chunk)]
          /\ events' = [events EXCEPT ![c] = @ \o es]
          /\ replies' = replies /\ HttpProxy!HasHost(chunk)
      BY <1>5 DEF HttpProxy!Unresolved, HttpProxy!Received, HttpProxy!LoseConnection, HttpProxy!LogAll,
                  HttpProxy!Connection, HttpProxy!Query, ProxyQuery
    <2> HIDE DEF es
    <2>2. Reads(c, chunk, "closing", events[c] \o es, replies[c])
      BY <1>0, <2>1, Changed, Kept DEF Rows, Reads, Steps
    <2> QED BY <2>1, <2>2 DEF ProxyReads, es
  <1>6. ASSUME NEW chunk \in Chunks.httpproxy, HttpProxy!Resolved(c, chunk)
        PROVE  ProxyReads(c, chunk)
    <2> DEFINE es == <<[action |-> "connection"], ProxyQuery(chunk)>>
    <2>1. /\ link[c] = "open" /\ link' = link
          /\ read' = [read EXCEPT ![c] = Append(@, chunk)]
          /\ events' = [events EXCEPT ![c] = @ \o es]
          /\ replies' = [replies EXCEPT ![c] = Append(@, "dummy page")] /\ HttpProxy!HasHost(chunk)
      BY <1>6 DEF HttpProxy!Resolved, HttpProxy!Received, HttpProxy!Reply, HttpProxy!LogAll,
                  HttpProxy!Connection, HttpProxy!Query, ProxyQuery
    <2> HIDE DEF es
    <2>2. Reads(c, chunk, "open", events[c] \o es, Append(replies[c], "dummy page"))
      BY <1>0, <2>1, Changed, Kept DEF Rows, Reads, Steps
    <2> QED BY <2>1, <2>2 DEF ProxyReads, es
  <1> QED BY <1>1, <1>2, <1>3, <1>4, <1>5, <1>6

\* A chunk was read.
LEMMA ProxyHears ==
    ASSUME NEW r, NEW e, NEW p, ProxyOK("open", r, e, p), NEW chunk \in Chunks.httpproxy,
           NEW t, t = Append(r, chunk), NEW f, NEW l \in {"open", "closing"}, NEW q,
           IF HttpProxy!HasHost(chunk) THEN f = e \o <<[action |-> "connection"], ProxyQuery(chunk)>>
           ELSE f = Append(e, [action |-> "connection"]),
           IF l = "open" THEN \E x : q = Append(p, x) ELSE q = p
    PROVE  ProxyOK(l, t, f, q)
  <1>1. /\ r \in Seq(Chunks.httpproxy) /\ IsLog(r) /\ IsLog(e) /\ IsLog(p)
        /\ Data(e, "query") = Hosts(r) /\ Len(e) = Len(r) + Len(Asked(r)) /\ Len(p) = Len(r)
    BY DEF ProxyOK, Heard
  <1>2. /\ t \in Seq(Chunks.httpproxy) /\ IsLog(t) /\ Len(r) \in Nat /\ Len(t) = Len(r) + 1
    BY <1>1, AppendProperties, LogAppend
  <1>3. IsLog(q) /\ (IF l = "open" THEN Len(q) = Len(p) + 1 ELSE q = p)
    <2>1. \A x : IsLog(Append(p, x)) /\ Len(Append(p, x)) = Len(p) + 1
      BY <1>1, LogAppend
    <2> QED BY <1>1, <2>1
  <1>4. /\ IsLog(f) /\ Data(f, "query") = Hosts(t) /\ Len(f) = Len(t) + Len(Asked(t))
    <2>1. CASE HttpProxy!HasHost(chunk)
      <3>1. ProxyQuery(chunk).action = "query" /\ ProxyQuery(chunk).data = chunk.host
        BY DEF ProxyQuery
      <3>2. /\ IsLog(f) /\ Len(f) = Len(e) + 2 /\ Len(e) \in Nat
            /\ Data(f, "query") = Append(Data(e, "query"), ProxyQuery(chunk).data)
        BY <1>1, <2>1, <3>1, QueryLogged
      <3>3. /\ Len(Asked(t)) = Len(Asked(r)) + 1 /\ Hosts(t) = Append(Hosts(r), chunk.host)
            /\ Len(Asked(r)) \in Nat
        BY <1>1, <2>1, HostsMore
      <3> QED BY <1>1, <1>2, <3>1, <3>2, <3>3
    <2>2. CASE ~HttpProxy!HasHost(chunk)
      <3>2. /\ IsLog(f) /\ Len(f) = Len(e) + 1 /\ Len(e) \in Nat
            /\ Matching(f, "query") = Matching(e, "query")
        BY <1>1, <2>2, ConnectionLogged
      <3>3. Data(f, "query") = Data(e, "query")
        BY <3>2, Zenon DEF Data
      <3>4. Asked(t) = Asked(r) /\ Hosts(t) = Hosts(r) /\ Len(Asked(r)) \in Nat
        BY <1>1, <2>2, HostsMore
      <3> QED BY <1>1, <1>2, <3>2, <3>3, <3>4
    <2> QED BY <2>1, <2>2
  <1>5. Heard(Chunks.httpproxy, l, t, f, q)
    BY <1>2, <1>3, <1>4 DEF Heard, Links
  <1>6. Len(q) <= Len(t) /\ (l = "open" => Len(q) = Len(t))
    BY <1>1, <1>2, <1>3
  <1> QED BY <1>4, <1>5, <1>6 DEF ProxyOK

LEMMA ProxySteps ==
    ASSUME ProxyInv, server = "httpproxy", HttpProxy!HttpProxyNext, server' = server
    PROVE  ProxyInv'
  <1>0. Rows /\ \A d \in Conns : ProxyOK(link[d], read[d], events[d], replies[d])
    BY DEF ProxyInv
  <1>1. PICK c \in Conns :
              ComesUnlogged(c) \/ Goes(c) \/ \E chunk \in Chunks.httpproxy : ProxyReads(c, chunk)
    BY ProxyNexts
  <1>2. ProxyOK(link[c], read[c], events[c], replies[c])
    BY <1>0
  <1>3. CASE ComesUnlogged(c)
    <2>1. ProxyOK("open", read[c], events[c], replies[c])
      BY <1>2, <1>3 DEF ProxyOK, Heard, Links, ComesUnlogged
    <2> QED BY <1>0, <1>3, <2>1, Stepped DEF ComesUnlogged, ProxyInv
  <1>4. CASE Goes(c)
    <2>1. ProxyOK("lost", read[c], events[c], replies[c])
      BY <1>2, <1>4 DEF ProxyOK, Heard, Links, Goes
    <2> QED BY <1>0, <1>4, <2>1, Stepped DEF Goes, ProxyInv
  <1>5. ASSUME NEW chunk \in Chunks.httpproxy, NEW l \in {"open", "closing"}, NEW f, NEW q,
               Reads(c, chunk, l, f, q), ProxyOK(l, Append(read[c], chunk), f, q)
        PROVE  ProxyInv'
    BY <1>0, <1>5, Stepped DEF Reads, ProxyInv
  <1>6. ASSUME NEW chunk \in Chunks.httpproxy, ProxyReads(c, chunk)
        PROVE  ProxyInv'
    <2>1. link[c] = "open"
      BY <1>6 DEF ProxyReads, Reads
    <2>2. ProxyOK("open", read[c], events[c], replies[c])
      BY <1>2, <2>1
    <2> DEFINE f == IF HttpProxy!HasHost(chunk)
                    THEN events[c] \o <<[action |-> "connection"], ProxyQuery(chunk)>>
                    ELSE Append(events[c], [action |-> "connection"])
    <2>3. \A l \in {"open", "closing"} : \A q :
             (IF l = "open" THEN \E x : q = Append(replies[c], x) ELSE q = replies[c])
             => ProxyOK(l, Append(read[c], chunk), f, q)
      BY <2>2, ProxyHears
    <2>4. PICK l \in {"open", "closing"} : \E q : Reads(c, chunk, l, f, q) /\
             (IF l = "open" THEN \E x : q = Append(replies[c], x) ELSE q = replies[c])
      BY <1>6 DEF ProxyReads
    <2> HIDE DEF f
    <2> QED BY <1>5, <2>3, <2>4
  <1> QED BY <1>1, <1>3, <1>4, <1>6

\* The invariant says what HttpProxyTypeOK and HostsAreLogged say.
LEMMA ProxySays ==
    ASSUME ProxyInv, server = "httpproxy"
    PROVE  HttpProxy!HttpProxyTypeOK /\ HttpProxy!HostsAreLogged
  <1>0. Rows /\ \A c \in Conns : ProxyOK(link[c], read[c], events[c], replies[c])
    BY DEF ProxyInv
  <1>1. link \in [Conns -> Links]
    BY <1>0 DEF Rows, IsRow, ProxyOK, Heard
  <1>2. HttpProxy!HttpProxyTypeOK
    BY <1>0, <1>1 DEF HttpProxy!HttpProxyTypeOK, HttpProxy!QueriesTypeOK, Links, ProxyOK, Heard
  <1>3. ASSUME NEW c \in Conns
        PROVE  HttpProxy!Queried(c) = Data(events[c], "query")
    BY DEF HttpProxy!Queried, HttpProxy!Matching, Matching, HttpProxy!Positions, Positions, HttpProxy!At,
           At, Data
  <1>4. ASSUME NEW c \in Conns
        PROVE  HttpProxy!At(read[c], {i \in DOMAIN read[c] : HttpProxy!HasHost(read[c][i])}) =
               Asked(read[c])
    BY DEF Asked, HttpProxy!At, At
  <1>5. \A r : Hosts(r) = [i \in DOMAIN Asked(r) |-> Asked(r)[i].host]
    BY DEF Hosts
  <1>6. HttpProxy!HostsAreLogged
    BY <1>0, <1>3, <1>4, <1>5, Zenon DEF HttpProxy!HostsAreLogged, ProxyOK
  <1> QED BY <1>2, <1>6

-------------------------------------------------------------------------------
(* smb *)

\* The lines of hashes that are logged, their users, and the users that were logged.
HashLines == {line \in Chunks.smb : line.kind = "hash" /\ Len(line.user) = 1}
UserOf == [line \in Chunks.smb |-> line.user[1]]
Users(e) == LET logins == Matching(e, "login") IN [i \in DOMAIN logins |-> logins[i].username]

\* With one entry more.
LEMMA UsersMore ==
    ASSUME NEW e, IsLog(e), NEW x
    PROVE  /\ x.action = "login" => Users(Append(e, x)) = Append(Users(e), x.username)
           /\ x.action # "login" => Users(Append(e, x)) = Users(e)
  <1> DEFINE f == Append(e, x)
             u == Matching(e, "login")
             v == Matching(f, "login")
  <1>1. f = Append(e, x) /\ Users(e) = [i \in DOMAIN u |-> u[i].username]
        /\ Users(f) = [i \in DOMAIN v |-> v[i].username]
    BY DEF Users
  <1>2. /\ IsLog(u)
        /\ x.action = "login" => v = Append(u, x)
        /\ x.action # "login" => v = u
    BY MatchingEntry
  <1> HIDE DEF f, u, v
  <1>3. CASE x.action # "login"
    BY <1>1, <1>2, <1>3
  <1>4. CASE x.action = "login"
    <2>1. v = Append(u, x)
      BY <1>2, <1>4
    <2>6. IsLog(u)
      BY <1>2
    <2>2. Len(u) \in Nat /\ \A i \in DOMAIN u : i \in DOMAIN v
      BY <1>2, <2>1, LogAppend
    <2>3. Listed(Users(e), u) /\ Listed(Users(f), v) /\ Agree(Users(e), u, Users(f), v)
      BY <1>1, <2>2 DEF Listed, Agree
    <2>4. /\ Users(f) = Append(Users(e), Users(f)[Len(u) + 1])
          /\ Len(u) + 1 \in DOMAIN v /\ v[Len(u) + 1] = x
      <3>1. \A q, w, g, h :
               IsLog(q) /\ w = Append(q, x) /\ Listed(g, q) /\ Listed(h, w) /\ Agree(g, q, h, w)
               => /\ h = Append(g, h[Len(q) + 1])
                  /\ Len(q) + 1 \in DOMAIN w /\ w[Len(q) + 1] = x
        BY Mapped
      <3> QED BY <2>1, <2>3, <2>6, <3>1, Zenon
    <2>5. Users(f)[Len(u) + 1] = x.username
      BY <1>1, <2>4
    <2> QED BY <1>1, <1>4, <2>4, <2>5
  <1> QED BY <1>3, <1>4

LEMMA NoUsers == Users(<<>>) = <<>>
  BY NoMatching DEF Users

SmbOK(l, r, e, p) ==
    /\ Heard(Chunks.smb, l, r, e, p)
    /\ Users(e) = Through(UserOf, Selected(r, HashLines))
    /\ Len(e) <= Len(r) /\ p = <<>>

SmbInv ==
    server = "smb" => Rows /\ \A c \in Conns : SmbOK(link[c], read[c], events[c], replies[c])

LEMMA SmbStarts == Init /\ server = "smb" => SmbInv
  <1> SUFFICES ASSUME Init, server = "smb" PROVE SmbInv
    OBVIOUS
  <1>1. Smb!Init
    BY DEF Init
  <1>2. /\ link = [c \in Conns |-> "none"] /\ read = [c \in Conns |-> <<>>]
        /\ events = [c \in Conns |-> <<>>] /\ replies = [c \in Conns |-> <<>>]
    BY <1>1 DEF Smb!Init, Smb!TcpInit, Smb!ConnectionsInit
  <1>3. Rows
    BY <1>2, Starting, Zenon DEF Rows
  <1>4. SmbOK("none", <<>>, <<>>, <<>>)
    <2>1. Heard(Chunks.smb, "none", <<>>, <<>>, <<>>)
      BY Unheard DEF Links
    <2>2. Users(<<>>) = Through(UserOf, Selected(<<>>, HashLines)) /\ Len(<<>>) = 0 /\ 0 <= 0
      BY NoUsers, SelectedNone, ThroughNone, NoEntries
    <2> QED BY <2>1, <2>2, Zenon DEF SmbOK
  <1>5. ASSUME NEW c \in Conns PROVE SmbOK(link[c], read[c], events[c], replies[c])
    <2>1. link[c] = "none" /\ read[c] = <<>> /\ events[c] = <<>> /\ replies[c] = <<>>
      BY <1>2
    <2> QED BY <1>4, <2>1, Zenon
  <1> QED BY <1>3, <1>5 DEF SmbInv

\* What is logged of a line.
SmbEntry(line) ==
    IF line.kind = "hash" THEN [action |-> "login", username |-> line.user[1]]
    ELSE [action |-> "connection"]

SmbReads(c, line) ==
    \/ line.kind = "connection" /\ Reads(c, line, "open", Append(events[c], SmbEntry(line)), replies[c])
    \/ line \in HashLines /\ Reads(c, line, "open", Append(events[c], SmbEntry(line)), replies[c])
    \/ line \notin HashLines /\ Reads(c, line, "open", events[c], replies[c])

LEMMA SmbNexts ==
    ASSUME SmbInv, server = "smb", Smb!SmbNext, server' = server
    PROVE  \E c \in Conns :
              ComesUnlogged(c) \/ Goes(c) \/ \E line \in Chunks.smb : SmbReads(c, line)
  <1>0. Rows /\ \A c \in Conns : IsLog(events[c])
    BY DEF SmbInv, SmbOK, Heard
  <1>1. PICK c \in Conns : \/ Smb!ConnectionMadeUnlogged(c) \/ Smb!Lost(c)
                           \/ \E line \in Chunks.smb :
                                 \/ Smb!ConnectionLine(c, line) \/ Smb!HashLine(c, line)
                                 \/ Smb!OtherLine(c, line)
    BY DEF Smb!SmbNext
  <1>2. CASE Smb!ConnectionMadeUnlogged(c)
    <2>1. /\ link[c] = "none" /\ link' = [link EXCEPT ![c] = "open"]
          /\ read' = read /\ events' = events /\ replies' = replies
      BY <1>2 DEF Smb!ConnectionMadeUnlogged
    <2> QED BY <1>0, <2>1, Changed, Kept DEF Rows, ComesUnlogged, Steps
  <1>3. CASE Smb!Lost(c)
    <2>1. /\ link[c] \in {"open", "closing"} /\ link' = [link EXCEPT ![c] = "lost"]
          /\ read' = read /\ events' = events /\ replies' = replies
      BY <1>3 DEF Smb!Lost, Smb!ConnectionLost
    <2> QED BY <1>0, <2>1, Changed, Kept DEF Rows, Goes, Steps
  <1>4. ASSUME NEW line \in Chunks.smb, Smb!ConnectionLine(c, line)
        PROVE  SmbReads(c, line)
    <2> DEFINE x == SmbEntry(line)
    <2>1. /\ link[c] = "open" /\ link' = link
          /\ read' = [read EXCEPT ![c] = Append(@, line)]
          /\ events' = [events EXCEPT ![c] = Append(@, x)]
          /\ replies' = replies /\ line.kind = "connection"
      BY <1>4 DEF Smb!ConnectionLine, Smb!Received, Smb!Log, Smb!Connection, SmbEntry
    <2> HIDE DEF x
    <2>2. Reads(c, line, "open", Append(events[c], x), replies[c])
      BY <1>0, <2>1, Changed, Kept DEF Rows, Reads, Steps
    <2> QED BY <2>1, <2>2 DEF SmbReads, x
  <1>5. ASSUME NEW line \in Chunks.smb, Smb!HashLine(c, line)
        PROVE  SmbReads(c, line)
    <2> DEFINE x == SmbEntry(line)
    <2>1. CASE line \in HashLines
      <3>1. /\ link[c] = "open" /\ link' = link
            /\ read' = [read EXCEPT ![c] = Append(@, line)]
            /\ events' = [events EXCEPT ![c] = @ \o <<x>>]
            /\ replies' = replies
        BY <1>5, <2>1 DEF Smb!HashLine, Smb!Received, Smb!LogAll, SmbEntry, HashLines
      <3> HIDE DEF x
      <3>2. events[c] \o <<x>> = Append(events[c], x)
        BY <1>0, LogConcat
      <3>3. Reads(c, line, "open", Append(events[c], x), replies[c])
        BY <1>0, <3>1, <3>2, Changed, Kept DEF Rows, Reads, Steps
      <3> QED BY <2>1, <3>3 DEF SmbReads, x
    <2>2. CASE line \notin HashLines
      <3>1. /\ link[c] = "open" /\ link' = link
            /\ read' = [read EXCEPT ![c] = Append(@, line)]
            /\ events' = [events EXCEPT ![c] = @ \o <<>>]
            /\ replies' = replies
        BY <1>5, <2>2 DEF Smb!HashLine, Smb!Received, Smb!LogAll, HashLines
      <3>2. events[c] \o <<>> = events[c]
        BY <1>0, LogConcat, NoEntries
      <3>3. Reads(c, line, "open", events[c], replies[c])
        BY <1>0, <3>1, <3>2, Changed, Kept DEF Rows, Reads, Steps
      <3> QED BY <2>2, <3>3 DEF SmbReads
    <2> QED BY <2>1, <2>2
  <1>6. ASSUME NEW line \in Chunks.smb, Smb!OtherLine(c, line)
        PROVE  SmbReads(c, line)
    <2>1. /\ link[c] = "open" /\ link' = link
          /\ read' = [read EXCEPT ![c] = Append(@, line)]
          /\ events' = events /\ replies' = replies /\ line \notin HashLines
      BY <1>6 DEF Smb!OtherLine, Smb!Received, HashLines
    <2>2. Reads(c, line, "open", events[c], replies[c])
      BY <1>0, <2>1, Changed, Kept DEF Rows, Reads, Steps
    <2> QED BY <2>1, <2>2 DEF SmbReads
  <1> QED BY <1>1, <1>2, <1>3, <1>4, <1>5, <1>6

\* A line was read: what is known, whatever is logged of it.
LEMMA SmbHears ==
    ASSUME NEW r, NEW e, NEW p, SmbOK("open", r, e, p), NEW line \in Chunks.smb
    PROVE  /\ line.kind = "connection" =>
                 SmbOK("open", Append(r, line), Append(e, SmbEntry(line)), p)
           /\ line \in HashLines => SmbOK("open", Append(r, line), Append(e, SmbEntry(line)), p)
           /\ line \notin HashLines => SmbOK("open", Append(r, line), e, p)
  <1> DEFINE t == Append(r, line)
             x == SmbEntry(line)
             f == Append(e, x)
  <1>1. /\ r \in Seq(Chunks.smb) /\ IsLog(r) /\ IsLog(e) /\ IsLog(p)
        /\ Users(e) = Through(UserOf, Selected(r, HashLines)) /\ Len(e) <= Len(r) /\ p = <<>>
    BY DEF SmbOK, Heard
  <1>2. /\ t \in Seq(Chunks.smb) /\ IsLog(t) /\ Len(r) \in Nat /\ Len(t) = Len(r) + 1
        /\ IsLog(f) /\ Len(e) \in Nat /\ Len(f) = Len(e) + 1
    BY <1>1, AppendProperties, LogAppend
  <1>3. /\ line \in HashLines => Selected(t, HashLines) = Append(Selected(r, HashLines), line)
        /\ line \notin HashLines => Selected(t, HashLines) = Selected(r, HashLines)
        /\ IsLog(Selected(r, HashLines))
    BY <1>1, SelectedMore
  <1>4. Through(UserOf, Append(Selected(r, HashLines), line)) =
            Append(Through(UserOf, Selected(r, HashLines)), line.user[1])
    <2>1. UserOf[line] = line.user[1]
      BY DEF UserOf
    <2> QED BY <1>3, <2>1, ThroughMore
  <1>5. /\ x.action = "login" => Users(f) = Append(Users(e), x.username)
        /\ x.action # "login" => Users(f) = Users(e)
    BY <1>1, UsersMore
  <1>6. /\ line \in HashLines => x.action = "login" /\ x.username = line.user[1]
        /\ line.kind = "connection" => x.action # "login" /\ line \notin HashLines
    BY DEF SmbEntry, HashLines
  <1> HIDE DEF t, x, f
  <1>7. Heard(Chunks.smb, "open", t, f, p) /\ Heard(Chunks.smb, "open", t, e, p)
    BY <1>1, <1>2 DEF Heard, Links
  <1>8. Len(f) <= Len(t) /\ Len(e) <= Len(t)
    BY <1>1, <1>2
  <1>9. line.kind = "connection" => SmbOK("open", t, f, p)
    BY <1>1, <1>3, <1>5, <1>6, <1>7, <1>8, Zenon DEF SmbOK
  <1>10. line \in HashLines => SmbOK("open", t, f, p)
    BY <1>1, <1>3, <1>4, <1>5, <1>6, <1>7, <1>8, Zenon DEF SmbOK
  <1>11. line \notin HashLines => SmbOK("open", t, e, p)
    BY <1>1, <1>3, <1>7, <1>8, Zenon DEF SmbOK
  <1> QED BY <1>9, <1>10, <1>11 DEF t, x, f

LEMMA SmbSteps ==
    ASSUME SmbInv, server = "smb", Smb!SmbNext, server' = server
    PROVE  SmbInv'
  <1>0. Rows /\ \A d \in Conns : SmbOK(link[d], read[d], events[d], replies[d])
    BY DEF SmbInv
  <1>1. PICK c \in Conns :
              ComesUnlogged(c) \/ Goes(c) \/ \E line \in Chunks.smb : SmbReads(c, line)
    BY SmbNexts
  <1>2. SmbOK(link[c], read[c], events[c], replies[c])
    BY <1>0
  <1>3. CASE ComesUnlogged(c)
    <2>1. SmbOK("open", read[c], events[c], replies[c])
      BY <1>2, <1>3 DEF SmbOK, Heard, Links, ComesUnlogged
    <2> QED BY <1>0, <1>3, <2>1, Stepped DEF ComesUnlogged, SmbInv
  <1>4. CASE Goes(c)
    <2>1. SmbOK("lost", read[c], events[c], replies[c])
      BY <1>2, <1>4 DEF SmbOK, Heard, Links, Goes
    <2> QED BY <1>0, <1>4, <2>1, Stepped DEF Goes, SmbInv
  <1>5. ASSUME NEW line \in Chunks.smb, SmbReads(c, line)
        PROVE  SmbInv'
    <2>1. link[c] = "open"
      BY <1>5 DEF SmbReads, Reads
    <2>2. SmbOK("open", read[c], events[c], replies[c])
      BY <1>2, <2>1
    <2>3. \E f : Reads(c, line, "open", f, replies[c]) /\ SmbOK("open", Append(read[c], line), f, replies[c])
      <3>1. /\ line.kind = "connection" =>
                  SmbOK("open", Append(read[c], line), Append(events[c], SmbEntry(line)), replies[c])
            /\ line \in HashLines =>
                  SmbOK("open", Append(read[c], line), Append(events[c], SmbEntry(line)), replies[c])
            /\ line \notin HashLines =>
                  SmbOK("open", Append(read[c], line), events[c], replies[c])
        BY <2>2, SmbHears
      <3> QED BY <1>5, <3>1, Zenon DEF SmbReads
    <2> QED BY <1>0, <2>3, Stepped DEF Reads, SmbInv
  <1> QED BY <1>1, <1>3, <1>4, <1>5

\* The invariant says what SmbTypeOK and HashesAreLogged say.
LEMMA SmbSays ==
    ASSUME SmbInv, server = "smb"
    PROVE  Smb!SmbTypeOK /\ Smb!HashesAreLogged
  <1>0. Rows /\ \A c \in Conns : SmbOK(link[c], read[c], events[c], replies[c])
    BY DEF SmbInv
  <1>1. link \in [Conns -> Links]
    BY <1>0 DEF Rows, IsRow, SmbOK, Heard
  <1>2. Smb!SmbTypeOK
    <2>1. ASSUME NEW c \in Conns
          PROVE  read[c] \in Seq(Chunks.smb) /\ Len(replies[c]) <= Len(read[c]) /\ Len(events[c]) <= Len(read[c])
      <3>1. read[c] \in Seq(Chunks.smb) /\ Len(events[c]) <= Len(read[c]) /\ replies[c] = <<>>
        BY <1>0 DEF SmbOK, Heard
      <3>2. Len(read[c]) \in Nat /\ Len(<<>>) = 0
        BY <3>1
      <3> QED BY <3>1, <3>2
    <2> QED BY <1>1, <2>1 DEF Smb!SmbTypeOK, Smb!QueriesTypeOK, Links
  <1>3. ASSUME NEW c \in Conns
        PROVE  [i \in DOMAIN Smb!Logins(c) |-> Smb!Logins(c)[i].username] = Users(events[c])
    <2>1. Smb!Logins(c) = Matching(events[c], "login")
      BY DEF Smb!Logins, Smb!Matching, Matching, Smb!Positions, Positions, Smb!At, At
    <2> QED BY <2>1, Zenon DEF Users
  <1>4. ASSUME NEW c \in Conns,
               NEW hashes, hashes = Smb!At(read[c], {i \in DOMAIN read[c] :
                                       read[c][i].kind = "hash" /\ Len(read[c][i].user) = 1})
        PROVE  [i \in DOMAIN hashes |-> hashes[i].user[1]] = Through(UserOf, Selected(read[c], HashLines))
    <2> DEFINE s == Selected(read[c], HashLines)
    <2>1. read[c] \in Seq(Chunks.smb)
      BY <1>0 DEF SmbOK, Heard
    <2>2. \A i \in DOMAIN read[c] : read[c][i] \in Chunks.smb
      BY <2>1
    <2>3. {i \in DOMAIN read[c] : read[c][i].kind = "hash" /\ Len(read[c][i].user) = 1} =
          {i \in DOMAIN read[c] : read[c][i] \in HashLines}
      BY <2>2 DEF HashLines
    <2>4. hashes = s
      BY <1>4, <2>3 DEF Selected, Smb!At, At
    <2>5. s \in Seq(Chunks.smb)
      BY <2>1, AtType DEF Selected
    <2> HIDE DEF s
    <2>6. \A i \in DOMAIN s : UserOf[s[i]] = s[i].user[1]
      BY <2>5 DEF UserOf
    <2> QED BY <2>4, <2>6 DEF s, Through
  <1>5. Smb!HashesAreLogged
    <2>1. ASSUME NEW c \in Conns PROVE Users(events[c]) = Through(UserOf, Selected(read[c], HashLines))
      BY <1>0 DEF SmbOK
    <2> QED BY <1>3, <1>4, <2>1 DEF Smb!HashesAreLogged
  <1> QED BY <1>2, <1>5

-------------------------------------------------------------------------------
(* snmp *)

\* What may be logged of a datagram; and the datagrams and the entries with a community
\* that says something.
Parses == {Snmp!ParseSnmp(datagram) : datagram \in Chunks.snmp}
Naming == {d \in Chunks.snmp : d.kind = "snmp" /\ d.community \notin {"", "UnKnown"}}
Telling == {y \in Parses : y[2] \notin {"", "UnKnown"}}
CommunityIn == [d \in Chunks.snmp |-> d.community]
CommunityOf == [y \in Parses |-> y[2]]

SnmpOK(l, r, e, p) ==
    /\ Heard(Chunks.snmp, l, r, e, p) /\ l = "open"
    /\ Data(e, "query") \in Seq(Parses) /\ Len(Data(e, "query")) = Len(p)
    /\ Len(Matching(e, "connection")) = Len(r)
    /\ Len(e) <= 2 * Len(r) /\ Len(p) <= Len(r)
    /\ Through(CommunityOf, Selected(Data(e, "query"), Telling)) =
       Through(CommunityIn, Selected(r, Naming))

SnmpInv ==
    server = "snmp" => Rows /\ \A c \in Conns : SnmpOK(link[c], read[c], events[c], replies[c])

LEMMA SnmpStarts == Init /\ server = "snmp" => SnmpInv
  <1> SUFFICES ASSUME Init, server = "snmp" PROVE SnmpInv
    OBVIOUS
  <1>1. Snmp!Init
    BY DEF Init
  <1>2. /\ link = [c \in Conns |-> "open"] /\ read = [c \in Conns |-> <<>>]
        /\ events = [c \in Conns |-> <<>>] /\ replies = [c \in Conns |-> <<>>]
    BY <1>1 DEF Snmp!Init, Snmp!UdpInit
  <1>3. Rows
    BY <1>2, Starting, Zenon DEF Rows
  <1>4. SnmpOK("open", <<>>, <<>>, <<>>)
    <2>1. Heard(Chunks.snmp, "open", <<>>, <<>>, <<>>)
      BY Unheard DEF Links
    <2>2. /\ Data(<<>>, "query") = <<>> /\ <<>> \in Seq(Parses)
          /\ Len(<<>>) = 0 /\ 0 <= 0 /\ 0 <= 2 * 0 /\ Matching(<<>>, "connection") = <<>>
      BY NoEntries, NoMatching, EmptySeq
    <2>3. Through(CommunityOf, Selected(<<>>, Telling)) = Through(CommunityIn, Selected(<<>>, Naming))
      BY SelectedNone, ThroughNone
    <2> QED BY <2>1, <2>2, <2>3, Zenon DEF SnmpOK
  <1>5. ASSUME NEW c \in Conns PROVE SnmpOK(link[c], read[c], events[c], replies[c])
    <2>1. link[c] = "open" /\ read[c] = <<>> /\ events[c] = <<>> /\ replies[c] = <<>>
      BY <1>2
    <2> QED BY <1>4, <2>1, Zenon
  <1> QED BY <1>3, <1>5 DEF SnmpInv

SnmpEntry(datagram) == [action |-> "query", data |-> Snmp!ParseSnmp(datagram)]

\* The datagrams of which nothing is found.
Nothings ==
    {d \in Chunks.snmp : d.kind = "raising" \/ (d.kind = "snmp" /\ Snmp!FoundNothing(d))}

\* Those that are answered.
Somethings ==
    {d \in Chunks.snmp : d.kind = "malformed" \/ (d.kind = "snmp" /\ ~Snmp!FoundNothing(d))}

LEMMA SnmpNexts ==
    ASSUME SnmpInv, server = "snmp", Snmp!SnmpNext, server' = server
    PROVE  \E c \in Conns :
              \/ \E d \in Somethings :
                    Reads(c, d, "open", events[c] \o <<[action |-> "connection"], SnmpEntry(d)>>,
                          Append(replies[c], "Error"))
              \/ \E d \in Nothings :
                    Reads(c, d, "open", Append(events[c], [action |-> "connection"]), replies[c])
  <1>0. Rows
    BY DEF SnmpInv
  <1>1. PICK c \in Conns : \E d \in Chunks.snmp : Snmp!Answered(c, d) \/ Snmp!Ignored(c, d)
    BY DEF Snmp!SnmpNext
  <1>2. ASSUME NEW d \in Chunks.snmp, Snmp!Answered(c, d)
        PROVE  /\ d \in Somethings
               /\ Reads(c, d, "open", events[c] \o <<[action |-> "connection"], SnmpEntry(d)>>,
                        Append(replies[c], "Error"))
    <2> DEFINE es == <<[action |-> "connection"], SnmpEntry(d)>>
    <2>1. /\ link[c] = "open" /\ link' = link
          /\ read' = [read EXCEPT ![c] = Append(@, d)]
          /\ events' = [events EXCEPT ![c] = @ \o es]
          /\ replies' = [replies EXCEPT ![c] = Append(@, "Error")]
      BY <1>2 DEF Snmp!Answered, Snmp!Received, Snmp!LogAll, Snmp!Reply, Snmp!Connection, Snmp!Query,
                  SnmpEntry
    <2>2. d \in Somethings
      BY <1>2 DEF Snmp!Answered, Somethings
    <2> HIDE DEF es
    <2>3. Reads(c, d, "open", events[c] \o es, Append(replies[c], "Error"))
      BY <1>0, <2>1, Changed, Kept DEF Rows, Reads, Steps
    <2> QED BY <2>2, <2>3 DEF es
  <1>3. ASSUME NEW d \in Chunks.snmp, Snmp!Ignored(c, d)
        PROVE  /\ d \in Nothings
               /\ Reads(c, d, "open", Append(events[c], [action |-> "connection"]), replies[c])
    <2>1. /\ link[c] = "open" /\ link' = link
          /\ read' = [read EXCEPT ![c] = Append(@, d)]
          /\ events' = [events EXCEPT ![c] = Append(@, [action |-> "connection"])]
          /\ replies' = replies
      BY <1>3 DEF Snmp!Ignored, Snmp!Received, Snmp!Log, Snmp!Connection
    <2>2. d \in Nothings
      BY <1>3 DEF Snmp!Ignored, Nothings
    <2>3. Reads(c, d, "open", Append(events[c], [action |-> "connection"]), replies[c])
      BY <1>0, <2>1, Changed, Kept DEF Rows, Reads, Steps
    <2> QED BY <2>2, <2>3
  <1> QED BY <1>1, <1>2, <1>3

\* A datagram of which something is found says as much as what is logged of it.
LEMMA SnmpTells ==
    ASSUME NEW d \in Chunks.snmp
    PROVE  /\ d \in Nothings => d \notin Naming
           /\ d \in Somethings => (d \in Naming <=> Snmp!ParseSnmp(d) \in Telling)
           /\ d \in Naming => Snmp!ParseSnmp(d)[2] = d.community
           /\ Snmp!ParseSnmp(d) \in Parses
  <1>1. Snmp!ParseSnmp(d) \in Parses
    BY DEF Parses
  <1>2. d.kind = "malformed" => Snmp!ParseSnmp(d)[2] = "UnKnown"
    BY DEF Snmp!ParseSnmp
  <1>3. d.kind = "snmp" => Snmp!ParseSnmp(d)[2] = d.community
    BY DEF Snmp!ParseSnmp
  <1>4. d \in Nothings => d \notin Naming
    BY DEF Nothings, Naming, Snmp!FoundNothing
  <1>5. d \in Somethings => (d \in Naming <=> Snmp!ParseSnmp(d) \in Telling)
    BY <1>1, <1>2, <1>3 DEF Somethings, Naming, Telling
  <1>6. d \in Naming => Snmp!ParseSnmp(d)[2] = d.community
    BY <1>3 DEF Naming
  <1> QED BY <1>1, <1>4, <1>5, <1>6

\* A datagram was answered.
LEMMA SnmpAnswers ==
    ASSUME NEW r, NEW e, NEW p, SnmpOK("open", r, e, p), NEW d \in Somethings, NEW answer
    PROVE  SnmpOK("open", Append(r, d), e \o <<[action |-> "connection"], SnmpEntry(d)>>,
                  Append(p, answer))
  <1> DEFINE t == Append(r, d)
             f == e \o <<[action |-> "connection"], SnmpEntry(d)>>
             q == Append(p, answer)
             y == Snmp!ParseSnmp(d)
             u == Data(e, "query")
             v == Data(f, "query")
  <1>1. /\ r \in Seq(Chunks.snmp) /\ IsLog(r) /\ IsLog(e) /\ IsLog(p)
        /\ u \in Seq(Parses) /\ Len(u) = Len(p)
        /\ Len(Matching(e, "connection")) = Len(r) /\ Len(e) <= 2 * Len(r) /\ Len(p) <= Len(r)
        /\ Through(CommunityOf, Selected(u, Telling)) = Through(CommunityIn, Selected(r, Naming))
    BY DEF SnmpOK, Heard
  <1>2. d \in Chunks.snmp
    BY DEF Somethings
  <1>3. /\ t \in Seq(Chunks.snmp) /\ IsLog(t) /\ Len(r) \in Nat /\ Len(t) = Len(r) + 1
        /\ IsLog(q) /\ Len(p) \in Nat /\ Len(q) = Len(p) + 1
    BY <1>1, <1>2, AppendProperties, LogAppend
  <1>4. /\ IsLog(f) /\ Len(e) \in Nat /\ Len(f) = Len(e) + 2
        /\ v = Append(u, y)
        /\ Len(Matching(f, "connection")) = Len(Matching(e, "connection")) + 1
    <2> DEFINE x == SnmpEntry(d)
    <2>1. x.action = "query" /\ x.data = y /\ f = e \o <<[action |-> "connection"], x>>
      BY DEF SnmpEntry
    <2> HIDE DEF x, f, t, q, y
    <2>2. /\ IsLog(f) /\ Len(e) \in Nat /\ Len(f) = Len(e) + 2
          /\ v = Append(u, x.data)
          /\ Len(Matching(f, "connection")) = Len(Matching(e, "connection")) + 1
      BY <1>1, <2>1, QueryLogged
    <2> QED BY <2>1, <2>2
  <1>5. /\ d \in Naming <=> y \in Telling
        /\ d \in Naming => y[2] = d.community
        /\ y \in Parses
    BY <1>2, SnmpTells
  <1> HIDE DEF t, f, q, y, u, v
  <1>6. IsLog(u)
    BY <1>1 DEF IsLog
  <1>7. v \in Seq(Parses) /\ Len(v) = Len(u) + 1
    BY <1>1, <1>4, <1>5, AppendProperties
  <1>8. Through(CommunityOf, Selected(v, Telling)) = Through(CommunityIn, Selected(t, Naming))
    <2>1. /\ y \in Telling => Selected(v, Telling) = Append(Selected(u, Telling), y)
          /\ y \notin Telling => Selected(v, Telling) = Selected(u, Telling)
          /\ IsLog(Selected(u, Telling))
      BY <1>4, <1>6, SelectedMore
    <2>2. /\ d \in Naming => Selected(t, Naming) = Append(Selected(r, Naming), d)
          /\ d \notin Naming => Selected(t, Naming) = Selected(r, Naming)
          /\ IsLog(Selected(r, Naming))
      BY <1>1, SelectedMore DEF t
    <2>3. CASE d \in Naming
      <3>1. /\ Through(CommunityOf, Selected(v, Telling)) =
                  Append(Through(CommunityOf, Selected(u, Telling)), CommunityOf[y])
            /\ Through(CommunityIn, Selected(t, Naming)) =
                  Append(Through(CommunityIn, Selected(r, Naming)), CommunityIn[d])
        BY <1>5, <2>1, <2>2, <2>3, ThroughMore
      <3>2. CommunityOf[y] = CommunityIn[d]
        BY <1>2, <1>5, <2>3 DEF CommunityOf, CommunityIn
      <3> QED BY <1>1, <3>1, <3>2
    <2>4. CASE d \notin Naming
      BY <1>1, <1>5, <2>1, <2>2, <2>4
    <2> QED BY <2>3, <2>4
  <1>9. Heard(Chunks.snmp, "open", t, f, q)
    BY <1>3, <1>4 DEF Heard, Links
  <1>10. /\ Len(v) = Len(q) /\ Len(Matching(f, "connection")) = Len(t)
         /\ Len(f) <= 2 * Len(t) /\ Len(q) <= Len(t)
    BY <1>1, <1>3, <1>4, <1>7
  <1> QED BY <1>7, <1>8, <1>9, <1>10 DEF SnmpOK, t, f, q, v

\* Nothing was found in a datagram.
LEMMA SnmpIgnores ==
    ASSUME NEW r, NEW e, NEW p, SnmpOK("open", r, e, p), NEW d \in Nothings
    PROVE  SnmpOK("open", Append(r, d), Append(e, [action |-> "connection"]), p)
  <1> DEFINE t == Append(r, d)
             f == Append(e, [action |-> "connection"])
             u == Data(e, "query")
  <1>1. /\ r \in Seq(Chunks.snmp) /\ IsLog(r) /\ IsLog(e) /\ IsLog(p)
        /\ u \in Seq(Parses) /\ Len(u) = Len(p)
        /\ Len(Matching(e, "connection")) = Len(r) /\ Len(e) <= 2 * Len(r) /\ Len(p) <= Len(r)
        /\ Through(CommunityOf, Selected(u, Telling)) = Through(CommunityIn, Selected(r, Naming))
    BY DEF SnmpOK, Heard
  <1>2. d \in Chunks.snmp
    BY DEF Nothings
  <1>3. /\ t \in Seq(Chunks.snmp) /\ IsLog(t) /\ Len(r) \in Nat /\ Len(t) = Len(r) + 1
        /\ Len(p) \in Nat
    BY <1>1, <1>2, AppendProperties, LogAppend
  <1>4. /\ IsLog(f) /\ Len(e) \in Nat /\ Len(f) = Len(e) + 1
        /\ Len(Matching(f, "connection")) = Len(Matching(e, "connection")) + 1
        /\ Matching(f, "query") = Matching(e, "query")
    BY <1>1, ConnectionLogged
  <1>5. Data(f, "query") = u
    BY <1>4, Zenon DEF Data
  <1>6. Selected(t, Naming) = Selected(r, Naming)
    BY <1>1, <1>2, SnmpTells, SelectedMore
  <1> HIDE DEF t, f, u
  <1>7. Heard(Chunks.snmp, "open", t, f, p)
    BY <1>1, <1>3, <1>4 DEF Heard, Links
  <1>8. /\ Len(Matching(f, "connection")) = Len(t) /\ Len(f) <= 2 * Len(t) /\ Len(p) <= Len(t)
    BY <1>1, <1>3, <1>4
  <1> QED BY <1>1, <1>5, <1>6, <1>7, <1>8 DEF SnmpOK, t, f

LEMMA SnmpSteps ==
    ASSUME SnmpInv, server = "snmp", Snmp!SnmpNext, server' = server
    PROVE  SnmpInv'
  <1>0. Rows /\ \A d \in Conns : SnmpOK(link[d], read[d], events[d], replies[d])
    BY DEF SnmpInv
  <1>1. PICK c \in Conns :
              \/ \E d \in Somethings :
                    Reads(c, d, "open", events[c] \o <<[action |-> "connection"], SnmpEntry(d)>>,
                          Append(replies[c], "Error"))
              \/ \E d \in Nothings :
                    Reads(c, d, "open", Append(events[c], [action |-> "connection"]), replies[c])
    BY SnmpNexts
  <1>2. SnmpOK("open", read[c], events[c], replies[c])
    BY <1>0 DEF SnmpOK
  <1>3. \E d, f, q : Reads(c, d, "open", f, q) /\ SnmpOK("open", Append(read[c], d), f, q)
    <2>1. ASSUME NEW d \in Somethings,
                 Reads(c, d, "open", events[c] \o <<[action |-> "connection"], SnmpEntry(d)>>,
                       Append(replies[c], "Error"))
          PROVE  \E f, q : Reads(c, d, "open", f, q) /\ SnmpOK("open", Append(read[c], d), f, q)
      BY <1>2, <2>1, SnmpAnswers, Zenon
    <2>2. ASSUME NEW d \in Nothings,
                 Reads(c, d, "open", Append(events[c], [action |-> "connection"]), replies[c])
          PROVE  \E f, q : Reads(c, d, "open", f, q) /\ SnmpOK("open", Append(read[c], d), f, q)
      <3>1. SnmpOK("open", Append(read[c], d), Append(events[c], [action |-> "connection"]), replies[c])
        BY <1>2, SnmpIgnores
      <3> QED BY <2>2, <3>1
    <2> QED BY <1>1, <2>1, <2>2
  <1> QED BY <1>0, <1>3, Stepped DEF Reads, SnmpInv

\* The invariant says what SnmpTypeOK and CommunitiesAreLogged say.
LEMMA SnmpSays ==
    ASSUME SnmpInv, server = "snmp"
    PROVE  Snmp!SnmpTypeOK /\ Snmp!CommunitiesAreLogged
  <1>0. Rows /\ \A c \in Conns : SnmpOK(link[c], read[c], events[c], replies[c])
    BY DEF SnmpInv
  <1>1. link \in [Conns -> Links]
    BY <1>0 DEF Rows, IsRow, SnmpOK, Heard
  <1>2. Snmp!SnmpTypeOK
    BY <1>0, <1>1 DEF Snmp!SnmpTypeOK, Snmp!QueriesTypeOK, Links, SnmpOK, Heard
  <1>3. ASSUME NEW c \in Conns
        PROVE  /\ Snmp!Queried(c) = Data(events[c], "query")
               /\ Snmp!Matching(events[c], "connection") = Matching(events[c], "connection")
    BY DEF Snmp!Queried, Snmp!Matching, Matching, Snmp!Positions, Positions, Snmp!At, At, Data
  <1>4. ASSUME NEW c \in Conns
        PROVE  Snmp!At(read[c], {i \in DOMAIN read[c] :
                                     /\ read[c][i].kind = "snmp"
                                     /\ read[c][i].community \notin {"", "UnKnown"}}) =
               Selected(read[c], Naming)
    <2>1. read[c] \in Seq(Chunks.snmp)
      BY <1>0 DEF SnmpOK, Heard
    <2>2. \A i \in DOMAIN read[c] : read[c][i] \in Chunks.snmp
      BY <2>1
    <2>3. {i \in DOMAIN read[c] : /\ read[c][i].kind = "snmp"
                                  /\ read[c][i].community \notin {"", "UnKnown"}} =
          {i \in DOMAIN read[c] : read[c][i] \in Naming}
      BY <2>2 DEF Naming
    <2> QED BY <2>3 DEF Selected, Snmp!At, At
  <1>5. ASSUME NEW c \in Conns
        PROVE  Snmp!At(Snmp!Queried(c),
                       {i \in DOMAIN Snmp!Queried(c) : Snmp!Queried(c)[i][2] \notin {"", "UnKnown"}}) =
               Selected(Data(events[c], "query"), Telling)
    <2> DEFINE u == Snmp!Queried(c)
    <2>1. u \in Seq(Parses) /\ u = Data(events[c], "query")
      BY <1>0, <1>3 DEF SnmpOK
    <2> HIDE DEF u
    <2>2. \A i \in DOMAIN u : u[i] \in Parses
      BY <2>1
    <2>3. {i \in DOMAIN u : u[i][2] \notin {"", "UnKnown"}} = {i \in DOMAIN u : u[i] \in Telling}
      BY <2>2 DEF Telling
    <2>4. Snmp!At(u, {i \in DOMAIN u : u[i][2] \notin {"", "UnKnown"}}) = Selected(u, Telling)
      BY <2>3 DEF Selected, Snmp!At, At
    <2> QED BY <2>1, <2>4 DEF u
  <1>6. ASSUME NEW c \in Conns,
               NEW found, found = Selected(Data(events[c], "query"), Telling),
               NEW named, named = Selected(read[c], Naming)
        PROVE  [i \in DOMAIN found |-> found[i][2]] = [i \in DOMAIN named |-> named[i].community]
    <2>1. /\ read[c] \in Seq(Chunks.snmp) /\ Data(events[c], "query") \in Seq(Parses)
          /\ Through(CommunityOf, found) = Through(CommunityIn, named)
      BY <1>0, <1>6 DEF SnmpOK, Heard
    <2>2. found \in Seq(Parses) /\ named \in Seq(Chunks.snmp)
      BY <1>6, <2>1, AtType DEF Selected
    <2>3. /\ \A i \in DOMAIN found : CommunityOf[found[i]] = found[i][2]
          /\ \A i \in DOMAIN named : CommunityIn[named[i]] = named[i].community
      BY <2>2 DEF CommunityOf, CommunityIn
    <2>4. Through(CommunityOf, found) = [i \in DOMAIN found |-> found[i][2]]
      BY <2>3 DEF Through
    <2>5. Through(CommunityIn, named) = [i \in DOMAIN named |-> named[i].community]
      BY <2>3 DEF Through
    <2> QED BY <2>1, <2>4, <2>5
  <1>7. ASSUME NEW c \in Conns
        PROVE  /\ Len(Snmp!Matching(events[c], "connection")) = Len(read[c])
               /\ Len(Snmp!Queried(c)) = Len(replies[c])
    BY <1>0, <1>3 DEF SnmpOK
  <1>8. Snmp!CommunitiesAreLogged
    <2> DEFINE Named(c) == Snmp!At(read[c], {i \in DOMAIN read[c] :
                                     /\ read[c][i].kind = "snmp"
                                     /\ read[c][i].community \notin {"", "UnKnown"}})
               Found(c) == Snmp!At(Snmp!Queried(c),
                       {i \in DOMAIN Snmp!Queried(c) : Snmp!Queried(c)[i][2] \notin {"", "UnKnown"}})
    <2>1. \A c \in Conns : [i \in DOMAIN Found(c) |-> Found(c)[i][2]] =
                            [i \in DOMAIN Named(c) |-> Named(c)[i].community]
      <3>1. \A c \in Conns : /\ Named(c) = Selected(read[c], Naming)
                              /\ Found(c) = Selected(Data(events[c], "query"), Telling)
        BY <1>4, <1>5
      <3> HIDE DEF Named, Found
      <3> QED BY <1>6, <3>1
    <2> QED BY <1>7, <2>1, Zenon DEF Snmp!CommunitiesAreLogged
  <1> QED BY <1>2, <1>8

-------------------------------------------------------------------------------
(* ntp *)

FoundIn == [d \in Chunks.ntp |-> Ntp!Found(d)]
Successes(queries) == {i \in DOMAIN queries : queries[i].status = "success"}

NtpOK(l, r, e, p) ==
    /\ Heard(Chunks.ntp, l, r, e, p) /\ l = "open"
    /\ Len(e) = 2 * Len(r) /\ Len(p) <= Len(r)
    /\ Data(e, "query") = Through(FoundIn, r)
    /\ IsLog(Matching(e, "query")) /\ Len(Matching(e, "query")) = Len(r)
    /\ Cardinality(Successes(Matching(e, "query"))) = Len(p)
    /\ \A i \in Successes(Matching(e, "query")) : r[i].precision \in 0 .. 127

NtpInv ==
    server = "ntp" => Rows /\ \A c \in Conns : NtpOK(link[c], read[c], events[c], replies[c])

LEMMA NtpStarts == Init /\ server = "ntp" => NtpInv
  <1> SUFFICES ASSUME Init, server = "ntp" PROVE NtpInv
    OBVIOUS
  <1>1. Ntp!Init
    BY DEF Init
  <1>2. /\ link = [c \in Conns |-> "open"] /\ read = [c \in Conns |-> <<>>]
        /\ events = [c \in Conns |-> <<>>] /\ replies = [c \in Conns |-> <<>>]
    BY <1>1 DEF Ntp!Init, Ntp!UdpInit
  <1>3. Rows
    BY <1>2, Starting, Zenon DEF Rows
  <1>4. NtpOK("open", <<>>, <<>>, <<>>)
    <2>1. Heard(Chunks.ntp, "open", <<>>, <<>>, <<>>)
      BY Unheard DEF Links
    <2>2. /\ Data(<<>>, "query") = <<>> /\ Matching(<<>>, "query") = <<>>
          /\ IsLog(<<>>) /\ Len(<<>>) = 0 /\ 0 <= 0 /\ 0 = 2 * 0
      BY NoEntries, NoMatching
    <2>3. Successes(<<>>) = {} /\ Cardinality({}) = 0
      BY FS_EmptySet DEF Successes
    <2> QED BY <2>1, <2>2, <2>3, ThroughNone, Zenon DEF NtpOK
  <1>5. ASSUME NEW c \in Conns PROVE NtpOK(link[c], read[c], events[c], replies[c])
    <2>1. link[c] = "open" /\ read[c] = <<>> /\ events[c] = <<>> /\ replies[c] = <<>>
      BY <1>2
    <2> QED BY <1>4, <2>1, Zenon
  <1> QED BY <1>3, <1>5 DEF NtpInv

NtpEntry(d, era) ==
    [action |-> "query", data |-> Ntp!Found(d), status |-> Ntp!Status(d, era)]

\* What a datagram makes of a log and of the answers.
NtpGives(d, era, e, p, f, q) ==
    /\ f = e \o <<[action |-> "connection"], NtpEntry(d, era)>>
    /\ q = IF Ntp!IsPacked(d, era) THEN Append(p, "time") ELSE p

NtpReads(c, d, era) ==
    \E f, q : Reads(c, d, "open", f, q) /\ NtpGives(d, era, events[c], replies[c], f, q)

LEMMA NtpNexts ==
    ASSUME NtpInv, server = "ntp", Ntp!NtpNext, server' = server
    PROVE  \E c \in Conns : \E d \in Chunks.ntp : \E era : NtpReads(c, d, era)
  <1>0. Rows
    BY DEF NtpInv
  <1>1. PICK c \in Conns : \E d \in Chunks.ntp : \E era : Ntp!TimeAsked(c, d, era)
    BY DEF Ntp!NtpNext
  <1>2. PICK d \in Chunks.ntp : \E era : Ntp!TimeAsked(c, d, era)
    BY <1>1
  <1>3. PICK era : Ntp!TimeAsked(c, d, era)
    BY <1>2
  <1> DEFINE es == <<[action |-> "connection"], NtpEntry(d, era)>>
             p == IF Ntp!IsPacked(d, era) THEN Append(replies[c], "time") ELSE replies[c]
  <1>4. /\ link[c] = "open" /\ link' = link
        /\ read' = [read EXCEPT ![c] = Append(@, d)]
        /\ events' = [events EXCEPT ![c] = @ \o es]
        /\ IF Ntp!IsPacked(d, era) THEN replies' = [replies EXCEPT ![c] = Append(@, "time")]
           ELSE replies' = replies
    BY <1>3 DEF Ntp!TimeAsked, Ntp!Received, Ntp!LogAll, Ntp!Reply, Ntp!Connection, NtpEntry
  <1>5. Sets(replies, replies', c, p)
    BY <1>0, <1>4, Changed, Kept DEF Rows
  <1> HIDE DEF es, p
  <1>6. Reads(c, d, "open", events[c] \o es, p)
    BY <1>0, <1>4, <1>5, Changed, Kept DEF Rows, Reads, Steps
  <1>7. NtpGives(d, era, events[c], replies[c], events[c] \o es, p)
    BY DEF NtpGives, es, p
  <1> QED BY <1>6, <1>7 DEF NtpReads

\* A datagram was read.
LEMMA NtpHears ==
    ASSUME NEW r, NEW e, NEW p, NtpOK("open", r, e, p), NEW d \in Chunks.ntp, NEW era,
           NEW f, NEW q, NtpGives(d, era, e, p, f, q)
    PROVE  NtpOK("open", Append(r, d), f, q)
  <1> DEFINE t == Append(r, d)
             y == NtpEntry(d, era)
             m == Matching(e, "query")
             n == Matching(f, "query")
  <1>1. /\ r \in Seq(Chunks.ntp) /\ IsLog(r) /\ IsLog(e) /\ IsLog(p)
        /\ Len(e) = 2 * Len(r) /\ Len(p) <= Len(r)
        /\ Data(e, "query") = Through(FoundIn, r)
        /\ IsLog(m) /\ Len(m) = Len(r) /\ Cardinality(Successes(m)) = Len(p)
        /\ \A i \in Successes(m) : r[i].precision \in 0 .. 127
    BY DEF NtpOK, Heard
  <1>2. /\ t \in Seq(Chunks.ntp) /\ IsLog(t) /\ Len(r) \in Nat /\ Len(t) = Len(r) + 1
        /\ t[Len(r) + 1] = d /\ \A i \in 1 .. Len(r) : t[i] = r[i]
    BY <1>1, AppendProperties, LogAppend
  <1>3. /\ y.action = "query" /\ y.data = Ntp!Found(d)
        /\ y.status = "success" <=> Ntp!IsPacked(d, era)
        /\ f = e \o <<[action |-> "connection"], y>>
    BY DEF NtpEntry, Ntp!Status, NtpGives
  <1>14. t = Append(r, d)
    OBVIOUS
  <1> HIDE DEF y, t
  <1>4. /\ IsLog(f) /\ Len(e) \in Nat /\ Len(f) = Len(e) + 2
        /\ n = Append(m, y)
        /\ Data(f, "query") = Append(Data(e, "query"), y.data)
    BY <1>1, <1>3, QueryLogged
  <1> HIDE DEF m, n
  <1>5. /\ IsLog(n) /\ Len(m) \in Nat /\ Len(n) = Len(m) + 1
        /\ DOMAIN m = 1 .. Len(m) /\ DOMAIN n = 1 .. Len(m) + 1 /\ n[Len(m) + 1] = y
        /\ \A i \in 1 .. Len(m) : n[i] = m[i]
    BY <1>1, <1>4, LogAppend
  <1>6. /\ IsLog(q) /\ Len(p) \in Nat
        /\ Ntp!IsPacked(d, era) => Len(q) = Len(p) + 1
        /\ ~Ntp!IsPacked(d, era) => q = p
    <2>1. IsLog(Append(p, "time")) /\ Len(p) \in Nat /\ Len(Append(p, "time")) = Len(p) + 1
      BY <1>1, LogAppend
    <2> QED BY <1>1, <2>1 DEF NtpGives
  <1>7. /\ Successes(m) \in SUBSET (1 .. Len(m)) /\ Successes(n) \in SUBSET (1 .. Len(m) + 1)
        /\ \A i \in 1 .. Len(m) : i \in Successes(m) <=> i \in Successes(n)
        /\ Len(m) + 1 \in Successes(n) <=> Ntp!IsPacked(d, era)
    BY <1>3, <1>5 DEF Successes
  <1>8. Cardinality(Successes(n)) =
            IF Ntp!IsPacked(d, era) THEN Cardinality(Successes(m)) + 1 ELSE Cardinality(Successes(m))
    BY <1>5, <1>7, CountMore
  <1>9. Cardinality(Successes(n)) = Len(q)
    BY <1>1, <1>6, <1>8
  <1>10. ASSUME NEW i \in Successes(n) PROVE t[i].precision \in 0 .. 127
    <2>1. i \in 1 .. Len(m) \/ i = Len(m) + 1
      BY <1>5, <1>7
    <2>2. CASE i \in 1 .. Len(m)
      <3>1. i \in Successes(m) /\ t[i] = r[i]
        BY <1>1, <1>2, <1>7, <2>2
      <3> QED BY <1>1, <3>1
    <2>3. CASE i = Len(m) + 1
      <3>1. Ntp!IsPacked(d, era) /\ t[i] = d
        BY <1>1, <1>2, <1>7, <2>3
      <3>2. d.precision < 128 /\ d.precision \in 0 .. 255
        BY <3>1, NtpAssumption DEF Ntp!IsPacked
      <3>3. d.precision \in 0 .. 127
        <4>1. \A x : x < 128 /\ x \in 0 .. 255 => x \in 0 .. 127
          OBVIOUS
        <4> QED BY <3>2, <4>1, Zenon
      <3> QED BY <3>1, <3>3, Zenon
    <2> QED BY <2>1, <2>2, <2>3
  <1>11. Data(f, "query") = Through(FoundIn, t)
    <2>1. FoundIn[d] = Ntp!Found(d)
      BY DEF FoundIn
    <2>2. Through(FoundIn, t) = Append(Through(FoundIn, r), FoundIn[d])
      BY <1>1, <1>14, ThroughMore
    <2> QED BY <1>1, <1>3, <1>4, <2>1, <2>2
  <1>12. Len(f) = 2 * Len(t) /\ Len(q) <= Len(t) /\ Len(n) = Len(t)
    BY <1>1, <1>2, <1>4, <1>5, <1>6
  <1>13. Heard(Chunks.ntp, "open", t, f, q)
    BY <1>2, <1>4, <1>6 DEF Heard, Links
  <1> QED BY <1>5, <1>9, <1>10, <1>11, <1>12, <1>13 DEF NtpOK, n, t

LEMMA NtpSteps ==
    ASSUME NtpInv, server = "ntp", Ntp!NtpNext, server' = server
    PROVE  NtpInv'
  <1>0. Rows /\ \A d \in Conns : NtpOK(link[d], read[d], events[d], replies[d])
    BY DEF NtpInv
  <1>1. PICK c \in Conns : \E d \in Chunks.ntp : \E era : NtpReads(c, d, era)
    BY NtpNexts
  <1>2. PICK d \in Chunks.ntp : \E era : NtpReads(c, d, era)
    BY <1>1
  <1>3. PICK era : NtpReads(c, d, era)
    BY <1>2
  <1>4. NtpOK("open", read[c], events[c], replies[c])
    BY <1>0 DEF NtpOK
  <1>5. PICK f, q : Reads(c, d, "open", f, q) /\ NtpGives(d, era, events[c], replies[c], f, q)
    BY <1>3 DEF NtpReads
  <1>6. NtpOK("open", Append(read[c], d), f, q)
    BY <1>4, <1>5, NtpHears
  <1> QED BY <1>0, <1>5, <1>6, Stepped DEF Reads, NtpInv

\* The invariant says what NtpTypeOK and VersionsAreLogged say.
LEMMA NtpSays ==
    ASSUME NtpInv, server = "ntp"
    PROVE  Ntp!NtpTypeOK /\ Ntp!VersionsAreLogged
  <1>0. Rows /\ \A c \in Conns : NtpOK(link[c], read[c], events[c], replies[c])
    BY DEF NtpInv
  <1>1. link \in [Conns -> Links]
    BY <1>0 DEF Rows, IsRow, NtpOK, Heard
  <1>2. Ntp!NtpTypeOK
    BY <1>0, <1>1 DEF Ntp!NtpTypeOK, Ntp!QueriesTypeOK, Links, NtpOK, Heard
  <1>3. ASSUME NEW c \in Conns
        PROVE  /\ Ntp!Queried(c) = Data(events[c], "query")
               /\ Ntp!Matching(events[c], "query") = Matching(events[c], "query")
    BY DEF Ntp!Queried, Ntp!Matching, Matching, Ntp!Positions, Positions, Ntp!At, At, Data
  <1>4. ASSUME NEW c \in Conns
        PROVE  Ntp!Queried(c) = [i \in DOMAIN read[c] |-> Ntp!Found(read[c][i])]
    <2>1. read[c] \in Seq(Chunks.ntp) /\ Data(events[c], "query") = Through(FoundIn, read[c])
      BY <1>0 DEF NtpOK, Heard
    <2>2. \A i \in DOMAIN read[c] : FoundIn[read[c][i]] = Ntp!Found(read[c][i])
      BY <2>1 DEF FoundIn
    <2> QED BY <1>3, <2>1, <2>2 DEF Through
  <1>5. \A S : Ntp!Cardinality(S) = Cardinality(S)
    BY DEF Ntp!Cardinality, Cardinality
  <1>6. ASSUME NEW c \in Conns, NEW queries, queries = Ntp!Matching(events[c], "query"),
               NEW sent, sent = {i \in DOMAIN queries : queries[i].status = "success"}
        PROVE  /\ Ntp!Cardinality(sent) = Len(replies[c])
               /\ \A i \in sent : read[c][i].precision \in 0 .. 127
    <2>1. queries = Matching(events[c], "query") /\ sent = Successes(queries)
      BY <1>3, <1>6 DEF Successes
    <2>2. /\ Cardinality(Successes(queries)) = Len(replies[c])
          /\ \A i \in Successes(queries) : read[c][i].precision \in 0 .. 127
      BY <1>0, <2>1 DEF NtpOK
    <2> QED BY <1>5, <2>1, <2>2
  <1>7. Ntp!VersionsAreLogged
    BY <1>4, <1>6, Zenon DEF Ntp!VersionsAreLogged
  <1> QED BY <1>2, <1>7

-------------------------------------------------------------------------------
(* ipp: every request is answered, and what its parser makes of it logged *)

\* The requests whose header can be read, and what is logged of each.
Posted == {r \in Chunks.ipp : r.method = "POST" /\ Ipp!IsHeader(Ipp!Body(r))}
IppEntry ==
    [r \in Chunks.ipp |->
        [action |-> "query", status |-> Ipp!BuildResponse(Ipp!Body(r)).status,
         data |-> Ipp!BuildResponse(Ipp!Body(r)).response]]

IsIppLog(r, e) == Matching(e, "query") = Through(IppEntry, Selected(r, Posted))

IppOK(l, r, e, p) ==
    /\ l \in Links /\ r \in Seq(Chunks.ipp) /\ IsLog(e) /\ IsLog(p) /\ Len(p) = Len(r)
    /\ IsIppLog(r, e)

IppInv == server = "ipp" => Rows /\ \A c \in Conns : IppOK(link[c], read[c], events[c], replies[c])

\* What a request adds to a log.
LogsRequest(request, e, f) ==
    /\ IsLog(f)
    /\ request \in Posted => Matching(f, "query") = Append(Matching(e, "query"), IppEntry[request])
    /\ request \notin Posted => Matching(f, "query") = Matching(e, "query")

LEMMA IppEntryLogged ==
    ASSUME NEW e, IsLog(e), NEW request \in Posted, NEW f,
           f = e \o <<[action |-> "connection"], IppEntry[request]>>
    PROVE  LogsRequest(request, e, f)
  <1>1. IppEntry[request].action = "query"
    BY DEF Posted, IppEntry
  <1>2. IsLog(f) /\ Matching(f, "query") = Append(Matching(e, "query"), IppEntry[request])
    <2>1. \A y : y.action = "query" /\ f = e \o <<[action |-> "connection"], y>> =>
             IsLog(f) /\ Matching(f, "query") = Append(Matching(e, "query"), y)
      BY QueryLogged
    <2> QED BY <1>1, <2>1, Zenon
  <1> QED BY <1>2 DEF LogsRequest

LEMMA OtherRequest ==
    ASSUME NEW e, IsLog(e), NEW request, request \notin Posted, NEW f,
           f = e \/ f = e \o <<[action |-> "connection"]>>
    PROVE  LogsRequest(request, e, f)
  <1>1. CASE f = e
    BY <1>1 DEF LogsRequest
  <1>2. CASE f = e \o <<[action |-> "connection"]>>
    <2>1. f = Append(e, [action |-> "connection"])
      <3>1. IsLog(<<>>)
        BY NoEntries
      <3>2. \A x : e \o <<x>> = Append(e, x)
        BY <3>1, LogConcat
      <3> QED BY <1>2, <3>2
    <2>2. IsLog(f) /\ Matching(f, "query") = Matching(e, "query")
      <3>1. \A action : action # "connection" => Matching(f, action) = Matching(e, action)
        BY <2>1, ConnectionLogged
      <3>2. IsLog(f)
        BY <2>1, ConnectionLogged
      <3> QED BY <3>1, <3>2
    <2> QED BY <2>2 DEF LogsRequest
  <1> QED BY <1>1, <1>2

\* The log agrees with the requests, also with one more.
LEMMA IppLogs ==
    ASSUME NEW r, IsLog(r), NEW e, IsIppLog(r, e), NEW request, NEW f, LogsRequest(request, e, f)
    PROVE  IsIppLog(Append(r, request), f)
  <1>1. /\ request \in Posted => Selected(Append(r, request), Posted) = Append(Selected(r, Posted), request)
        /\ request \notin Posted => Selected(Append(r, request), Posted) = Selected(r, Posted)
        /\ IsLog(Selected(r, Posted))
    BY SelectedMore
  <1>2. CASE request \in Posted
    <2>1. Through(IppEntry, Append(Selected(r, Posted), request)) =
            Append(Through(IppEntry, Selected(r, Posted)), IppEntry[request])
      BY <1>1, ThroughMore
    <2> QED BY <1>1, <1>2, <2>1, Zenon DEF IsIppLog, LogsRequest
  <1>3. CASE request \notin Posted
    BY <1>1, <1>3, Zenon DEF IsIppLog, LogsRequest
  <1> QED BY <1>2, <1>3

LEMMA IppStarts == Init /\ server = "ipp" => IppInv
  <1> SUFFICES ASSUME Init, server = "ipp" PROVE IppInv
    OBVIOUS
  <1>1. Ipp!Init
    BY DEF Init
  <1>2. /\ link = [c \in Conns |-> "none"] /\ read = [c \in Conns |-> <<>>]
        /\ events = [c \in Conns |-> <<>>] /\ replies = [c \in Conns |-> <<>>]
    BY <1>1 DEF Ipp!Init, Ipp!TcpInit, Ipp!ConnectionsInit
  <1>3. Rows
    BY <1>2, Starting, Zenon DEF Rows
  <1>4. IppOK("none", <<>>, <<>>, <<>>)
    <2>1. <<>> \in Seq(Chunks.ipp) /\ IsLog(<<>>)
      BY EmptySeq, NoEntries
    <2>2. IsIppLog(<<>>, <<>>)
      <3>1. Matching(<<>>, "query") = <<>>
        BY NoMatching
      <3>2. Selected(<<>>, Posted) = <<>>
        BY SelectedNone
      <3>3. Through(IppEntry, <<>>) = <<>>
        BY ThroughNone
      <3> QED BY <3>1, <3>2, <3>3, Zenon DEF IsIppLog
    <2> QED BY <2>1, <2>2 DEF IppOK, Links
  <1>5. ASSUME NEW c \in Conns PROVE IppOK(link[c], read[c], events[c], replies[c])
    <2>1. link[c] = "none" /\ read[c] = <<>> /\ events[c] = <<>> /\ replies[c] = <<>>
      BY <1>2
    <2> QED BY <1>4, <2>1, Zenon
  <1> QED BY <1>3, <1>5 DEF IppInv

LEMMA IppNexts ==
    ASSUME IppInv, server = "ipp", Ipp!Next, server' = server
    PROVE  \E c \in Conns :
              \/ ComesUnlogged(c) \/ Goes(c)
              \/ \E request \in Chunks.ipp : \E e, answer :
                    /\ Reads(c, request, "open", e, Append(replies[c], answer))
                    /\ LogsRequest(request, events[c], e)
  <1>0. Rows
    BY DEF IppInv
  <1>1. PICK c \in Conns : \/ Ipp!ConnectionMadeUnlogged(c) \/ Ipp!Lost(c)
                           \/ \E request \in Chunks.ipp :
                                 Ipp!RenderPost(c, request) \/ Ipp!NotAllowed(c, request)
    BY DEF Ipp!Next
  <1>2. CASE Ipp!ConnectionMadeUnlogged(c)
    <2>1. /\ link[c] = "none" /\ link' = [link EXCEPT ![c] = "open"]
          /\ read' = read /\ events' = events /\ replies' = replies
      BY <1>2 DEF Ipp!ConnectionMadeUnlogged
    <2> QED BY <1>0, <2>1, Changed, Kept DEF Rows, ComesUnlogged, Steps
  <1>3. CASE Ipp!Lost(c)
    <2>1. /\ link[c] \in {"open", "closing"} /\ link' = [link EXCEPT ![c] = "lost"]
          /\ read' = read /\ events' = events /\ replies' = replies
      BY <1>3 DEF Ipp!Lost, Ipp!ConnectionLost
    <2> QED BY <1>0, <2>1, Changed, Kept DEF Rows, Goes, Steps
  <1>4. ASSUME NEW request \in Chunks.ipp, Ipp!RenderPost(c, request)
        PROVE  \E e, answer : /\ Reads(c, request, "open", e, Append(replies[c], answer))
                              /\ LogsRequest(request, events[c], e)
    <2> DEFINE built == Ipp!BuildResponse(Ipp!Body(request))
               x == [action |-> "connection"]
               es == IF built.response = <<>> THEN <<x>>
                     ELSE <<x, [action |-> "query", status |-> built.status, data |-> built.response]>>
    <2>1. PICK answer :
             /\ link[c] = "open" /\ link' = link
             /\ read' = [read EXCEPT ![c] = Append(@, request)]
             /\ events' = [events EXCEPT ![c] = @ \o es]
             /\ replies' = [replies EXCEPT ![c] = Append(@, answer)]
      BY <1>4 DEF Ipp!RenderPost, Ipp!Received, Ipp!LogAll, Ipp!Reply, Ipp!Connection
    <2>2. request.method = "POST"
      BY <1>4 DEF Ipp!RenderPost
    <2>3. built.response = <<>> <=> request \notin Posted
      <3>1. \A t, u, v : <<t, u, v>> # <<>>
        OBVIOUS
      <3>2. built.response = <<>> <=> ~Ipp!IsHeader(Ipp!Body(request))
        BY <3>1 DEF Ipp!BuildResponse
      <3> QED BY <2>2, <3>2 DEF Posted
    <2>4. IsLog(events[c])
      BY DEF IppInv, IppOK
    <2>5. LogsRequest(request, events[c], events[c] \o es)
      <3>1. CASE request \in Posted
        <4>1. es = <<x, IppEntry[request]>>
          BY <2>3, <3>1 DEF IppEntry
        <4> HIDE DEF es
        <4> QED BY <2>4, <3>1, <4>1, IppEntryLogged
      <3>2. CASE request \notin Posted
        <4>1. es = <<x>>
          BY <2>3, <3>2
        <4> HIDE DEF es
        <4> QED BY <2>4, <3>2, <4>1, OtherRequest
      <3> QED BY <3>1, <3>2
    <2> HIDE DEF es
    <2>6. Reads(c, request, "open", events[c] \o es, Append(replies[c], answer))
      BY <1>0, <2>1, Changed, Kept DEF Rows, Reads, Steps
    <2> QED BY <2>5, <2>6
  <1>5. ASSUME NEW request \in Chunks.ipp, Ipp!NotAllowed(c, request)
        PROVE  \E e, answer : /\ Reads(c, request, "open", e, Append(replies[c], answer))
                              /\ LogsRequest(request, events[c], e)
    <2>1. /\ link[c] = "open" /\ link' = link
          /\ read' = [read EXCEPT ![c] = Append(@, request)]
          /\ events' = events
          /\ replies' = [replies EXCEPT ![c] = Append(@, "not allowed")]
      BY <1>5 DEF Ipp!NotAllowed, Ipp!Received, Ipp!Reply
    <2>2. Reads(c, request, "open", events[c], Append(replies[c], "not allowed"))
      BY <1>0, <2>1, Changed, Kept DEF Rows, Reads, Steps
    <2>3. request \notin Posted
      BY <1>5 DEF Ipp!NotAllowed, Posted
    <2>4. IsLog(events[c])
      BY DEF IppInv, IppOK
    <2>5. LogsRequest(request, events[c], events[c])
      BY <2>3, <2>4, OtherRequest
    <2> QED BY <2>2, <2>5
  <1> QED BY <1>1, <1>2, <1>3, <1>4, <1>5

LEMMA IppSteps ==
    ASSUME IppInv, server = "ipp", Ipp!Next, server' = server
    PROVE  IppInv'
  <1>0. Rows /\ \A d \in Conns : IppOK(link[d], read[d], events[d], replies[d])
    BY DEF IppInv
  <1>1. PICK c \in Conns :
              \/ ComesUnlogged(c) \/ Goes(c)
              \/ \E request \in Chunks.ipp : \E e, answer :
                    /\ Reads(c, request, "open", e, Append(replies[c], answer))
                    /\ LogsRequest(request, events[c], e)
    BY IppNexts
  <1>2. IppOK(link[c], read[c], events[c], replies[c])
    BY <1>0
  <1>3. CASE ComesUnlogged(c)
    <2>1. IppOK("open", read[c], events[c], replies[c])
      BY <1>2 DEF IppOK, Links
    <2> QED BY <1>0, <1>3, <2>1, Stepped DEF ComesUnlogged, IppInv
  <1>4. CASE Goes(c)
    <2>1. IppOK("lost", read[c], events[c], replies[c])
      BY <1>2 DEF IppOK, Links
    <2> QED BY <1>0, <1>4, <2>1, Stepped DEF Goes, IppInv
  <1>5. ASSUME NEW request \in Chunks.ipp, NEW e, NEW answer,
               Reads(c, request, "open", e, Append(replies[c], answer)),
               LogsRequest(request, events[c], e)
        PROVE  IppInv'
    <2> DEFINE r == read[c]  p == replies[c]  q == Append(p, answer)
    <2>1. /\ r \in Seq(Chunks.ipp) /\ IsLog(p) /\ Len(p) = Len(r) /\ IsLog(r)
          /\ IsIppLog(r, events[c])
      BY <1>2, SequenceIsLog DEF IppOK
    <2> HIDE DEF p
    <2>2. IsLog(q) /\ Len(q) = Len(p) + 1
      BY <2>1, LogAppend
    <2> HIDE DEF q, r
    <2>3. Append(r, request) \in Seq(Chunks.ipp) /\ Len(Append(r, request)) = Len(r) + 1
      BY <2>1, AppendProperties
    <2>4. IsLog(e) /\ IsIppLog(Append(r, request), e)
      BY <1>5, <2>1, IppLogs DEF LogsRequest
    <2>5. IppOK("open", Append(r, request), e, q)
      BY <2>1, <2>2, <2>3, <2>4 DEF IppOK, Links
    <2> QED BY <1>0, <1>5, <2>5, Stepped DEF Reads, IppInv, q, r, p
  <1> QED BY <1>1, <1>3, <1>4, <1>5

LEMMA IppSays == ASSUME IppInv, server = "ipp" PROVE Ipp!TypeOK
  <1>0. Rows /\ \A c \in Conns : IppOK(link[c], read[c], events[c], replies[c])
    BY DEF IppInv
  <1>1. link \in [Conns -> Links]
    BY <1>0 DEF Rows, IsRow, IppOK
  <1>2. ASSUME NEW c \in Conns
        PROVE  read[c] \in Seq(Chunks.ipp) /\ Len(replies[c]) = Len(read[c]) /\ Len(read[c]) \in Nat
    BY <1>0 DEF IppOK
  <1>3. ASSUME NEW c \in Conns PROVE Len(replies[c]) <= Len(read[c])
    BY <1>2
  <1> QED BY <1>1, <1>2, <1>3 DEF Ipp!TypeOK, Ipp!QueriesTypeOK, Links

-------------------------------------------------------------------------------
(* The sniffer *)

\* What is logged of a packet besides scans: an entry of another action, or nothing.
Quiet(s) == s = <<>> \/ \E x : s = <<x>> /\ x.action # "tcpscan"

LEMMA QuietLog ==
    ASSUME NEW s, Quiet(s)
    PROVE  IsLog(s) /\ Matching(s, "tcpscan") = <<>>
  <1>1. CASE s = <<>>
    BY <1>1, NoEntries, NoMatching
  <1>2. ASSUME NEW x, s = <<x>>, x.action # "tcpscan" PROVE IsLog(s) /\ Matching(s, "tcpscan") = <<>>
    <2>1. IsLog(<<x>>)
      BY SingleEntry
    <2>2. <<x>> = Append(<<>>, x)
      OBVIOUS
    <2>3. \A y : y.action # "tcpscan" => Matching(Append(<<>>, y), "tcpscan") = Matching(<<>>, "tcpscan")
      BY NoEntries, MatchingEntry
    <2>4. Matching(<<x>>, "tcpscan") = <<>>
      BY <1>2, <2>2, <2>3, NoMatching
    <2> QED BY <1>2, <2>1, <2>4
  <1> QED BY <1>1, <1>2 DEF Quiet

Asking == {packet \in Chunks.sniffer : Sniff!IsTcpScan(packet)}

Scan(packet) == IF Sniff!IsTcpScan(packet) THEN <<[action |-> "tcpscan"]>> ELSE <<>>

\* What is logged of a packet.
SniffEntries(packet) ==
    Sniff!CredsCheck(packet) \o Sniff!LogTcpUdp(packet) \o Sniff!LogIcmp(packet) \o Scan(packet)

LEMMA ScansLogged ==
    ASSUME NEW packet, NEW e, IsLog(e)
    PROVE  /\ IsLog(e \o SniffEntries(packet))
           /\ Len(Matching(e, "tcpscan")) \in Nat
           /\ Len(Matching(e \o SniffEntries(packet), "tcpscan")) =
                 IF Sniff!IsTcpScan(packet) THEN Len(Matching(e, "tcpscan")) + 1
                 ELSE Len(Matching(e, "tcpscan"))
  <1> DEFINE A == Sniff!CredsCheck(packet)
             B == Sniff!LogTcpUdp(packet)
             C == Sniff!LogIcmp(packet)
             D == Scan(packet)
  <1>1. Quiet(A)
    BY DEF Sniff!CredsCheck, Quiet
  <1>2. Quiet(B)
    BY DEF Sniff!LogTcpUdp, Quiet
  <1>3. Quiet(C)
    BY DEF Sniff!LogIcmp, Quiet
  <1>4. /\ IsLog(D) /\ IsLog(Matching(D, "tcpscan"))
        /\ Len(Matching(D, "tcpscan")) = IF Sniff!IsTcpScan(packet) THEN 1 ELSE 0
    <2> DEFINE x == [action |-> "tcpscan"]
    <2>1. x.action = "tcpscan" /\ D = IF Sniff!IsTcpScan(packet) THEN <<x>> ELSE <<>>
      BY DEF Scan
    <2> HIDE DEF x
    <2>2. <<x>> = Append(<<>>, x) /\ Len(<<x>>) = 1
      OBVIOUS
    <2>3. \A y : y.action = "tcpscan" =>
             Matching(Append(<<>>, y), "tcpscan") = Append(Matching(<<>>, "tcpscan"), y)
      BY NoEntries, MatchingEntry
    <2>4. Matching(<<x>>, "tcpscan") = <<x>>
      BY <2>1, <2>2, <2>3, NoMatching
    <2>5. IsLog(<<x>>) /\ IsLog(<<>>) /\ Len(<<>>) = 0 /\ Matching(<<>>, "tcpscan") = <<>>
      BY SingleEntry, NoEntries, NoMatching
    <2> HIDE DEF D
    <2>6. CASE Sniff!IsTcpScan(packet)
      BY <2>1, <2>2, <2>4, <2>5, <2>6
    <2>7. CASE ~Sniff!IsTcpScan(packet)
      BY <2>1, <2>5, <2>7
    <2> QED BY <2>6, <2>7
  <1>5. SniffEntries(packet) = A \o B \o C \o D
    BY DEF SniffEntries
  <1> HIDE DEF A, B, C, D
  <1>6. IsLog(A \o B) /\ Matching(A \o B, "tcpscan") = <<>>
    <2>1. /\ IsLog(A) /\ Matching(A, "tcpscan") = <<>> /\ IsLog(B) /\ Matching(B, "tcpscan") = <<>>
      BY <1>1, <1>2, QuietLog
    <2>2. Matching(A \o B, "tcpscan") = Matching(A, "tcpscan") \o Matching(B, "tcpscan")
      BY <2>1, MatchingConcat
    <2>3. <<>> \o <<>> = <<>>
      OBVIOUS
    <2> QED BY <2>1, <2>2, <2>3, LogConcat
  <1>7. IsLog(A \o B \o C) /\ Matching(A \o B \o C, "tcpscan") = <<>>
    <2>1. IsLog(C) /\ Matching(C, "tcpscan") = <<>>
      BY <1>3, QuietLog
    <2>2. Matching(A \o B \o C, "tcpscan") = Matching(A \o B, "tcpscan") \o Matching(C, "tcpscan")
      BY <1>6, <2>1, MatchingConcat
    <2>3. <<>> \o <<>> = <<>>
      OBVIOUS
    <2> QED BY <1>6, <2>1, <2>2, <2>3, LogConcat
  <1> DEFINE abc == A \o B \o C
             es == abc \o D
  <1>8. IsLog(abc) /\ Matching(abc, "tcpscan") = <<>> /\ SniffEntries(packet) = es
    BY <1>5, <1>7
  <1> HIDE DEF abc
  <1>9. /\ IsLog(es) /\ IsLog(Matching(es, "tcpscan"))
        /\ Len(Matching(es, "tcpscan")) = IF Sniff!IsTcpScan(packet) THEN 1 ELSE 0
    <2>1. IsLog(es)
      BY <1>4, <1>8, LogConcat
    <2>2. Matching(es, "tcpscan") = <<>> \o Matching(D, "tcpscan")
      <3>1. Matching(abc \o D, "tcpscan") = Matching(abc, "tcpscan") \o Matching(D, "tcpscan")
        <4>1. IsLog(abc) /\ IsLog(D)
          BY <1>4, <1>8
        <4> QED BY <4>1, MatchingConcat
      <3> QED BY <1>8, <3>1, Zenon
    <2>3. Len(<<>> \o Matching(D, "tcpscan")) = Len(<<>>) + Len(Matching(D, "tcpscan"))
          /\ IsLog(<<>> \o Matching(D, "tcpscan")) /\ Len(<<>>) = 0 /\ Len(Matching(D, "tcpscan")) \in Nat
      BY <1>4, NoEntries, LogConcat
    <2> QED BY <1>4, <2>1, <2>2, <2>3
  <1> HIDE DEF es
  <1>10. Matching(e \o es, "tcpscan") = Matching(e, "tcpscan") \o Matching(es, "tcpscan")
    BY <1>9, MatchingConcat
  <1>11. IsLog(e \o es)
    BY <1>9, LogConcat
  <1>12. IsLog(Matching(e, "tcpscan"))
    BY MatchingEntry
  <1>13. Len(Matching(e, "tcpscan")) \in Nat
         /\ Len(Matching(e, "tcpscan") \o Matching(es, "tcpscan")) =
               Len(Matching(e, "tcpscan")) + Len(Matching(es, "tcpscan"))
    BY <1>9, <1>12, LogConcat
  <1>14. Len(Matching(e \o es, "tcpscan")) = IF Sniff!IsTcpScan(packet) THEN Len(Matching(e, "tcpscan")) + 1
                                             ELSE Len(Matching(e, "tcpscan"))
    <2> HIDE DEF A, B, C, D
    <2>1. CASE Sniff!IsTcpScan(packet)
      BY <1>9, <1>10, <1>13, <2>1
    <2>2. CASE ~Sniff!IsTcpScan(packet)
      BY <1>9, <1>10, <1>13, <2>2
    <2> QED BY <2>1, <2>2
  <1> QED BY <1>8, <1>11, <1>13, <1>14, Zenon

SniffOK(l, r, e, p, n) ==
    /\ Heard(Chunks.sniffer, l, r, e, p) /\ l = "open"
    /\ Len(p) <= Len(Selected(r, Asking))
    /\ Len(Matching(e, "tcpscan")) = Len(Selected(r, Asking))
    /\ n \in Nat /\ n <= Len(p)

SniffInv ==
    server = "sniffer" =>
        /\ Rows /\ IsRow(pending)
        /\ \A c \in Conns : SniffOK(link[c], read[c], events[c], replies[c], pending[c])

LEMMA SniffStarts == Init /\ server = "sniffer" => SniffInv
  <1> SUFFICES ASSUME Init, server = "sniffer" PROVE SniffInv
    OBVIOUS
  <1>1. Sniff!Init
    BY DEF Init
  <1>2. /\ link = [c \in Conns |-> "open"] /\ read = [c \in Conns |-> <<>>]
        /\ events = [c \in Conns |-> <<>>] /\ replies = [c \in Conns |-> <<>>]
        /\ pending = [c \in Conns |-> 0]
    BY <1>1 DEF Sniff!Init, Sniff!UdpInit
  <1>3. Rows /\ IsRow(pending)
    BY <1>2, Starting, Zenon DEF Rows
  <1>4. SniffOK("open", <<>>, <<>>, <<>>, 0)
    <2>1. Heard(Chunks.sniffer, "open", <<>>, <<>>, <<>>)
      BY Unheard DEF Links
    <2>2. /\ Selected(<<>>, Asking) = <<>> /\ Matching(<<>>, "tcpscan") = <<>>
          /\ Len(<<>>) = 0 /\ 0 <= 0 /\ 0 \in Nat
      BY SelectedNone, NoEntries, NoMatching
    <2> QED BY <2>1, <2>2, Zenon DEF SniffOK
  <1>5. ASSUME NEW c \in Conns PROVE SniffOK(link[c], read[c], events[c], replies[c], pending[c])
    <2>1. link[c] = "open" /\ read[c] = <<>> /\ events[c] = <<>> /\ replies[c] = <<>> /\ pending[c] = 0
      BY <1>2
    <2> QED BY <1>4, <2>1, Zenon
  <1> QED BY <1>3, <1>5 DEF SniffInv

\* What a packet makes of the answers.
SniffGives(packet, p, q, n, m) ==
    \/ Sniff!IsTcpScan(packet) /\ q = Append(p, "SA") /\ m = n + 1
    \/ q = p /\ m = n

\* A packet of a peer, and an answer of the sniffer's own.
SniffReads(c, packet) ==
    \E q, m : /\ Reads(c, packet, "open", events[c] \o SniffEntries(packet), q)
              /\ Sets(pending, pending', c, m)
              /\ SniffGives(packet, replies[c], q, pending[c], m)
SniffOwn(c) ==
    /\ pending[c] > 0
    /\ Steps(c, link[c], read[c], events[c] \o SniffEntries(Sniff!SynAck), replies[c])
    /\ Sets(pending, pending', c, pending[c] - 1)

LEMMA SniffNexts ==
    ASSUME SniffInv, server = "sniffer", Sniff!Next, server' = server
    PROVE  \E c \in Conns : SniffOwn(c) \/ \E packet \in Chunks.sniffer : SniffReads(c, packet)
  <1>0. Rows /\ IsRow(pending) /\ \A c \in Conns : pending[c] \in Nat
    BY DEF SniffInv, SniffOK
  <1>1. PICK c \in Conns :
           Sniff!CaptureOwn(c) \/ \E packet \in Chunks.sniffer : Sniff!Capture(c, packet)
    BY DEF Sniff!Next
  <1>2. CASE Sniff!CaptureOwn(c)
    <2> DEFINE es == SniffEntries(Sniff!SynAck)
    <2>1. ~Sniff!IsTcpScan(Sniff!SynAck)
      <3>1. "A" \in {"S", "A"} /\ "A" \notin {"S"}
        OBVIOUS
      <3> QED BY <3>1 DEF Sniff!IsTcpScan, Sniff!SynAck
    <2>2. /\ pending[c] > 0 /\ link' = link /\ read' = read
          /\ events' = [events EXCEPT ![c] = @ \o es]
          /\ replies' = [replies EXCEPT ![c] = @]
          /\ pending' = [pending EXCEPT ![c] = @ - 1 + 0]
      BY <1>2, <2>1 DEF Sniff!CaptureOwn, Sniff!CaptureLogic, Sniff!LogAll, SniffEntries, Scan
    <2> HIDE DEF es
    <2>3. pending[c] - 1 + 0 = pending[c] - 1
      BY <1>0
    <2>4. Sets(pending, pending', c, pending[c] - 1)
      BY <1>0, <2>2, <2>3, Changed
    <2>5. Steps(c, link[c], read[c], events[c] \o es, replies[c])
      BY <1>0, <2>2, Changed, Kept DEF Rows, Steps
    <2> QED BY <2>2, <2>4, <2>5 DEF SniffOwn, es
  <1>3. ASSUME NEW packet \in Chunks.sniffer, Sniff!Capture(c, packet)
        PROVE  SniffReads(c, packet)
    <2>1. PICK sent \in IF Sniff!IsTcpScan(packet) THEN {0, 1} ELSE {0} :
             /\ replies' = [replies EXCEPT ![c] = IF sent = 1 THEN Append(@, "SA") ELSE @]
             /\ pending' = [pending EXCEPT ![c] = @ - 0 + sent]
      BY <1>3 DEF Sniff!Capture, Sniff!CaptureLogic
    <2> DEFINE es == SniffEntries(packet)
               q == IF sent = 1 THEN Append(replies[c], "SA") ELSE replies[c]
               m == pending[c] - 0 + sent
    <2>2. /\ link[c] = "open" /\ link' = link /\ read' = [read EXCEPT ![c] = Append(@, packet)]
          /\ events' = [events EXCEPT ![c] = @ \o es]
          /\ replies' = [replies EXCEPT ![c] = q]
          /\ pending' = [pending EXCEPT ![c] = m]
      BY <1>3, <2>1 DEF Sniff!Capture, Sniff!Received, Sniff!CaptureLogic, Sniff!LogAll, SniffEntries,
                        Scan
    <2>3. SniffGives(packet, replies[c], q, pending[c], m)
      BY <1>0, <2>1 DEF SniffGives
    <2> HIDE DEF es, q, m
    <2>4. Sets(pending, pending', c, m)
      BY <1>0, <2>2, Changed
    <2>5. Reads(c, packet, "open", events[c] \o es, q)
      BY <1>0, <2>2, Changed, Kept DEF Rows, Reads, Steps
    <2> QED BY <2>3, <2>4, <2>5 DEF SniffReads, es
  <1> QED BY <1>1, <1>2, <1>3

\* A packet was captured.
LEMMA SniffHears ==
    ASSUME NEW r, NEW e, NEW p, NEW n, SniffOK("open", r, e, p, n), NEW packet \in Chunks.sniffer,
           NEW q, NEW m, SniffGives(packet, p, q, n, m)
    PROVE  SniffOK("open", Append(r, packet), e \o SniffEntries(packet), q, m)
  <1> DEFINE t == Append(r, packet)
             f == e \o SniffEntries(packet)
  <1>1. /\ r \in Seq(Chunks.sniffer) /\ IsLog(r) /\ IsLog(e) /\ IsLog(p)
        /\ Len(p) <= Len(Selected(r, Asking)) /\ Len(Matching(e, "tcpscan")) = Len(Selected(r, Asking))
        /\ n \in Nat /\ n <= Len(p)
    BY DEF SniffOK, Heard
  <1>2. t \in Seq(Chunks.sniffer) /\ IsLog(t)
    BY <1>1, AppendProperties, LogAppend
  <1>3. /\ IsLog(f) /\ Len(Matching(e, "tcpscan")) \in Nat
        /\ Len(Matching(f, "tcpscan")) =
              IF Sniff!IsTcpScan(packet) THEN Len(Matching(e, "tcpscan")) + 1
              ELSE Len(Matching(e, "tcpscan"))
    BY <1>1, ScansLogged
  <1>4. IF Sniff!IsTcpScan(packet) THEN Len(Selected(t, Asking)) = Len(Selected(r, Asking)) + 1
        ELSE Selected(t, Asking) = Selected(r, Asking)
    <2>1. packet \in Asking <=> Sniff!IsTcpScan(packet)
      BY DEF Asking
    <2>2. /\ packet \in Asking => Selected(t, Asking) = Append(Selected(r, Asking), packet)
          /\ packet \notin Asking => Selected(t, Asking) = Selected(r, Asking)
          /\ IsLog(Selected(r, Asking))
      BY <1>1, SelectedMore
    <2>3. Len(Append(Selected(r, Asking), packet)) = Len(Selected(r, Asking)) + 1
      BY <2>2, LogAppend
    <2> QED BY <2>1, <2>2, <2>3
  <1>5. /\ IsLog(q) /\ Len(p) \in Nat
        /\ \/ Sniff!IsTcpScan(packet) /\ Len(q) = Len(p) + 1 /\ m = n + 1
           \/ q = p /\ m = n
    <2>1. IsLog(Append(p, "SA")) /\ Len(Append(p, "SA")) = Len(p) + 1 /\ Len(p) \in Nat
      BY <1>1, LogAppend
    <2> QED BY <1>1, <2>1 DEF SniffGives
  <1> HIDE DEF t, f
  <1>6. Heard(Chunks.sniffer, "open", t, f, q)
    BY <1>2, <1>3, <1>5 DEF Heard, Links
  <1>7. CASE Sniff!IsTcpScan(packet)
    <2>1. /\ Len(q) <= Len(Selected(t, Asking)) /\ Len(Matching(f, "tcpscan")) = Len(Selected(t, Asking))
          /\ m \in Nat /\ m <= Len(q)
      BY <1>1, <1>3, <1>4, <1>5, <1>7
    <2> QED BY <1>6, <2>1 DEF SniffOK, t, f
  <1>8. CASE ~Sniff!IsTcpScan(packet)
    <2>1. /\ Len(q) <= Len(Selected(t, Asking)) /\ Len(Matching(f, "tcpscan")) = Len(Selected(t, Asking))
          /\ m \in Nat /\ m <= Len(q)
      BY <1>1, <1>3, <1>4, <1>5, <1>8
    <2> QED BY <1>6, <2>1 DEF SniffOK, t, f
  <1> QED BY <1>7, <1>8

LEMMA SniffSteps ==
    ASSUME SniffInv, server = "sniffer", Sniff!Next, server' = server
    PROVE  SniffInv'
  <1>0. /\ Rows /\ IsRow(pending)
        /\ \A d \in Conns : SniffOK(link[d], read[d], events[d], replies[d], pending[d])
    BY DEF SniffInv
  <1>1. PICK c \in Conns : SniffOwn(c) \/ \E packet \in Chunks.sniffer : SniffReads(c, packet)
    BY SniffNexts
  <1>2. SniffOK("open", read[c], events[c], replies[c], pending[c])
    BY <1>0 DEF SniffOK
  <1>3. ASSUME NEW r, NEW f, NEW q, NEW m, Steps(c, "open", r, f, q), Sets(pending, pending', c, m),
               SniffOK("open", r, f, q, m)
        PROVE  SniffInv'
    <2>1. IsRow(pending') /\ pending'[c] = m /\ \A d \in Conns \ {c} : pending'[d] = pending[d]
      BY <1>3 DEF Sets, IsRow
    <2>2. IsRow(pending)'
      BY <2>1 DEF IsRow
    <2> QED BY <1>0, <1>3, <2>1, <2>2, Stepped DEF SniffInv
  <1>4. CASE SniffOwn(c)
    <2> DEFINE f == events[c] \o SniffEntries(Sniff!SynAck)
    <2>1. ~Sniff!IsTcpScan(Sniff!SynAck)
      <3>1. "A" \in {"S", "A"} /\ "A" \notin {"S"}
        OBVIOUS
      <3> QED BY <3>1 DEF Sniff!IsTcpScan, Sniff!SynAck
    <2>2. /\ IsLog(events[c]) /\ read[c] \in Seq(Chunks.sniffer) /\ IsLog(read[c]) /\ IsLog(replies[c])
          /\ Len(replies[c]) <= Len(Selected(read[c], Asking))
          /\ Len(Matching(events[c], "tcpscan")) = Len(Selected(read[c], Asking))
          /\ pending[c] \in Nat /\ pending[c] <= Len(replies[c])
      BY <1>2 DEF SniffOK, Heard
    <2>3. IsLog(f) /\ Len(Matching(f, "tcpscan")) = Len(Matching(events[c], "tcpscan"))
      BY <2>1, <2>2, ScansLogged
    <2>4. /\ link[c] = "open" /\ pending[c] > 0
          /\ Steps(c, link[c], read[c], f, replies[c]) /\ Sets(pending, pending', c, pending[c] - 1)
      BY <1>0, <1>4 DEF SniffOwn, SniffOK
    <2> HIDE DEF f
    <2>5. Heard(Chunks.sniffer, "open", read[c], f, replies[c])
      BY <2>2, <2>3 DEF Heard, Links
    <2>6. Len(replies[c]) \in Nat
      BY <2>2, LogAppend
    <2>7. pending[c] - 1 \in Nat /\ pending[c] - 1 <= Len(replies[c])
      BY <2>2, <2>4, <2>6
    <2>8. SniffOK("open", read[c], f, replies[c], pending[c] - 1)
      BY <2>2, <2>3, <2>5, <2>7 DEF SniffOK
    <2> QED BY <1>3, <2>4, <2>8
  <1>5. ASSUME NEW packet \in Chunks.sniffer, SniffReads(c, packet) PROVE SniffInv'
    <2>1. PICK q, m : /\ Reads(c, packet, "open", events[c] \o SniffEntries(packet), q)
                      /\ Sets(pending, pending', c, m)
                      /\ SniffGives(packet, replies[c], q, pending[c], m)
      BY <1>5 DEF SniffReads
    <2>2. SniffOK("open", Append(read[c], packet), events[c] \o SniffEntries(packet), q, m)
      BY <1>2, <2>1, SniffHears
    <2> QED BY <1>3, <2>1, <2>2 DEF Reads
  <1> QED BY <1>1, <1>4, <1>5

\* The invariant says what TypeOK and OneAnswerPerScan say.
LEMMA SniffSays ==
    ASSUME SniffInv, server = "sniffer"
    PROVE  Sniff!TypeOK /\ Sniff!OneAnswerPerScan
  <1>0. /\ Rows
        /\ \A c \in Conns : SniffOK(link[c], read[c], events[c], replies[c], pending[c])
    BY DEF SniffInv
  <1>1. Sniff!TypeOK
    <2>1. link \in [Conns -> {"open"}]
      BY <1>0 DEF Rows, IsRow, SniffOK
    <2> QED BY <1>0, <2>1 DEF SniffOK, Sniff!TypeOK
  <1>2. \A S : Sniff!Cardinality(S) = Cardinality(S)
    BY DEF Sniff!Cardinality, Cardinality
  <1>3. ASSUME NEW c \in Conns
        PROVE  /\ Sniff!Cardinality({i \in DOMAIN read[c] :
                     /\ read[c][i].ip /\ read[c][i].proto = "TCP"
                     /\ read[c][i].flags = {"S"}}) = Len(Selected(read[c], Asking))
               /\ Sniff!Matching(events[c], "tcpscan") = Matching(events[c], "tcpscan")
    <2> DEFINE I == {i \in DOMAIN read[c] : read[c][i].ip /\ read[c][i].proto = "TCP" /\ read[c][i].flags = {"S"}}
    <2>1. read[c] \in Seq(Chunks.sniffer)
      BY <1>0 DEF SniffOK, Heard
    <2>2. \A i \in DOMAIN read[c] : read[c][i] \in Chunks.sniffer
      BY <2>1
    <2>3. I = {i \in DOMAIN read[c] : read[c][i] \in Asking}
      BY <2>2 DEF Asking, Sniff!IsTcpScan
    <2>4. Selected(read[c], Asking) = At(read[c], I)
      BY <2>3 DEF Selected
    <2>5. I \in SUBSET (1 .. Len(read[c]))
      BY <2>1
    <2> HIDE DEF I
    <2>6. Cardinality(I) = Len(At(read[c], I))
      BY <2>1, <2>5, CountAt
    <2>7. Sniff!Matching(events[c], "tcpscan") = Matching(events[c], "tcpscan")
      BY DEF Sniff!Matching, Matching, Sniff!Positions, Positions, Sniff!At, At
    <2> QED BY <1>2, <2>4, <2>6, <2>7 DEF I
  <1>4. ASSUME NEW c \in Conns
        PROVE  /\ Len(replies[c]) <= Len(Selected(read[c], Asking))
               /\ Len(Matching(events[c], "tcpscan")) = Len(Selected(read[c], Asking))
               /\ pending[c] <= Len(replies[c])
    BY <1>0 DEF SniffOK
  <1>5. Sniff!OneAnswerPerScan
    BY <1>3, <1>4 DEF Sniff!OneAnswerPerScan
  <1> QED BY <1>1, <1>5

-------------------------------------------------------------------------------
(* dhcp *)

\* What is logged of a datagram.
Lease(d) == [mac_address |-> d.mac, options |-> Dhcp!ParseOptions(Dhcp!Raw(d.options))]
LeaseEntry == [d \in Chunks.dhcp |-> [action |-> "query", data |-> Lease(d)]]

DhcpOK(l, r, e, p) ==
    l = "open" /\ r \in Seq(Chunks.dhcp) /\ e = Through(LeaseEntry, r) /\ p = <<>>

DhcpInv ==
    server = "dhcp" => Rows /\ \A c \in Conns : DhcpOK(link[c], read[c], events[c], replies[c])

LEMMA DhcpStarts == Init /\ server = "dhcp" => DhcpInv
  <1> SUFFICES ASSUME Init, server = "dhcp" PROVE DhcpInv
    OBVIOUS
  <1>1. Dhcp!Init
    BY DEF Init
  <1>2. /\ link = [c \in Conns |-> "open"] /\ read = [c \in Conns |-> <<>>]
        /\ events = [c \in Conns |-> <<>>] /\ replies = [c \in Conns |-> <<>>]
    BY <1>1 DEF Dhcp!Init, Dhcp!UdpInit
  <1>3. Rows
    BY <1>2, Starting, Zenon DEF Rows
  <1>4. DhcpOK("open", <<>>, <<>>, <<>>)
    BY EmptySeq, ThroughNone, Zenon DEF DhcpOK
  <1>5. ASSUME NEW c \in Conns PROVE DhcpOK(link[c], read[c], events[c], replies[c])
    <2>1. link[c] = "open" /\ read[c] = <<>> /\ events[c] = <<>> /\ replies[c] = <<>>
      BY <1>2
    <2> QED BY <1>4, <2>1, Zenon
  <1> QED BY <1>3, <1>5 DEF DhcpInv

LEMMA DhcpSteps ==
    ASSUME DhcpInv, server = "dhcp", Dhcp!DhcpNext, server' = server
    PROVE  DhcpInv'
  <1>0. Rows /\ \A c \in Conns : DhcpOK(link[c], read[c], events[c], replies[c])
    BY DEF DhcpInv
  <1>1. PICK c \in Conns : \E d \in Chunks.dhcp : Dhcp!LeaseAsked(c, d)
    BY DEF Dhcp!DhcpNext
  <1>2. PICK d \in Chunks.dhcp : Dhcp!LeaseAsked(c, d)
    BY <1>1
  <1> DEFINE x == LeaseEntry[d]
  <1>3. /\ link[c] = "open" /\ link' = link /\ read' = [read EXCEPT ![c] = Append(@, d)]
        /\ events' = [events EXCEPT ![c] = Append(@, x)] /\ replies' = replies
    BY <1>2 DEF Dhcp!LeaseAsked, Dhcp!Received, Dhcp!Log, Dhcp!Query, LeaseEntry, Lease
  <1> HIDE DEF x
  <1>4. Reads(c, d, "open", Append(events[c], x), replies[c])
    BY <1>0, <1>3, Changed, Kept DEF Rows, Reads, Steps
  <1>5. DhcpOK("open", Append(read[c], d), Append(events[c], x), replies[c])
    <2>1. read[c] \in Seq(Chunks.dhcp) /\ events[c] = Through(LeaseEntry, read[c]) /\ replies[c] = <<>>
      BY <1>0 DEF DhcpOK
    <2>2. Append(read[c], d) \in Seq(Chunks.dhcp) /\ IsLog(read[c])
      BY <2>1, AppendProperties DEF IsLog
    <2>3. Through(LeaseEntry, Append(read[c], d)) = Append(Through(LeaseEntry, read[c]), x)
      BY <2>2, ThroughMore DEF x
    <2> QED BY <2>1, <2>2, <2>3 DEF DhcpOK
  <1> QED BY <1>0, <1>4, <1>5, Stepped DEF Reads, DhcpInv

\* The invariant says what DhcpTypeOK says.
LEMMA DhcpTypes == ASSUME DhcpInv, server = "dhcp" PROVE Dhcp!DhcpTypeOK
  <1>0. Rows /\ \A c \in Conns : DhcpOK(link[c], read[c], events[c], replies[c])
    BY DEF DhcpInv
  <1>1. link \in [Conns -> Links]
    BY <1>0 DEF Rows, IsRow, DhcpOK, Links
  <1>2. ASSUME NEW c \in Conns
        PROVE  /\ read[c] \in Seq(Chunks.dhcp) /\ Len(replies[c]) <= Len(read[c])
               /\ Len(events[c]) = Len(read[c])
    <2>1. /\ read[c] \in Seq(Chunks.dhcp) /\ replies[c] = <<>>
          /\ events[c] = [i \in DOMAIN read[c] |-> LeaseEntry[read[c][i]]]
      BY <1>0 DEF DhcpOK, Through
    <2>2. Len(read[c]) \in Nat /\ DOMAIN read[c] = 1 .. Len(read[c]) /\ Len(<<>>) = 0
      BY <2>1
    <2>3. Len(events[c]) = Len(read[c])
      BY <2>1, <2>2
    <2> QED BY <2>1, <2>2, <2>3
  <1> QED BY <1>1, <1>2 DEF Dhcp!DhcpTypeOK, Dhcp!QueriesTypeOK, Links

-------------------------------------------------------------------------------
(* More about two sequences, one after the other *)

LEMMA SelectedConcat ==
    ASSUME NEW S, NEW s \in Seq(S), NEW t \in Seq(S), NEW X
    PROVE  Selected(s \o t, X) = Selected(s, X) \o Selected(t, X)
  <1> DEFINE w == s \o t
             I == {i \in DOMAIN w : w[i] \in X}
             J == {i \in DOMAIN s : s[i] \in X}
             K == {i \in DOMAIN t : t[i] \in X}
  <1>0. IsLog(s) /\ IsLog(t)
    BY DEF IsLog
  <1>1. /\ Len(s) \in Nat /\ Len(t) \in Nat
        /\ DOMAIN s = 1 .. Len(s) /\ DOMAIN t = 1 .. Len(t) /\ DOMAIN w = 1 .. Len(s) + Len(t)
        /\ \A i \in 1 .. Len(s) : w[i] = s[i]
        /\ \A i \in 1 .. Len(t) : w[Len(s) + i] = t[i]
    BY <1>0, LogConcat
  <1>2. Selected(w, X) = At(w, I) /\ Selected(s, X) = At(s, J) /\ Selected(t, X) = At(t, K)
    BY DEF Selected
  <1>3. SameUpTo(Len(s), I, J) /\ SameBehind(Len(s), Len(t), I, K)
    <2> HIDE DEF w
    <2>1. \A i \in 1 .. Len(s) : i \in DOMAIN w
      BY <1>1
    <2>2. \A i \in 1 .. Len(t) : Len(s) + i \in DOMAIN w
      BY <1>1
    <2> QED BY <1>1, <2>1, <2>2 DEF SameUpTo, SameBehind
  <1> HIDE DEF I, J, K
  <1>4. At(s \o t, I) = At(s, J) \o At(t, K)
    BY <1>3, AtConcat
  <1> QED BY <1>2, <1>4

LEMMA ThroughType ==
    ASSUME NEW g, NEW s, IsLog(s)
    PROVE  IsLog(Through(g, s)) /\ Len(Through(g, s)) = Len(s)
  <1>1. PICK S : s \in Seq(S)
    BY DEF IsLog
  <1> DEFINE f == Through(g, s)
             T == {g[s[i]] : i \in 1 .. Len(s)}
  <1>2. Len(s) \in Nat /\ DOMAIN s = 1 .. Len(s)
    BY <1>1
  <1>3. f \in [1 .. Len(s) -> T]
    BY <1>2 DEF Through
  <1> HIDE DEF f, T
  <1>4. f \in Seq(T) /\ Len(f) = Len(s)
    BY <1>2, <1>3, FunctionIsSequence
  <1> QED BY <1>4 DEF IsLog, f

LEMMA ThroughConcat ==
    ASSUME NEW g, NEW S, NEW s \in Seq(S), NEW t \in Seq(S)
    PROVE  Through(g, s \o t) = Through(g, s) \o Through(g, t)
  <1> DEFINE P == {u \in Seq(S) : Through(g, s \o u) = Through(g, s) \o Through(g, u)}
  <1>0. IsLog(s) /\ IsLog(Through(g, s))
    <2>1. IsLog(s)
      BY DEF IsLog
    <2> QED BY <2>1, ThroughType
  <1>1. <<>> \in P
    <2>1. <<>> \in Seq(S) /\ s \o <<>> = s /\ Through(g, s) \o <<>> = Through(g, s)
      BY <1>0, EmptySeq, LogConcat, NoEntries
    <2> QED BY <2>1, ThroughNone
  <1>2. ASSUME NEW u \in Seq(S), NEW e \in S, u \in P PROVE Append(u, e) \in P
    <2>1. Append(u, e) \in Seq(S) /\ IsLog(u) /\ IsLog(s \o u) /\ s \o Append(u, e) = Append(s \o u, e)
      <3>1. Append(u, e) \in Seq(S) /\ s \o u \in Seq(S)
        BY AppendProperties, ConcatProperties
      <3>2. s \o Append(u, e) = Append(s \o u, e)
        BY ConcatAppend
      <3> QED BY <3>1, <3>2 DEF IsLog
    <2>2. Through(g, s \o u) = Through(g, s) \o Through(g, u)
      BY <1>2
    <2> HIDE DEF P
    <2>3. Through(g, Append(u, e)) = Append(Through(g, u), g[e])
      BY <2>1, ThroughMore
    <2>4. Through(g, Append(s \o u, e)) = Append(Through(g, s \o u), g[e])
      BY <2>1, ThroughMore
    <2>5. Through(g, s) \o Append(Through(g, u), g[e]) = Append(Through(g, s) \o Through(g, u), g[e])
      BY <1>0, <2>1, ThroughType, ConcatMore
    <2>6. Through(g, s \o Append(u, e)) = Through(g, s) \o Through(g, Append(u, e))
      BY <2>1, <2>2, <2>3, <2>4, <2>5
    <2> QED BY <2>1, <2>6 DEF P
  <1> HIDE DEF P
  <1>3. t \in P
    BY <1>1, <1>2, GrowingSequence
  <1> QED BY <1>3 DEF P

\* The elements of two sequences, one after the other.
LEMMA ElementsConcat ==
    ASSUME NEW s, IsLog(s), NEW t, IsLog(t)
    PROVE  Elements(s \o t) = Elements(s) \union Elements(t)
  <1>1. PICK S : s \in Seq(S) /\ t \in Seq(S)
    BY CommonSet
  <1> DEFINE P == {u \in Seq(S) : Elements(s \o u) = Elements(s) \union Elements(u)}
  <1>2. <<>> \in P
    <2>1. <<>> \in Seq(S) /\ s \o <<>> = s /\ Elements(<<>>) = {}
      BY LogConcat, EmptySeq, NoEntries DEF Elements
    <2> QED BY <2>1
  <1>3. ASSUME NEW u \in Seq(S), NEW e \in S, u \in P PROVE Append(u, e) \in P
    <2>1. Append(u, e) \in Seq(S) /\ IsLog(u)
      BY AppendProperties DEF IsLog
    <2>2. IsLog(s \o u) /\ s \o Append(u, e) = Append(s \o u, e)
      <3>1. IsLog(s \o u)
        BY <2>1, LogConcat
      <3>2. s \o Append(u, e) = Append(s \o u, e)
        BY <2>1, ConcatMore
      <3> QED BY <3>1, <3>2
    <2>3. Elements(s \o u) = Elements(s) \union Elements(u)
      BY <1>3
    <2> HIDE DEF P
    <2>4. Elements(Append(u, e)) = Elements(u) \union {e}
      BY <2>1, ElementsAppend
    <2>5. Elements(Append(s \o u, e)) = Elements(s \o u) \union {e}
      BY <2>2, ElementsAppend
    <2>6. Elements(s \o Append(u, e)) = Elements(s) \union Elements(Append(u, e))
      BY <2>2, <2>3, <2>4, <2>5
    <2> QED BY <2>1, <2>6 DEF P
  <1> HIDE DEF P
  <1>4. t \in P
    BY <1>1, <1>2, <1>3, GrowingSequence
  <1> QED BY <1>4 DEF P

-------------------------------------------------------------------------------
(* sip *)

Messages == [kind : {"request", "response"}, id : STRING, via : {"none", "sound", "odd"}]
IdOf == [m \in Messages |-> m.id]

\* Messages that can be handled, and those that can be answered, too.
Fit(m) == ~Sip!Raising(m)
IsSound(m) == ~Sip!Raising(m) /\ m.via = "sound"

\* What is logged of the messages that are handled.
Handle == [m \in Messages |-> Sip!HandleRequest(m)]
Logging(h) == Joined(Through(Handle, h))

LEMMA SipLogging ==
    ASSUME NEW h \in Seq(Messages)
    PROVE  /\ IsLog(Logging(h)) /\ Len(Logging(h)) = 2 * Len(h)
           /\ Data(Logging(h), "request") = Through(IdOf, h)
  <1> DEFINE P == {u \in Seq(Messages) : /\ IsLog(Logging(u)) /\ Len(Logging(u)) = 2 * Len(u)
                                         /\ Data(Logging(u), "request") = Through(IdOf, u)}
             Z == {Handle[m] : m \in Messages}
  <1>1. <<>> \in P
    <2>1. Logging(<<>>) = <<>> /\ <<>> \in Seq(Messages) /\ Len(<<>>) = 2 * Len(<<>>)
      BY ThroughNone, JoinedEmpty, EmptySeq DEF Logging
    <2> QED BY <2>1, NoEntries, ThroughNone
  <1>2. ASSUME NEW u \in Seq(Messages), NEW m \in Messages, u \in P PROVE Append(u, m) \in P
    <2> DEFINE x == [action |-> "connection"]
               y == [action |-> "request", data |-> m.id]
               v == Append(u, m)
    <2>1. /\ v \in Seq(Messages) /\ Len(v) = Len(u) + 1 /\ Len(u) \in Nat /\ IsLog(u)
      BY AppendProperties DEF IsLog
    <2>2. Through(Handle, u) \in Seq(Z) /\ Handle[m] \in Z
      <3>1. Len(u) \in Nat /\ DOMAIN u = 1 .. Len(u) /\ \A i \in 1 .. Len(u) : u[i] \in Messages
        OBVIOUS
      <3>2. Through(Handle, u) \in [1 .. Len(u) -> Z]
        BY <3>1 DEF Through
      <3> HIDE DEF Z
      <3>3. Through(Handle, u) \in Seq(Z)
        BY <3>1, <3>2, FunctionIsSequence
      <3> QED BY <3>3 DEF Z
    <2>3. Through(Handle, v) = Append(Through(Handle, u), Handle[m])
      BY <2>1, ThroughMore
    <2>4. Handle[m] = <<x, y>>
      BY DEF Handle, Sip!HandleRequest, Sip!Connection
    <2>5. /\ x.action # "request" /\ y.action = "request" /\ y.data = m.id
      OBVIOUS
    <2>6. /\ IsLog(Logging(u)) /\ Len(Logging(u)) = 2 * Len(u)
          /\ Data(Logging(u), "request") = Through(IdOf, u)
      BY <1>2
    <2> HIDE DEF P, Z
    <2>7. Logging(v) = Logging(u) \o <<x, y>>
      <3>1. Joined(Append(Through(Handle, u), Handle[m])) = Joined(Through(Handle, u)) \o Handle[m]
        BY <2>2, JoinedAppend
      <3> QED BY <2>3, <2>4, <3>1 DEF Logging
    <2> HIDE DEF x, y, v
    <2> DEFINE g == Append(Logging(u), x)
    <2>8. Logging(v) = Append(g, y)
      BY <2>6, <2>7, TwoMore
    <2>9. /\ IsLog(g) /\ Len(g) = Len(Logging(u)) + 1 /\ Data(g, "request") = Data(Logging(u), "request")
      BY <2>5, <2>6, LogAppend, DataMore
    <2> HIDE DEF g
    <2>10. /\ IsLog(Append(g, y)) /\ Len(Append(g, y)) = Len(g) + 1
           /\ Data(Append(g, y), "request") = Append(Data(g, "request"), y.data)
      BY <2>5, <2>9, LogAppend, DataMore
    <2>11. Through(IdOf, v) = Append(Through(IdOf, u), m.id)
      <3>1. Through(IdOf, Append(u, m)) = Append(Through(IdOf, u), IdOf[m])
        BY <2>1, ThroughMore
      <3>2. IdOf[m] = m.id
        BY DEF IdOf
      <3> QED BY <3>1, <3>2 DEF v
    <2>12. Len(Logging(v)) = 2 * Len(v)
      BY <2>1, <2>6, <2>8, <2>9, <2>10
    <2>13. IsLog(Logging(v)) /\ Data(Logging(v), "request") = Through(IdOf, v)
      BY <2>5, <2>6, <2>8, <2>9, <2>10, <2>11
    <2> QED BY <2>1, <2>12, <2>13 DEF P, v
  <1> HIDE DEF P
  <1>3. h \in P
    BY <1>1, <1>2, GrowingSequence
  <1> QED BY <1>3 DEF P

\* The elements of a part of a sequence.
LEMMA ElementsAt ==
    ASSUME NEW S, NEW s \in Seq(S), NEW I
    PROVE  Elements(At(s, I)) \subseteq Elements(s)
  <1> DEFINE E == Elements(s)
  <1>1. s \in Seq(E)
    BY DEF Elements
  <1> HIDE DEF E
  <1>2. At(s, I) \in Seq(E)
    BY <1>1, AtType
  <1>3. Elements(At(s, I)) \subseteq E
    BY <1>2 DEF Elements
  <1> QED BY <1>3 DEF E

\* At no more positions than there are.
LEMMA AtShorter ==
    ASSUME NEW S, NEW s \in Seq(S), NEW I \in SUBSET (1 .. Len(s))
    PROVE  /\ Len(At(s, I)) \in Nat /\ Len(At(s, I)) <= Len(s)
           /\ Len(At(s, I)) = Len(s) => At(s, I) = s
  <1> DEFINE n == Len(s)
  <1>1. n \in Nat
    OBVIOUS
  <1>2. IsFiniteSet(1 .. n) /\ Cardinality(1 .. n) = n
    <2>1. \A p, q \in Int : IsFiniteSet(p .. q) /\ Cardinality(p .. q) = IF p > q THEN 0 ELSE q - p + 1
      BY FS_Interval
    <2>2. 1 \in Int /\ n \in Int
      BY <1>1
    <2>3. IsFiniteSet(1 .. n) /\ Cardinality(1 .. n) = IF 1 > n THEN 0 ELSE n - 1 + 1
      BY <2>1, <2>2, Zenon
    <2> HIDE DEF n
    <2>4. (IF 1 > n THEN 0 ELSE n - 1 + 1) = n
      BY <1>1
    <2> QED BY <2>3, <2>4
  <1>3. Cardinality(I) = Len(At(s, I))
    BY CountAt
  <1>4. /\ Cardinality(I) <= Cardinality(1 .. n) /\ IsFiniteSet(I)
        /\ Cardinality(1 .. n) = Cardinality(I) => 1 .. n = I
    BY <1>2, FS_Subset
  <1>5. Cardinality(I) \in Nat
    BY <1>4, FS_CardinalityType
  <1>6. ASSUME Len(At(s, I)) = n PROVE At(s, I) = s
    <2>1. 1 .. n = I
      BY <1>2, <1>3, <1>4, <1>6
    <2>2. \A i \in 1 .. Len(s) : i \in I
      BY <2>1
    <2> QED BY <2>2, AtAll
  <1> QED BY <1>2, <1>3, <1>4, <1>5, <1>6

\* Those handled are some of the messages: all, if as many, and if all are sound.
LEMMA SipHandles ==
    ASSUME NEW ms \in Seq(Messages)
    PROVE  /\ Sip!Handled(ms) \in Seq(Messages) /\ Elements(Sip!Handled(ms)) \subseteq Elements(ms)
           /\ Len(Sip!Handled(ms)) \in Nat /\ Len(Sip!Handled(ms)) <= Len(ms)
           /\ Len(Sip!Handled(ms)) = Len(ms) => Sip!Handled(ms) = ms
           /\ (\A m \in Elements(ms) : IsSound(m)) => Sip!Handled(ms) = ms
  <1> DEFINE I == {i \in DOMAIN ms : Sip!Failing(ms) \intersect 1 .. i = {}}
  <1>1. Sip!Handled(ms) = At(ms, I)
    BY DEF Sip!Handled, Sip!At, At
  <1>2. I \in SUBSET (1 .. Len(ms)) /\ DOMAIN ms = 1 .. Len(ms)
    OBVIOUS
  <1>3. ASSUME \A m \in Elements(ms) : IsSound(m) PROVE At(ms, I) = ms
    <2>1. Sip!Failing(ms) = {}
      BY <1>3 DEF Elements, IsSound, Sip!Failing
    <2>2. \A i \in 1 .. Len(ms) : i \in I
      BY <1>2, <2>1
    <2> HIDE DEF I
    <2> QED BY <2>2, AtAll
  <1> HIDE DEF I
  <1>4. At(ms, I) \in Seq(Messages) /\ Elements(At(ms, I)) \subseteq Elements(ms)
    BY AtType, ElementsAt
  <1>5. /\ Len(At(ms, I)) \in Nat /\ Len(At(ms, I)) <= Len(ms)
        /\ Len(At(ms, I)) = Len(ms) => At(ms, I) = ms
    BY <1>2, AtShorter
  <1> QED BY <1>1, <1>3, <1>4, <1>5

\* The first n + 1 of them: no fewer than n, and all if n are all.
LEMMA SipFirst ==
    ASSUME NEW h \in Seq(Messages), NEW n \in 0 .. Len(h)
    PROVE  LET g == At(h, {i \in DOMAIN h : i <= n + 1})
           IN  /\ g \in Seq(Messages) /\ Elements(g) \subseteq Elements(h)
               /\ Len(g) \in Nat /\ n <= Len(g)
               /\ n = Len(h) => g = h
  <1> DEFINE I == {i \in DOMAIN h : i <= n + 1}
  <1>1. Len(h) \in Nat /\ DOMAIN h = 1 .. Len(h) /\ n \in Nat /\ n <= Len(h)
    OBVIOUS
  <1>2. I \in SUBSET (1 .. Len(h)) /\ 1 .. n \in SUBSET I
    BY <1>1
  <1>3. n = Len(h) => \A i \in 1 .. Len(h) : i \in I
    BY <1>1
  <1> HIDE DEF I
  <1>4. Cardinality(I) = Len(At(h, I))
    BY <1>2, CountAt
  <1>5. IsFiniteSet(1 .. Len(h)) /\ Cardinality(1 .. n) = n
    <2>1. \A p, q \in Int : IsFiniteSet(p .. q) /\ Cardinality(p .. q) = IF p > q THEN 0 ELSE q - p + 1
      BY FS_Interval
    <2>2. 1 \in Int /\ n \in Int /\ Len(h) \in Int
      BY <1>1
    <2>3. IsFiniteSet(1 .. Len(h)) /\ Cardinality(1 .. n) = IF 1 > n THEN 0 ELSE n - 1 + 1
      BY <2>1, <2>2, Zenon
    <2>4. (IF 1 > n THEN 0 ELSE n - 1 + 1) = n
      BY <1>1
    <2> QED BY <2>3, <2>4
  <1>6. IsFiniteSet(I)
    BY <1>2, <1>5, FS_Subset
  <1>7. Cardinality(1 .. n) <= Cardinality(I)
    BY <1>2, <1>6, FS_Subset
  <1>8. Cardinality(I) \in Nat
    BY <1>6, FS_CardinalityType
  <1>9. At(h, I) \in Seq(Messages) /\ Elements(At(h, I)) \subseteq Elements(h)
    BY AtType, ElementsAt
  <1>10. n = Len(h) => At(h, I) = h
    BY <1>3, AtAll
  <1>11. Len(At(h, I)) \in Nat /\ n <= Len(At(h, I))
    BY <1>4, <1>5, <1>7, <1>8
  <1> QED BY <1>9, <1>10, <1>11 DEF I

-------------------------------------------------------------------------------
(* The invariant *)

SipOK(l, r, e, p) ==
    /\ Heard(Chunks.sip, l, r, e, p) /\ l = "open"
    /\ 2 * Len(p) <= Len(e) /\ Joined(r) \in Seq(Messages)

\* The messages of all peers, and what is logged.
AllSent == UNION {Elements(Joined(read[x])) : x \in Conns}
AllTold == UNION {Elements(Data(events[x], "request")) : x \in Conns}

\* Nothing is invented and nothing lost.
Accounted ==
    /\ Elements(pending) \subseteq AllSent
    /\ \A i \in AllTold : \E m \in AllSent : i = m.id
    /\ \A m \in AllSent : Fit(m) => m.id \in AllTold \/ m \in Elements(pending)

\* Nothing is left over of what the peers have sent.
Even == pending = <<>> /\ \A x \in Conns : Data(events[x], "request") = Through(IdOf, Joined(read[x]))

SipInv ==
    server = "sip" =>
        /\ Rows /\ \A c \in Conns : SipOK(link[c], read[c], events[c], replies[c])
        /\ pending \in Seq(Messages)
        /\ Accounted
        /\ (\A m \in AllSent : IsSound(m)) => Even

LEMMA SipStarts == Init /\ server = "sip" => SipInv
  <1> SUFFICES ASSUME Init, server = "sip" PROVE SipInv
    OBVIOUS
  <1>1. Sip!SipInit
    BY DEF Init
  <1>2. /\ link = [c \in Conns |-> "open"] /\ read = [c \in Conns |-> <<>>]
        /\ events = [c \in Conns |-> <<>>] /\ replies = [c \in Conns |-> <<>>]
        /\ pending = <<>>
    BY <1>1 DEF Sip!SipInit, Sip!UdpInit
  <1>3. Rows
    BY <1>2, Starting, Zenon DEF Rows
  <1>4. /\ SipOK("open", <<>>, <<>>, <<>>) /\ Data(<<>>, "request") = <<>> /\ Joined(<<>>) = <<>>
        /\ Through(IdOf, <<>>) = <<>> /\ Elements(<<>>) = {}
    <2>1. Heard(Chunks.sip, "open", <<>>, <<>>, <<>>)
      BY Unheard DEF Links
    <2>2. /\ Data(<<>>, "request") = <<>> /\ <<>> \in Seq(Messages) /\ 2 * Len(<<>>) <= Len(<<>>)
      BY NoEntries, EmptySeq
    <2>3. Elements(<<>>) = {}
      BY DEF Elements
    <2> QED BY <2>1, <2>2, <2>3, JoinedEmpty, ThroughNone, Zenon DEF SipOK
  <1>5. ASSUME NEW c \in Conns
        PROVE  /\ SipOK(link[c], read[c], events[c], replies[c])
               /\ Data(events[c], "request") = <<>> /\ Joined(read[c]) = <<>>
    <2>1. link[c] = "open" /\ read[c] = <<>> /\ events[c] = <<>> /\ replies[c] = <<>>
      BY <1>2
    <2> QED BY <1>4, <2>1, Zenon
  <1>6. pending \in Seq(Messages)
    BY <1>2, EmptySeq
  <1>7. AllSent = {} /\ AllTold = {}
    BY <1>4, <1>5 DEF AllSent, AllTold
  <1>8. Accounted
    BY <1>2, <1>4, <1>7 DEF Accounted
  <1>9. Even
    BY <1>2, <1>4, <1>5 DEF Even
  <1> QED BY <1>3, <1>5, <1>6, <1>8, <1>9 DEF SipInv

\* A step is that of one peer: h is what it logs, q what it answers.
SipStep(c, d, h, q) ==
    /\ Steps(c, "open", Append(read[c], d), events[c] \o Logging(h), replies[c] \o q)
    /\ IsLog(q) /\ Len(q) <= Len(h)
    /\ Elements(h) \subseteq Elements(pending \o d)
    /\ \/ pending' = pending \o d
       \/ pending' = <<>> /\ h = pending \o d
    /\ (\A m \in Elements(pending \o d) : IsSound(m)) => pending' = <<>> /\ h = pending \o d

LEMMA SipNexts ==
    ASSUME SipInv, server = "sip", Sip!SipNext, server' = server
    PROVE  \E c \in Conns, d \in Chunks.sip, h \in Seq(Messages) : \E q : SipStep(c, d, h, q)
  <1>0. Rows /\ pending \in Seq(Messages) /\ \A c \in Conns : link[c] = "open"
    BY DEF SipInv, SipOK
  <1>1. PICK c \in Conns, d \in Chunks.sip : Sip!DatagramReceived(c, d)
    BY DEF Sip!SipNext
  <1> DEFINE ms == pending \o d
             k == Sip!Handled(ms)
  <1>2. PICK n \in Sip!Answerable(k) :
             LET g == Sip!At(k, {i \in DOMAIN k : i <= n + 1})
             IN  /\ events' = [events EXCEPT ![c] = @ \o Sip!Joined([i \in DOMAIN g |-> Sip!HandleRequest(g[i])])]
                 /\ replies' = [replies EXCEPT ![c] = @ \o [i \in 1 .. n |-> k[i].id]]
                 /\ pending' = Sip!Rest(ms, n)
    BY <1>1 DEF Sip!DatagramReceived, Sip!LogAll
  <1>3. link' = link /\ read' = [read EXCEPT ![c] = Append(@, d)]
    BY <1>1 DEF Sip!DatagramReceived, Sip!Received
  <1>4. ms \in Seq(Messages)
    <2>1. d \in Seq(Messages)
      BY SipAssumption DEF Messages
    <2> QED BY <1>0, <2>1, ConcatProperties
  <1> DEFINE h == At(k, {i \in DOMAIN k : i <= n + 1})
             es == Sip!Joined([i \in DOMAIN h |-> Sip!HandleRequest(h[i])])
             q == [i \in 1 .. n |-> k[i].id]
  <1>5. /\ events' = [events EXCEPT ![c] = @ \o es] /\ replies' = [replies EXCEPT ![c] = @ \o q]
        /\ pending' = Sip!Rest(ms, n)
    <2>1. Sip!At(k, {i \in DOMAIN k : i <= n + 1}) = h
      BY DEF Sip!At, At
    <2> QED BY <1>2, <2>1
  <1> HIDE DEF ms
  <1>6. /\ k \in Seq(Messages) /\ Elements(k) \subseteq Elements(ms)
        /\ Len(k) \in Nat /\ Len(k) <= Len(ms)
        /\ Len(k) = Len(ms) => k = ms
        /\ (\A m \in Elements(ms) : IsSound(m)) => k = ms
    BY <1>4, SipHandles
  <1> HIDE DEF k
  <1>7. n \in 0 .. Len(k) /\ (n < Len(k) => k[n + 1].via = "odd")
    BY <1>2 DEF Sip!Answerable
  <1>8. /\ h \in Seq(Messages) /\ Elements(h) \subseteq Elements(k)
        /\ Len(h) \in Nat /\ n <= Len(h)
        /\ n = Len(k) => h = k
    BY <1>6, <1>7, SipFirst
  <1>9. IsLog(q) /\ Len(q) = n
    <2> DEFINE T == {k[i].id : i \in 1 .. n}
    <2>1. q \in [1 .. n -> T] /\ n \in Nat
      BY <1>7
    <2> HIDE DEF q, T
    <2>2. q \in Seq(T) /\ Len(q) = n
      BY <2>1, FunctionIsSequence
    <2> QED BY <2>2 DEF IsLog
  <1> HIDE DEF h, q
  <1>10. es = Logging(h)
    <2>1. \A i \in DOMAIN h : h[i] \in Messages
      BY <1>8
    <2>2. [i \in DOMAIN h |-> Sip!HandleRequest(h[i])] = Through(Handle, h)
      BY <2>1 DEF Through, Handle
    <2>3. \A t : Sip!Joined(t) = Joined(t)
      BY DEF Sip!Joined, Joined
    <2>4. es = Joined(Through(Handle, h))
      BY <2>2, <2>3
    <2> QED BY <2>4 DEF Logging
  <1> HIDE DEF es
  <1>11. Steps(c, "open", Append(read[c], d), events[c] \o es, replies[c] \o q)
    BY <1>0, <1>1, <1>3, <1>5, Changed, Kept DEF Rows, Steps
  <1>12. pending' = ms \/ (pending' = <<>> /\ h = ms)
    <2>1. CASE n = Len(ms)
      <3>1. n = Len(k) /\ Len(k) = Len(ms)
        BY <1>6, <1>7, <2>1
      <3> QED BY <1>5, <1>6, <1>8, <2>1, <3>1 DEF Sip!Rest
    <2>2. CASE n # Len(ms)
      BY <1>5, <2>2 DEF Sip!Rest
    <2> QED BY <2>1, <2>2
  <1>13. ASSUME \A m \in Elements(ms) : IsSound(m) PROVE pending' = <<>> /\ h = ms
    <2>1. k = ms
      BY <1>6, <1>13
    <2>2. n = Len(k)
      <3>1. ASSUME n < Len(k) PROVE FALSE
        <4>1. n + 1 \in DOMAIN k
          BY <1>6, <1>7, <3>1
        <4>2. k[n + 1] \in Elements(ms)
          BY <2>1, <4>1 DEF Elements
        <4>3. k[n + 1].via = "sound"
          BY <1>13, <4>2 DEF IsSound
        <4> QED BY <1>7, <3>1, <4>3
      <3> QED BY <1>6, <1>7, <3>1
    <2>3. pending' = <<>>
      BY <1>5, <2>1, <2>2 DEF Sip!Rest
    <2> QED BY <1>8, <2>1, <2>2, <2>3
  <1>14. Steps(c, "open", Append(read[c], d), events[c] \o Logging(h), replies[c] \o q)
    BY <1>10, <1>11, Zenon
  <1>15. Elements(h) \subseteq Elements(ms) /\ Len(q) <= Len(h)
    BY <1>6, <1>8, <1>9
  <1>16. SipStep(c, d, h, q)
    BY <1>9, <1>12, <1>13, <1>14, <1>15 DEF SipStep, ms
  <1> QED BY <1>8, <1>16

\* A datagram was read, and some messages were handled.
LEMMA SipReads ==
    ASSUME NEW r, NEW e, NEW p, SipOK("open", r, e, p), NEW d \in Chunks.sip, NEW h \in Seq(Messages),
           NEW q, IsLog(q), Len(q) <= Len(h)
    PROVE  /\ SipOK("open", Append(r, d), e \o Logging(h), p \o q)
           /\ Joined(Append(r, d)) = Joined(r) \o d
           /\ Data(e \o Logging(h), "request") = Data(e, "request") \o Through(IdOf, h)
           /\ IsLog(Data(e, "request"))
  <1>1. /\ r \in Seq(Chunks.sip) /\ IsLog(r) /\ IsLog(e) /\ IsLog(p) /\ 2 * Len(p) <= Len(e)
        /\ Joined(r) \in Seq(Messages)
    BY DEF SipOK, Heard
  <1>2. d \in Seq(Messages) /\ Chunks.sip \subseteq Seq(Messages)
    BY SipAssumption DEF Messages
  <1>3. Append(r, d) \in Seq(Chunks.sip) /\ IsLog(Append(r, d))
    BY <1>1, AppendProperties DEF IsLog
  <1>4. Joined(Append(r, d)) = Joined(r) \o d
    BY <1>1, JoinedAppend
  <1>5. Joined(r) \o d \in Seq(Messages)
    BY <1>1, <1>2, ConcatProperties
  <1>6. /\ IsLog(Logging(h)) /\ Len(Logging(h)) = 2 * Len(h)
        /\ Data(Logging(h), "request") = Through(IdOf, h)
    BY SipLogging
  <1>7. Len(h) \in Nat
    OBVIOUS
  <1>9. /\ IsLog(e \o Logging(h)) /\ Len(e) \in Nat
        /\ Len(e \o Logging(h)) = Len(e) + Len(Logging(h))
    BY <1>1, <1>6, LogConcat
  <1>10. /\ IsLog(p \o q) /\ Len(p) \in Nat /\ Len(q) \in Nat
         /\ Len(p \o q) = Len(p) + Len(q)
    BY <1>1, LogConcat
  <1>11. Data(e \o Logging(h), "request") = Data(e, "request") \o Data(Logging(h), "request")
    <2>1. \A u, v, action : IsLog(u) /\ IsLog(v) =>
             Data(u \o v, action) = Data(u, action) \o Data(v, action)
      BY MoreEntries
    <2>2. IsLog(e) /\ IsLog(Logging(h))
      BY <1>1, <1>6
    <2> QED BY <2>1, <2>2
  <1>12. IsLog(Data(e, "request"))
    BY <1>1, EntryType
  <1>13. 2 * Len(p \o q) <= Len(e \o Logging(h))
    BY <1>1, <1>6, <1>7, <1>9, <1>10
  <1>14. Heard(Chunks.sip, "open", Append(r, d), e \o Logging(h), p \o q)
    BY <1>3, <1>9, <1>10 DEF Heard, Links
  <1> QED BY <1>4, <1>5, <1>6, <1>11, <1>12, <1>13, <1>14 DEF SipOK

\* The elements of a sequence of messages, and their numbers.
LEMMA IdsOfMessages ==
    ASSUME NEW s \in Seq(Messages)
    PROVE  /\ Elements(Through(IdOf, s)) = {m.id : m \in Elements(s)}
           /\ Elements(s) \subseteq Messages /\ IsLog(s) /\ IsLog(Through(IdOf, s))
           /\ Through(IdOf, s) = [i \in DOMAIN s |-> s[i].id]
  <1>1. \A i \in DOMAIN s : s[i] \in Messages
    OBVIOUS
  <1>2. IsLog(s)
    BY DEF IsLog
  <1>3. IsLog(Through(IdOf, s))
    BY <1>2, ThroughType
  <1> QED BY <1>1, <1>2, <1>3 DEF Elements, Through, IdOf

LEMMA SipSteps ==
    ASSUME SipInv, server = "sip", Sip!SipNext, server' = server
    PROVE  SipInv'
  <1>0. /\ Rows /\ pending \in Seq(Messages)
        /\ \A x \in Conns : /\ link[x] = "open"
                            /\ SipOK("open", read[x], events[x], replies[x])
        /\ Accounted /\ ((\A m \in AllSent : IsSound(m)) => Even)
    BY DEF SipInv, SipOK
  <1>a. PICK c \in Conns, d \in Chunks.sip, h \in Seq(Messages) : \E q : SipStep(c, d, h, q)
    BY SipNexts
  <1>1. PICK q : SipStep(c, d, h, q)
    BY <1>a
  <1> DEFINE ms == pending \o d
  <1>2. /\ Steps(c, "open", Append(read[c], d), events[c] \o Logging(h), replies[c] \o q)
        /\ IsLog(q) /\ Len(q) <= Len(h) /\ Elements(h) \subseteq Elements(ms)
        /\ pending' = ms \/ (pending' = <<>> /\ h = ms)
        /\ (\A m \in Elements(ms) : IsSound(m)) => pending' = <<>> /\ h = ms
    BY <1>1 DEF SipStep
  <1>3. /\ d \in Seq(Messages) /\ ms \in Seq(Messages) /\ <<>> \in Seq(Messages)
        /\ Elements(ms) = Elements(pending) \union Elements(d)
    <2>1. d \in Seq(Messages)
      BY SipAssumption DEF Messages
    <2>2. Elements(pending \o d) = Elements(pending) \union Elements(d)
      <3>1. IsLog(pending) /\ IsLog(d)
        BY <1>0, <2>1 DEF IsLog
      <3> QED BY <3>1, ElementsConcat
    <2> QED BY <1>0, <2>1, <2>2, ConcatProperties, EmptySeq
  <1>4. pending = <<>> => ms = d
    BY <1>3, ConcatEmptySeq
  <1> HIDE DEF ms
  <1>5. /\ server' = server /\ Rows' /\ link'[c] = "open"
        /\ read'[c] = Append(read[c], d) /\ events'[c] = events[c] \o Logging(h)
        /\ replies'[c] = replies[c] \o q
        /\ \A x \in Conns \ {c} : /\ link'[x] = link[x] /\ read'[x] = read[x]
                                  /\ events'[x] = events[x] /\ replies'[x] = replies[x]
    BY <1>2 DEF Steps, Sets, Rows
  <1>6. /\ SipOK("open", Append(read[c], d), events[c] \o Logging(h), replies[c] \o q)
        /\ Joined(Append(read[c], d)) = Joined(read[c]) \o d
        /\ Data(events[c] \o Logging(h), "request") = Data(events[c], "request") \o Through(IdOf, h)
        /\ IsLog(Data(events[c], "request"))
    BY <1>0, <1>2, SipReads
  <1>7. \A x \in Conns : SipOK(link[x], read[x], events[x], replies[x])'
    <2> TAKE x \in Conns
    <2>1. CASE x = c
      BY <1>5, <1>6, <2>1
    <2>2. CASE x # c
      BY <1>0, <1>5, <2>2
    <2> QED BY <2>1, <2>2
  <1>8. AllSent' = AllSent \union Elements(d)
    <2> DEFINE S == [x \in Conns |-> Elements(Joined(read[x]))]
               T == [x \in Conns |-> Elements(Joined(read'[x]))]
    <2>1. Joined(read'[c]) = Joined(read[c]) \o d
      BY <1>5, <1>6
    <2>2. Elements(Joined(read[c]) \o d) = Elements(Joined(read[c])) \union Elements(d)
      <3>1. IsLog(Joined(read[c])) /\ IsLog(d)
        BY <1>0, <1>3 DEF SipOK, IsLog
      <3> QED BY <3>1, ElementsConcat
    <2>3. T[c] = S[c] \union Elements(d) /\ \A x \in Conns \ {c} : T[x] = S[x]
      BY <1>5, <2>1, <2>2
    <2>4. AllSent = UNION {S[x] : x \in Conns} /\ AllSent' = UNION {T[x] : x \in Conns}
      BY DEF AllSent
    <2> HIDE DEF S, T
    <2> QED BY <2>3, <2>4
  <1>9. AllTold' = AllTold \union {m.id : m \in Elements(h)}
    <2> DEFINE S == [x \in Conns |-> Elements(Data(events[x], "request"))]
               T == [x \in Conns |-> Elements(Data(events'[x], "request"))]
    <2>1. Data(events'[c], "request") = Data(events[c], "request") \o Through(IdOf, h)
      BY <1>5, <1>6
    <2>2. Elements(Data(events[c], "request") \o Through(IdOf, h)) =
             Elements(Data(events[c], "request")) \union Elements(Through(IdOf, h))
      BY <1>6, IdsOfMessages, ElementsConcat
    <2>3. Elements(Through(IdOf, h)) = {m.id : m \in Elements(h)}
      BY IdsOfMessages
    <2>4. T[c] = S[c] \union {m.id : m \in Elements(h)} /\ \A x \in Conns \ {c} : T[x] = S[x]
      BY <1>5, <2>1, <2>2, <2>3
    <2>5. AllTold = UNION {S[x] : x \in Conns} /\ AllTold' = UNION {T[x] : x \in Conns}
      BY DEF AllTold
    <2> HIDE DEF S, T
    <2> QED BY <2>4, <2>5
  <1>10. pending' \in Seq(Messages)
    BY <1>2, <1>3
  <1>11. Elements(pending') \subseteq Elements(ms)
    <2>1. Elements(<<>>) = {}
      BY DEF Elements
    <2> QED BY <1>2, <2>1
  <1>12. Accounted'
    <2>1. /\ Elements(pending) \subseteq AllSent
          /\ \A i \in AllTold : \E m \in AllSent : i = m.id
          /\ \A m \in AllSent : Fit(m) => m.id \in AllTold \/ m \in Elements(pending)
      BY <1>0 DEF Accounted
    <2>2. Elements(ms) \subseteq AllSent'
      BY <1>3, <1>8, <2>1
    <2>3. ASSUME NEW i \in AllTold' PROVE \E m \in AllSent' : i = m.id
      <3>1. CASE i \in AllTold
        BY <1>8, <2>1, <3>1
      <3>2. ASSUME NEW m \in Elements(h), i = m.id PROVE \E n \in AllSent' : i = n.id
        BY <1>2, <2>2, <3>2
      <3> QED BY <1>9, <2>3, <3>1, <3>2
    <2>4. ASSUME NEW m \in AllSent', Fit(m) PROVE m.id \in AllTold' \/ m \in Elements(pending')
      <3>1. CASE m \in AllSent /\ m.id \in AllTold
        BY <1>9, <3>1
      <3>2. m \in Elements(ms) => m.id \in AllTold' \/ m \in Elements(pending')
        <4>1. CASE pending' = ms
          BY <4>1
        <4>2. CASE h = ms
          BY <1>9, <4>2
        <4> QED BY <1>2, <4>1, <4>2
      <3>3. m \in AllSent /\ m.id \notin AllTold => m \in Elements(ms)
        BY <1>3, <2>1, <2>4
      <3>4. m \notin AllSent => m \in Elements(ms)
        BY <1>3, <1>8, <2>4
      <3> QED BY <3>1, <3>2, <3>3, <3>4
    <2> QED BY <1>11, <2>2, <2>3, <2>4 DEF Accounted, Fit, Sip!Raising
  <1>13. ASSUME \A m \in AllSent' : IsSound(m) PROVE Even'
    <2>1. Even
      BY <1>0, <1>8, <1>13
    <2>2. ms = d /\ \A m \in Elements(ms) : IsSound(m)
      BY <1>3, <1>4, <1>8, <1>13, <2>1 DEF Even
    <2>3. pending' = <<>> /\ h = d
      BY <1>2, <2>2
    <2>4. ASSUME NEW x \in Conns PROVE Data(events'[x], "request") = Through(IdOf, Joined(read'[x]))
      <3>1. CASE x = c
        <4>1. Joined(read[c]) \in Seq(Messages)
          BY <1>0 DEF SipOK
        <4>2. Through(IdOf, Joined(read[c]) \o d) = Through(IdOf, Joined(read[c])) \o Through(IdOf, d)
          BY <1>3, <4>1, ThroughConcat
        <4>3. Data(events[c], "request") = Through(IdOf, Joined(read[c]))
          BY <2>1 DEF Even
        <4> QED BY <1>5, <1>6, <2>3, <3>1, <4>2, <4>3
      <3>2. CASE x # c
        BY <1>5, <2>1, <3>2 DEF Even
      <3> QED BY <3>1, <3>2
    <2> QED BY <2>3, <2>4 DEF Even
  <1>14. ((\A m \in AllSent : IsSound(m)) => Even)'
    BY <1>13 DEF IsSound, Sip!Raising
  <1> QED BY <1>5, <1>7, <1>10, <1>12, <1>14 DEF SipInv

\* The invariant says what SipTypeOK and MessagesAreLogged say.
LEMMA SipSays ==
    ASSUME SipInv, server = "sip"
    PROVE  Sip!SipTypeOK /\ Sip!MessagesAreLogged
  <1>0. /\ Rows /\ pending \in Seq(Messages) /\ Accounted
        /\ (\A m \in AllSent : IsSound(m)) => Even
        /\ \A c \in Conns : SipOK(link[c], read[c], events[c], replies[c])
    BY DEF SipInv
  <1>1. Sip!SipTypeOK
    <2>1. link \in [Conns -> {"open"}]
      BY <1>0 DEF Rows, IsRow, SipOK
    <2>2. \A i \in DOMAIN pending : pending[i].kind \in {"request", "response"}
      <3>1. \A i \in DOMAIN pending : pending[i] \in Messages
        BY <1>0
      <3> QED BY <3>1 DEF Messages
    <2> QED BY <1>0, <2>1, <2>2 DEF Sip!SipTypeOK, SipOK
  <1>2. ASSUME NEW c \in Conns
        PROVE  /\ Sip!Sent(c) = Joined(read[c]) /\ Sip!Ids(c) = Data(events[c], "request")
               /\ Joined(read[c]) \in Seq(Messages)
    <2>1. Sip!Sent(c) = Joined(read[c])
      BY DEF Sip!Sent, Sip!Joined, Joined
    <2>2. Sip!Ids(c) = Data(events[c], "request")
      BY DEF Sip!Ids, Sip!Matching, Matching, Sip!Positions, Positions, Sip!At, At, Data
    <2>3. Joined(read[c]) \in Seq(Messages)
      BY <1>0 DEF SipOK
    <2> QED BY <2>1, <2>2, <2>3
  <1> DEFINE told == UNION {{Sip!Ids(c)[i] : i \in DOMAIN Sip!Ids(c)} : c \in Conns}
             sent == UNION {Sip!IdsIn(Sip!Sent(c)) : c \in Conns}
             due == UNION {{Sip!Sent(c)[i].id : i \in DOMAIN Sip!Sent(c) \ Sip!Failing(Sip!Sent(c))} : c \in Conns}
  <1>3. told = AllTold
    <2>1. ASSUME NEW c \in Conns
          PROVE  {Sip!Ids(c)[i] : i \in DOMAIN Sip!Ids(c)} = Elements(Data(events[c], "request"))
      <3>1. Sip!Ids(c) = Data(events[c], "request")
        BY <1>2
      <3>2. \A s : {s[i] : i \in DOMAIN s} = Elements(s)
        BY DEF Elements
      <3> QED BY <3>1, <3>2, Zenon
    <2> QED BY <2>1 DEF AllTold
  <1>4. sent = {m.id : m \in AllSent}
    <2>1. \A c \in Conns : Sip!IdsIn(Sip!Sent(c)) = {m.id : m \in Elements(Joined(read[c]))}
      BY <1>2 DEF Sip!IdsIn, Elements
    <2> QED BY <2>1 DEF AllSent
  <1>5. \A i \in due : \E m \in AllSent : Fit(m) /\ i = m.id
    <2>1. ASSUME NEW c \in Conns, NEW k \in DOMAIN Sip!Sent(c) \ Sip!Failing(Sip!Sent(c))
          PROVE  Sip!Sent(c)[k] \in AllSent /\ Fit(Sip!Sent(c)[k])
      <3>1. Sip!Sent(c)[k] \in Elements(Joined(read[c]))
        BY <1>2, <2>1 DEF Elements
      <3>2. Fit(Sip!Sent(c)[k])
        BY <2>1 DEF Fit, Sip!Failing
      <3> QED BY <3>1, <3>2 DEF AllSent
    <2> QED BY <2>1
  <1>6. \A m \in Elements(pending) : m.id \in Sip!IdsIn(pending)
    BY DEF Elements, Sip!IdsIn
  <1>7. told \subseteq sent /\ due \subseteq told \union Sip!IdsIn(pending)
    <2> HIDE DEF told, sent, due
    <2> QED BY <1>0, <1>3, <1>4, <1>5, <1>6 DEF Accounted
  <1>8. ASSUME \A c \in Conns : \A i \in DOMAIN Sip!Sent(c) :
                  ~Sip!Raising(Sip!Sent(c)[i]) /\ Sip!Sent(c)[i].via = "sound"
        PROVE  /\ pending = <<>>
               /\ \A c \in Conns : Sip!Ids(c) = [i \in DOMAIN Sip!Sent(c) |-> Sip!Sent(c)[i].id]
    <2>1. \A m \in AllSent : IsSound(m)
      BY <1>2, <1>8 DEF AllSent, Elements, IsSound
    <2>2. Even
      BY <1>0, <2>1
    <2>3. \A c \in Conns : Sip!Ids(c) = [i \in DOMAIN Sip!Sent(c) |-> Sip!Sent(c)[i].id]
      BY <1>2, <2>2, IdsOfMessages DEF Even
    <2> QED BY <2>2, <2>3 DEF Even
  <1>9. Sip!MessagesAreLogged
    BY <1>7, <1>8, Zenon DEF Sip!MessagesAreLogged
  <1> QED BY <1>1, <1>9

-------------------------------------------------------------------------------
(* dhcp: the parser of options *)

\* The recursion of ParseOptions, as far as n, and the state it ends in.
ParsesTo(g, raw, n) ==
    g[0] = Dhcp!Start /\ \A i \in 1 .. n : g[i] = Dhcp!Step(g[i - 1], raw[i])
After(raw) ==
    LET after[n \in 0 .. Len(raw)] ==
            IF n = 0 THEN Dhcp!Start ELSE Dhcp!Step(after[n - 1], raw[n])
    IN  after[Len(raw)]

\* The recursion ends: there are all the states in between.
LEMMA AfterSteps ==
    ASSUME NEW raw, Len(raw) \in Nat
    PROVE  \E g : ParsesTo(g, raw, Len(raw)) /\ After(raw) = g[Len(raw)]
  <1> DEFINE N == Len(raw)
             Upto(g, k) == g = [i \in 0 .. k |-> IF i = 0 THEN Dhcp!Start ELSE Dhcp!Step(g[i - 1], raw[i])]
             S == {k \in 0 .. N : \E g : Upto(g, k)}
  <1>1. 0 \in S
    <2> DEFINE g == [i \in 0 .. 0 |-> Dhcp!Start]
    <2>1. Upto(g, 0)
      OBVIOUS
    <2> HIDE DEF g
    <2> HIDE DEF Upto
    <2> QED BY <2>1
  <1>2. ASSUME NEW k \in 1 .. N, k - 1 \in S PROVE k \in S
    <2>1. PICK g : Upto(g, k - 1)
      BY <1>2
    <2> DEFINE h == [i \in 0 .. k |-> IF i = k THEN Dhcp!Step(g[k - 1], raw[k]) ELSE g[i]]
    <2>2. ASSUME NEW i \in 0 .. k
          PROVE  h[i] = IF i = 0 THEN Dhcp!Start ELSE Dhcp!Step(h[i - 1], raw[i])
      <3>1. \A j \in 0 .. k - 1 : g[j] = IF j = 0 THEN Dhcp!Start ELSE Dhcp!Step(g[j - 1], raw[j])
        BY <2>1
      <3>2. CASE i = k
        <4>1. h[i] = Dhcp!Step(g[k - 1], raw[k]) /\ i # 0
          BY <3>2
        <4>2. h[i - 1] = g[k - 1]
          BY <3>2
        <4> QED BY <3>2, <4>1, <4>2
      <3>3. CASE i \in 0 .. k - 1
        <4>1. h[i] = g[i]
          BY <3>3
        <4>2. i # 0 => h[i - 1] = g[i - 1]
          BY <3>3
        <4> QED BY <3>1, <3>3, <4>1, <4>2
      <3> QED BY <3>2, <3>3
    <2>3. Upto(h, k)
      BY <2>2
    <2> HIDE DEF h
    <2> HIDE DEF Upto
    <2>4. k \in 0 .. N
      OBVIOUS
    <2> QED BY <2>3, <2>4
  <1> DEFINE after[n \in 0 .. N] == IF n = 0 THEN Dhcp!Start ELSE Dhcp!Step(after[n - 1], raw[n])
  <1>3. \E g : Upto(g, N)
    <2>0. N \in Nat
      OBVIOUS
    <2> HIDE DEF S
    <2> HIDE DEF N
    <2>1. \A i \in 0 .. N : i \in S
      BY <1>1, <1>2, <2>0, SetInduction
    <2>2. N \in S
      BY <2>0, <2>1
    <2> QED BY <2>2 DEF S
  <1>4. Upto(after, N)
    BY <1>3
  <1>5. After(raw) = after[N]
    BY DEF After
  <1> HIDE DEF after
  <1>6. ParsesTo(after, raw, N)
    BY <1>4 DEF ParsesTo
  <1> QED BY <1>5, <1>6

\* Before the first byte, and one byte more.
LEMMA AfterNone == After(<<>>) = Dhcp!Start
  <1>1. Len(<<>>) = 0
    OBVIOUS
  <1> QED BY <1>1, AfterSteps DEF ParsesTo

LEMMA AfterByte ==
    ASSUME NEW raw \in Seq(Nat), NEW b \in Nat
    PROVE  After(Append(raw, b)) = Dhcp!Step(After(raw), b)
  <1> DEFINE t == Append(raw, b)
             n == Len(raw)
  <1>1. /\ n \in Nat /\ Len(t) = n + 1 /\ t[n + 1] = b
        /\ \A i \in 1 .. n : t[i] = raw[i]
    BY AppendProperties
  <1> HIDE DEF t
  <1>2. PICK g : ParsesTo(g, raw, n) /\ After(raw) = g[n]
    BY <1>1, AfterSteps
  <1>3. PICK h : ParsesTo(h, t, n + 1) /\ After(t) = h[n + 1]
    BY <1>1, AfterSteps
  <1> HIDE DEF n
  <1> DEFINE T == {i \in 0 .. n : g[i] = h[i]}
  <1>4. 0 \in T
    BY <1>1, <1>2, <1>3 DEF ParsesTo
  <1>5. ASSUME NEW i \in 1 .. n, i - 1 \in T PROVE i \in T
    <2>1. i \in 1 .. n + 1 /\ i \in 0 .. n /\ g[i - 1] = h[i - 1] /\ t[i] = raw[i]
      BY <1>1, <1>5
    <2>2. g[i] = Dhcp!Step(g[i - 1], raw[i])
      BY <1>2 DEF ParsesTo
    <2>3. h[i] = Dhcp!Step(h[i - 1], t[i])
      BY <1>3, <2>1 DEF ParsesTo
    <2> QED BY <2>1, <2>2, <2>3
  <1> HIDE DEF T
  <1>6. \A i \in 0 .. n : i \in T
    BY <1>1, <1>4, <1>5, SetInduction
  <1>7. g[n] = h[n]
    BY <1>1, <1>6 DEF T
  <1>8. h[n + 1] = Dhcp!Step(h[n], t[n + 1])
    <2>1. n + 1 \in 1 .. n + 1 /\ (n + 1) - 1 = n
      BY <1>1
    <2> QED BY <1>3, <2>1 DEF ParsesTo
  <1> QED BY <1>1, <1>2, <1>3, <1>7, <1>8 DEF t

\* The parser between two options, and in an option t of which size bytes are to be read
\* and those in v have been.
Idle(found) == [name |-> -1, size |-> -1, tag |-> <<>>, options |-> found]
Within(t, size, v, found) == [name |-> t, size |-> size, tag |-> v, options |-> found]

ByteIsRead(found, b, t, v) ==
    /\ Dhcp!Step(Idle(found), b) = Within(b, -1, <<>>, found)
    /\ Dhcp!Step(Within(t, -1, v, found), b) = Within(t, b, <<>>, found)
    /\ Dhcp!Step(Within(t, 0, v, found), b) = Within(t, 0, v, found)
    /\ Dhcp!Step(Within(t, 1, v, found), b) = Idle(Dhcp!With(found, t, Append(v, b)))
    /\ \A n \in Nat : n > 1 =>
          Dhcp!Step(Within(t, n, v, found), b) = Within(t, n - 1, Append(v, b), found)

LEMMA ParserSteps ==
    ASSUME NEW found, NEW b \in Nat, NEW t \in Nat, NEW v
    PROVE  ByteIsRead(found, b, t, v)
  <1>1. Dhcp!Step(Idle(found), b) = Within(b, -1, <<>>, found)
    BY DEF Dhcp!Step, Dhcp!ReadName, Idle, Within
  <1>2. Dhcp!Step(Within(t, -1, v, found), b) = Within(t, b, <<>>, found)
    <2>1. Dhcp!Step(Within(t, -1, v, found), b) = Dhcp!ReadSize(Within(t, -1, v, found), b)
      BY DEF Dhcp!Step, Within
    <2>2. [Within(t, -1, v, found) EXCEPT !.size = b] = Within(t, b, v, found)
      BY DEF Within
    <2>3. [Within(t, b, v, found) EXCEPT !.tag = <<>>] = Within(t, b, <<>>, found)
      BY DEF Within
    <2> QED BY <2>1, <2>2, <2>3 DEF Dhcp!ReadSize
  <1>3. Dhcp!Step(Within(t, 0, v, found), b) = Within(t, 0, v, found)
    BY DEF Dhcp!Step, Within
  <1>4. Dhcp!Step(Within(t, 1, v, found), b) = Idle(Dhcp!With(found, t, Append(v, b)))
    BY DEF Dhcp!Step, Dhcp!ReadByte, Dhcp!Start, Idle, Within
  <1>5. ASSUME NEW n \in Nat, n > 1
        PROVE  Dhcp!Step(Within(t, n, v, found), b) = Within(t, n - 1, Append(v, b), found)
    <2> DEFINE s == Within(t, n, v, found)
    <2>1. Dhcp!Step(s, b) = Dhcp!ReadByte(s, b)
      BY <1>5 DEF Dhcp!Step, Within
    <2>2. [s EXCEPT !.size = s.size - 1] = Within(t, n - 1, v, found) /\ s.size > 1 /\ s.tag = v
      BY <1>5 DEF Within
    <2>3. \A m, w : [Within(t, m, v, found) EXCEPT !.tag = w] = Within(t, m, w, found)
      BY DEF Within
    <2>4. Within(t, n - 1, v, found).tag = v
      BY DEF Within
    <2> HIDE DEF s
    <2>5. Dhcp!ReadByte(s, b) = [[s EXCEPT !.size = s.size - 1] EXCEPT !.tag = Append(v, b)]
      BY <2>2, <2>4 DEF Dhcp!ReadByte
    <2> QED BY <2>1, <2>2, <2>3, <2>5 DEF s
  <1> QED BY <1>1, <1>2, <1>3, <1>4, <1>5 DEF ByteIsRead

\* Two bytes more.
LEMMA TwoBytes ==
    ASSUME NEW raw \in Seq(Nat), NEW t \in Nat, NEW n \in Nat
    PROVE  raw \o <<t, n>> = Append(Append(raw, t), n)
  <1>1. <<t>> \in Seq(Nat) /\ <<n>> \in Seq(Nat) /\ Append(raw, t) \in Seq(Nat)
    BY AppendProperties
  <1>2. <<t>> \o <<n>> = <<t, n>>
    BY TwoElements
  <1>3. \A q \in Seq(Nat), x \in Nat : Append(q, x) = q \o <<x>>
    BY AppendIsConcat
  <1>4. Append(Append(raw, t), n) = (raw \o <<t>>) \o <<n>>
    BY <1>1, <1>3, Zenon
  <1>5. (raw \o <<t>>) \o <<n>> = raw \o (<<t>> \o <<n>>)
    BY <1>1, ConcatAssociative
  <1> QED BY <1>2, <1>4, <1>5, Zenon

\* One option that is read as a whole.
LEMMA OptionIsRead ==
    ASSUME NEW raw \in Seq(Nat), NEW found, After(raw) = Idle(found),
           NEW t \in Nat, NEW v \in Seq(Nat), v # <<>>
    PROVE  After(raw \o (<<t, Len(v)>> \o v)) = Idle(Dhcp!With(found, t, v))
  <1> DEFINE n == Len(v)
             h == Append(Append(raw, t), n)
             P == {u \in Seq(Nat) :
                     /\ Len(u) < n => After(h \o u) = Within(t, n - Len(u), u, found)
                     /\ Len(u) = n => After(h \o u) = Idle(Dhcp!With(found, t, u))}
  <1>1. n \in Nat /\ n > 0 /\ Append(raw, t) \in Seq(Nat) /\ h \in Seq(Nat)
    BY AppendProperties
  <1>2. After(h) = Within(t, n, <<>>, found)
    <2>1. After(Append(raw, t)) = Within(t, -1, <<>>, found)
      BY AfterByte, ParserSteps DEF ByteIsRead
    <2>2. After(h) = Dhcp!Step(After(Append(raw, t)), n)
      BY <1>1, AfterByte
    <2>3. ByteIsRead(found, n, t, <<>>)
      BY <1>1, ParserSteps
    <2> QED BY <2>1, <2>2, <2>3 DEF ByteIsRead
  <1> HIDE DEF h, n
  <1>3. <<>> \in P
    <2>1. <<>> \in Seq(Nat) /\ Len(<<>>) = 0 /\ h \o <<>> = h /\ n - 0 = n
      BY <1>1, EmptySeq, ConcatEmptySeq
    <2>2. After(h \o <<>>) = Within(t, n - 0, <<>>, found)
      BY <1>2, <2>1, Zenon
    <2>3. Len(<<>>) # n
      BY <1>1, <2>1
    <2> QED BY <2>1, <2>2, <2>3
  <1>4. ASSUME NEW u \in Seq(Nat), NEW b \in Nat, u \in P PROVE Append(u, b) \in P
    <2> DEFINE m == Len(u)
               w == Append(u, b)
    <2>1. m \in Nat /\ w \in Seq(Nat) /\ Len(w) = m + 1 /\ h \o u \in Seq(Nat)
      BY <1>1, AppendProperties, ConcatProperties
    <2>2. h \o w = Append(h \o u, b)
      BY <1>1, ConcatAppend
    <2> HIDE DEF w
    <2>3. After(h \o w) = Dhcp!Step(After(h \o u), b)
      BY <2>1, <2>2, AfterByte
    <2>4. m < n => After(h \o u) = Within(t, n - m, u, found)
      BY <1>4
    <2> HIDE DEF m
    <2> HIDE DEF P
    <2>7. ByteIsRead(found, b, t, u)
      BY ParserSteps
    <2>5. ASSUME m + 1 < n PROVE After(h \o w) = Within(t, n - (m + 1), w, found)
      <3>1. m < n /\ n - m \in Nat /\ n - m > 1 /\ (n - m) - 1 = n - (m + 1)
        BY <1>1, <2>1, <2>5
      <3>2. Dhcp!Step(Within(t, n - m, u, found), b) = Within(t, (n - m) - 1, Append(u, b), found)
        BY <2>7, <3>1 DEF ByteIsRead
      <3> QED BY <2>3, <2>4, <3>1, <3>2 DEF w
    <2>6. ASSUME m + 1 = n PROVE After(h \o w) = Idle(Dhcp!With(found, t, w))
      <3>1. m < n /\ n - m = 1
        BY <1>1, <2>1, <2>6
      <3>2. Dhcp!Step(Within(t, 1, u, found), b) = Idle(Dhcp!With(found, t, Append(u, b)))
        BY <2>7 DEF ByteIsRead
      <3> QED BY <2>3, <2>4, <3>1, <3>2 DEF w
    <2> QED BY <2>1, <2>5, <2>6 DEF P, w
  <1> HIDE DEF P
  <1>5. v \in P
    BY <1>3, <1>4, GrowingSequence
  <1>6. h \o v = raw \o (<<t, n>> \o v)
    <2>1. h = raw \o <<t, n>>
      BY <1>1, TwoBytes DEF h
    <2>2. <<t, n>> \in Seq(Nat)
      BY <1>1
    <2>3. (raw \o <<t, n>>) \o v = raw \o (<<t, n>> \o v)
      BY <2>2, ConcatAssociative
    <2> QED BY <2>1, <2>3, Zenon
  <1> QED BY <1>5, <1>6 DEF P, n

\* Behind a length of zero nothing is read.
LEMMA NothingIsRead ==
    ASSUME NEW raw \in Seq(Nat), NEW found, NEW t \in Nat, NEW v, After(raw) = Within(t, 0, v, found),
           NEW more \in Seq(Nat)
    PROVE  After(raw \o more) = Within(t, 0, v, found)
  <1> DEFINE P == {u \in Seq(Nat) : After(raw \o u) = Within(t, 0, v, found)}
  <1>1. <<>> \in P
    BY EmptySeq, ConcatEmptySeq
  <1>2. ASSUME NEW u \in Seq(Nat), NEW b \in Nat, u \in P PROVE Append(u, b) \in P
    <2>1. Append(u, b) \in Seq(Nat) /\ raw \o u \in Seq(Nat)
      BY AppendProperties, ConcatProperties
    <2>2. raw \o Append(u, b) = Append(raw \o u, b)
      BY ConcatAppend
    <2>3. After(raw \o Append(u, b)) = Dhcp!Step(Within(t, 0, v, found), b)
      BY <1>2, <2>1, <2>2, AfterByte
    <2>4. ByteIsRead(found, b, t, v)
      BY ParserSteps
    <2> QED BY <2>1, <2>3, <2>4 DEF ByteIsRead
  <1> HIDE DEF P
  <1>3. more \in P
    BY <1>1, <1>2, GrowingSequence
  <1> QED BY <1>3 DEF P

\* The options a client may send: where those that end the parser are, those before the first
\* of them, and the last values of these.
Option == [tag : 0 .. 255, value : Seq(0 .. 255)] \union [pad : 0 .. 255]
IsOdd(x) == Dhcp!IsPad(x) \/ Dhcp!IsEmpty(x)
Odd(u) == {k \in DOMAIN u : IsOdd(u[k])}
Whole(u) == {k \in DOMAIN u : \A j \in 1 .. k : j \notin Odd(u)}
Tagged(u, t) == {k \in Whole(u) : u[k].tag = t}
Tags(u) == {u[k].tag : k \in Whole(u)}
OptionValues(u) == [t \in Tags(u) |-> u[Latest(Tagged(u, t))].value]

LEMMA OptionIs ==
    ASSUME NEW x \in Option
    PROVE  /\ Dhcp!Encoded(x) \in Seq(Nat)
           /\ Dhcp!IsPad(x) => x.pad \in Nat /\ Dhcp!Encoded(x) = <<x.pad>> /\ ~Dhcp!IsEmpty(x)
           /\ ~Dhcp!IsPad(x) => /\ x.tag \in Nat /\ x.value \in Seq(Nat)
                                /\ Dhcp!Encoded(x) = <<x.tag, Len(x.value)>> \o x.value
                                /\ Dhcp!IsEmpty(x) <=> x.value = <<>>
  <1>1. CASE x \in [pad : 0 .. 255]
    <2>1. Dhcp!IsPad(x) /\ x.pad \in Nat
      BY <1>1 DEF Dhcp!IsPad
    <2>2. Dhcp!Encoded(x) = <<x.pad>>
      BY <2>1 DEF Dhcp!Encoded, Dhcp!IsPad
    <2> QED BY <2>1, <2>2 DEF Dhcp!IsEmpty
  <1>2. CASE x \in [tag : 0 .. 255, value : Seq(0 .. 255)]
    <2>1. ~Dhcp!IsPad(x) /\ x.tag \in Nat /\ x.value \in Seq(Nat)
      <3> DEFINE B == 0 .. 255
      <3>1. B \subseteq Nat /\ x \in [tag : B, value : Seq(B)]
        BY <1>2
      <3> HIDE DEF B
      <3>2. DOMAIN x = {"tag", "value"} /\ x.tag \in B /\ x.value \in Seq(B)
        BY <3>1
      <3>3. x.value \in Seq(Nat)
        <4>1. Len(x.value) \in Nat /\ x.value \in [1 .. Len(x.value) -> B]
          BY <3>2
        <4>2. x.value \in [1 .. Len(x.value) -> Nat]
          BY <3>1, <4>1
        <4> QED BY <4>1, <4>2, FunctionIsSequence
      <3>4. ~Dhcp!IsPad(x)
        BY <3>2 DEF Dhcp!IsPad
      <3> QED BY <3>1, <3>2, <3>3, <3>4
    <2>2. Dhcp!Encoded(x) = <<x.tag, Len(x.value)>> \o x.value
      BY <2>1 DEF Dhcp!Encoded, Dhcp!IsPad
    <2>3. <<x.tag, Len(x.value)>> \in Seq(Nat)
      BY <2>1
    <2>4. Dhcp!Encoded(x) \in Seq(Nat)
      BY <2>1, <2>2, <2>3, ConcatProperties
    <2> QED BY <2>1, <2>2, <2>4 DEF Dhcp!IsEmpty
  <1> QED BY <1>1, <1>2 DEF Option

\* The bytes of the options.
EncodedOption == [x \in Option |-> Dhcp!Encoded(x)]

LEMMA RawIs == ASSUME NEW u \in Seq(Option) PROVE Dhcp!Raw(u) = Joined(Through(EncodedOption, u))
  <1>1. [i \in DOMAIN u |-> Dhcp!Encoded(u[i])] = Through(EncodedOption, u)
    <2>1. \A i \in DOMAIN u : u[i] \in Option
      OBVIOUS
    <2> QED BY <2>1 DEF Through, EncodedOption
  <1>2. \A ss : Dhcp!Joined(ss) = Joined(ss)
    BY DEF Dhcp!Joined, Joined
  <1> QED BY <1>1, <1>2 DEF Dhcp!Raw

LEMMA RawMore ==
    ASSUME NEW u \in Seq(Option), NEW x \in Option
    PROVE  Dhcp!Raw(Append(u, x)) = Dhcp!Raw(u) \o Dhcp!Encoded(x)
  <1> DEFINE f == Through(EncodedOption, u)
  <1>1. Append(u, x) \in Seq(Option) /\ IsLog(u)
    BY AppendProperties, SequenceIsLog
  <1>2. Through(EncodedOption, Append(u, x)) = Append(f, Dhcp!Encoded(x)) /\ IsLog(f)
    BY <1>1, ThroughMore, ThroughType DEF EncodedOption
  <1> HIDE DEF f
  <1>3. Joined(Append(f, Dhcp!Encoded(x))) = Joined(f) \o Dhcp!Encoded(x)
    <2>1. PICK S : f \in Seq(S)
      BY <1>2 DEF IsLog
    <2> DEFINE T == S \union {Dhcp!Encoded(x)}
    <2>2. f \in Seq(T) /\ Dhcp!Encoded(x) \in T
      BY <2>1
    <2> QED BY <2>2, JoinedAppend
  <1> QED BY <1>1, <1>2, <1>3, RawIs DEF f

LEMMA RawNone == Dhcp!Raw(<<>>) = <<>>
  <1>1. Through(EncodedOption, <<>>) = <<>> /\ <<>> \in Seq(Option)
    BY ThroughNone, EmptySeq
  <1> QED BY <1>1, RawIs, JoinedEmpty

LEMMA RawType == ASSUME NEW u \in Seq(Option) PROVE Dhcp!Raw(u) \in Seq(Nat)
  <1> DEFINE P == {w \in Seq(Option) : Dhcp!Raw(w) \in Seq(Nat)}
  <1>1. <<>> \in P
    BY EmptySeq, RawNone
  <1>2. ASSUME NEW w \in Seq(Option), NEW x \in Option, w \in P PROVE Append(w, x) \in P
    <2>1. Append(w, x) \in Seq(Option) /\ Dhcp!Encoded(x) \in Seq(Nat) /\ Dhcp!Raw(w) \in Seq(Nat)
      BY <1>2, AppendProperties, OptionIs
    <2>2. Dhcp!Raw(w) \o Dhcp!Encoded(x) \in Seq(Nat)
      BY <2>1, ConcatProperties
    <2> QED BY <2>1, <2>2, RawMore
  <1> HIDE DEF P
  <1>3. u \in P
    BY <1>1, <1>2, GrowingSequence
  <1> QED BY <1>3 DEF P

\* One option more.
LEMMA OptionMore ==
    ASSUME NEW u \in Seq(Option), NEW x \in Option, NEW w, w = Append(u, x)
    PROVE  /\ Odd(w) = IF IsOdd(x) THEN Odd(u) \union {Len(u) + 1} ELSE Odd(u)
           /\ Odd(u) \subseteq 1 .. Len(u)
           /\ Odd(w) = {} => OptionValues(w) = Dhcp!With(OptionValues(u), x.tag, x.value)
           /\ Odd(w) # {} => OptionValues(w) = OptionValues(u)
  <1> DEFINE n == Len(u)
  <1>1. /\ n \in Nat /\ DOMAIN u = 1 .. n /\ DOMAIN w = 1 .. n + 1
        /\ w[n + 1] = x /\ \A i \in 1 .. n : w[i] = u[i]
    <2>1. IsLog(u)
      BY SequenceIsLog
    <2>2. Len(w) = n + 1 /\ \A i \in 1 .. n : w[i] = u[i]
      BY AppendProperties
    <2> QED BY <2>1, <2>2, LogAppend
  <1> HIDE DEF n
  <1>2. /\ Odd(w) = IF IsOdd(x) THEN Odd(u) \union {n + 1} ELSE Odd(u)
        /\ Odd(u) \subseteq 1 .. n
    BY <1>1 DEF Odd
  <1>3. Odd(w) = {} => OptionValues(w) = Dhcp!With(OptionValues(u), x.tag, x.value)
    <2> SUFFICES ASSUME Odd(w) = {} PROVE OptionValues(w) = Dhcp!With(OptionValues(u), x.tag, x.value)
      OBVIOUS
    <2>1. Whole(w) = 1 .. n + 1 /\ Whole(u) = 1 .. n
      BY <1>1, <1>2 DEF Whole
    <2>2. Tags(w) = Tags(u) \union {x.tag}
      BY <1>1, <2>1 DEF Tags
    <2>3. w[Latest(Tagged(w, x.tag))].value = x.value
      <3>1. Tagged(w, x.tag) \in SUBSET (1 .. n + 1) /\ n + 1 \in Tagged(w, x.tag) /\ n + 1 \in Nat
        BY <1>1, <2>1 DEF Tagged
      <3>2. /\ Latest(Tagged(w, x.tag)) \in Tagged(w, x.tag)
            /\ \A j \in Tagged(w, x.tag) : j <= Latest(Tagged(w, x.tag))
        BY <3>1, LatestIs
      <3>3. Latest(Tagged(w, x.tag)) = n + 1
        BY <1>1, <3>1, <3>2
      <3> QED BY <1>1, <3>3
    <2>4. ASSUME NEW t \in Tags(u), t # x.tag
          PROVE  w[Latest(Tagged(w, t))].value = u[Latest(Tagged(u, t))].value
      <3>1. Tagged(w, t) = Tagged(u, t)
        BY <1>1, <2>1, <2>4 DEF Tagged
      <3>2. Tagged(u, t) \in SUBSET (1 .. n) /\ Tagged(u, t) # {}
        BY <2>1, <2>4 DEF Tagged, Tags
      <3>3. Latest(Tagged(u, t)) \in 1 .. n
        BY <1>1, <3>2, LatestIs
      <3> QED BY <1>1, <3>1, <3>3
    <2> QED BY <2>2, <2>3, <2>4 DEF OptionValues, Dhcp!With
  <1>4. Odd(w) # {} => OptionValues(w) = OptionValues(u)
    <2> SUFFICES ASSUME Odd(w) # {} PROVE OptionValues(w) = OptionValues(u)
      OBVIOUS
    <2>1. Whole(w) = Whole(u) /\ Whole(u) \subseteq 1 .. n
      BY <1>1, <1>2 DEF Whole, Odd
    <2>2. Tags(w) = Tags(u) /\ \A t : Tagged(w, t) = Tagged(u, t)
      BY <1>1, <2>1 DEF Tags, Tagged
    <2>3. ASSUME NEW t \in Tags(u)
          PROVE  w[Latest(Tagged(u, t))].value = u[Latest(Tagged(u, t))].value
      <3>2. Tagged(u, t) \in SUBSET (1 .. n) /\ Tagged(u, t) # {}
        BY <2>1, <2>3 DEF Tagged, Tags
      <3>3. Latest(Tagged(u, t)) \in 1 .. n
        BY <1>1, <3>2, LatestIs
      <3> QED BY <1>1, <3>3
    <2> QED BY <2>2, <2>3 DEF OptionValues
  <1> QED BY <1>2, <1>3, <1>4 DEF n

\* The parser has come to its end: it waits for a byte that never comes, or has a pad for a tag.
EndsAt(u, k) == Dhcp!IsEmpty(u[k]) \/ \A j \in k + 1 .. Len(u) : u[j] = [pad |-> 0]
Ended(raw, found, pad) ==
    \E t \in Nat : \E v :
        \/ After(raw) = Within(t, 0, v, found)
        \/ After(raw) = Within(t, -1, v, found) /\ pad

ParsedAs(u) ==
    /\ Odd(u) = {} => After(Dhcp!Raw(u)) = Idle(OptionValues(u))
    /\ Odd(u) # {} /\ EndsAt(u, Earliest(Odd(u))) =>
          Ended(Dhcp!Raw(u), OptionValues(u), Dhcp!IsPad(u[Earliest(Odd(u))]))

\* The first of some positions.
LEMMA EarliestIs ==
    ASSUME NEW n \in Nat, NEW T \in SUBSET (1 .. n), T # {}
    PROVE  /\ Earliest(T) \in T /\ \A j \in T : Earliest(T) <= j
           /\ Earliest(T \union {n + 1}) = Earliest(T)
           /\ Earliest({n + 1}) = n + 1
  <1>1. T \in SUBSET Nat
    OBVIOUS
  <1>2. \E i \in T : \A j \in T : i <= j
    BY <1>1, LeastElement
  <1>3. Earliest(T) \in T /\ \A j \in T : Earliest(T) <= j
    BY <1>2 DEF Earliest
  <1> DEFINE U == T \union {n + 1}
  <1>4. Earliest(T) \in 1 .. n /\ \A j \in U : j \in Nat /\ Earliest(T) <= j
    <2>1. Earliest(T) \in 1 .. n
      BY <1>3
    <2> QED BY <1>3, <2>1
  <1>5. Earliest(U) \in U /\ \A j \in U : Earliest(U) <= j
    BY <1>3, <1>4 DEF Earliest
  <1>6. Earliest(U) = Earliest(T)
    <2>1. Earliest(U) <= Earliest(T) /\ Earliest(T) <= Earliest(U) /\ Earliest(U) \in Nat
      BY <1>3, <1>4, <1>5
    <2> QED BY <1>4, <2>1
  <1>7. Earliest({n + 1}) = n + 1
    BY DEF Earliest
  <1> QED BY <1>3, <1>6, <1>7

\* The first option that ends the parser.
LEMMA OptionEnds ==
    ASSUME NEW raw \in Seq(Nat), NEW found, After(raw) = Idle(found), NEW x \in Option, IsOdd(x)
    PROVE  Ended(raw \o Dhcp!Encoded(x), found, Dhcp!IsPad(x))
  <1>1. CASE Dhcp!IsPad(x)
    <2>1. x.pad \in Nat /\ Dhcp!Encoded(x) = <<x.pad>>
      BY <1>1, OptionIs
    <2>2. raw \o <<x.pad>> = Append(raw, x.pad)
      BY <2>1, AppendIsConcat
    <2>3. After(Append(raw, x.pad)) = Dhcp!Step(Idle(found), x.pad)
      BY <2>1, AfterByte
    <2>4. ByteIsRead(found, x.pad, x.pad, <<>>)
      BY <2>1, ParserSteps
    <2>5. After(raw \o Dhcp!Encoded(x)) = Within(x.pad, -1, <<>>, found)
      BY <2>1, <2>2, <2>3, <2>4 DEF ByteIsRead
    <2> QED BY <1>1, <2>1, <2>5 DEF Ended
  <1>2. CASE ~Dhcp!IsPad(x)
    <2> DEFINE t == x.tag
               one == Append(raw, t)
    <2>1. t \in Nat /\ x.value = <<>> /\ Dhcp!Encoded(x) = <<t, Len(x.value)>> \o x.value
      BY <1>2, OptionIs DEF IsOdd
    <2>2. Len(<<>>) = 0 /\ <<t, 0>> \o <<>> = <<t, 0>> /\ one \in Seq(Nat) /\ 0 \in Nat
      BY <2>1, ConcatEmptySeq, AppendProperties
    <2>3. Dhcp!Encoded(x) = <<t, 0>>
      BY <2>1, <2>2
    <2>4. raw \o <<t, 0>> = Append(one, 0)
      BY <2>1, TwoBytes
    <2>5. After(one) = Dhcp!Step(Idle(found), t) /\ After(Append(one, 0)) = Dhcp!Step(After(one), 0)
      BY <2>1, <2>2, AfterByte
    <2> HIDE DEF one
    <2>6. ByteIsRead(found, t, t, <<>>) /\ ByteIsRead(found, 0, t, <<>>)
      BY <2>1, <2>2, ParserSteps
    <2>7. After(raw \o Dhcp!Encoded(x)) = Within(t, 0, <<>>, found)
      BY <2>3, <2>4, <2>5, <2>6 DEF ByteIsRead
    <2> QED BY <2>1, <2>7 DEF Ended
  <1> QED BY <1>1, <1>2

\* And options behind it.
LEMMA StaysEnded ==
    ASSUME NEW raw \in Seq(Nat), NEW found, NEW pad, Ended(raw, found, pad), NEW x \in Option,
           pad => x = [pad |-> 0]
    PROVE  Ended(raw \o Dhcp!Encoded(x), found, pad)
  <1>0. PICK t \in Nat : \E v :
           \/ After(raw) = Within(t, 0, v, found)
           \/ After(raw) = Within(t, -1, v, found) /\ pad
    BY DEF Ended
  <1>1. PICK v :
           \/ After(raw) = Within(t, 0, v, found)
           \/ After(raw) = Within(t, -1, v, found) /\ pad
    BY <1>0
  <1>2. CASE After(raw) = Within(t, 0, v, found)
    <2>1. Dhcp!Encoded(x) \in Seq(Nat)
      BY OptionIs
    <2>2. After(raw \o Dhcp!Encoded(x)) = Within(t, 0, v, found)
      BY <1>2, <2>1, NothingIsRead
    <2> QED BY <2>2 DEF Ended
  <1>3. CASE After(raw) = Within(t, -1, v, found) /\ pad
    <2>1. x = [pad |-> 0] /\ 0 \in Nat
      BY <1>3
    <2>2. Dhcp!Encoded(x) = <<0>>
      BY <2>1 DEF Dhcp!Encoded
    <2>3. raw \o <<0>> = Append(raw, 0)
      BY AppendIsConcat
    <2>4. After(Append(raw, 0)) = Dhcp!Step(Within(t, -1, v, found), 0)
      BY <1>3, <2>1, AfterByte
    <2>5. ByteIsRead(found, 0, t, v)
      BY <2>1, ParserSteps
    <2>6. After(raw \o Dhcp!Encoded(x)) = Within(t, 0, <<>>, found)
      BY <2>2, <2>3, <2>4, <2>5 DEF ByteIsRead
    <2> QED BY <2>6 DEF Ended
  <1> QED BY <1>1, <1>2, <1>3

LEMMA ParsedMore ==
    ASSUME NEW u \in Seq(Option), NEW x \in Option, ParsedAs(u)
    PROVE  ParsedAs(Append(u, x))
  <1> DEFINE w == Append(u, x)
             n == Len(u)
             raw == Dhcp!Raw(u)
             k == Earliest(Odd(u))
  <1>1. /\ Odd(w) = IF IsOdd(x) THEN Odd(u) \union {n + 1} ELSE Odd(u)
        /\ Odd(u) \subseteq 1 .. n
        /\ Odd(w) = {} => OptionValues(w) = Dhcp!With(OptionValues(u), x.tag, x.value)
        /\ Odd(w) # {} => OptionValues(w) = OptionValues(u)
    BY OptionMore
  <1>2. /\ n \in Nat /\ Len(w) = n + 1 /\ w[n + 1] = x /\ \A i \in 1 .. n : w[i] = u[i]
    BY AppendProperties
  <1>3. raw \in Seq(Nat) /\ Dhcp!Raw(w) = raw \o Dhcp!Encoded(x)
    BY RawType, RawMore
  <1> HIDE DEF w, n, raw
  <1>4. CASE Odd(w) = {}
    <2>1. Odd(u) = {} /\ ~IsOdd(x)
      BY <1>1, <1>4
    <2>2. After(raw) = Idle(OptionValues(u))
      BY <2>1 DEF ParsedAs, raw
    <2>3. /\ x.tag \in Nat /\ x.value \in Seq(Nat) /\ x.value # <<>>
          /\ Dhcp!Encoded(x) = <<x.tag, Len(x.value)>> \o x.value
      BY <2>1, OptionIs DEF IsOdd
    <2>4. After(raw \o Dhcp!Encoded(x)) = Idle(Dhcp!With(OptionValues(u), x.tag, x.value))
      BY <1>3, <2>2, <2>3, OptionIsRead
    <2> QED BY <1>1, <1>3, <1>4, <2>4 DEF ParsedAs, w
  <1>5. CASE Odd(w) # {} /\ Odd(u) = {}
    <2>1. IsOdd(x) /\ Odd(w) = {n + 1} /\ OptionValues(w) = OptionValues(u)
      BY <1>1, <1>5
    <2>2. After(raw) = Idle(OptionValues(u))
      BY <1>5 DEF ParsedAs, raw
    <2>3. Ended(raw \o Dhcp!Encoded(x), OptionValues(u), Dhcp!IsPad(x))
      BY <1>3, <2>1, <2>2, OptionEnds
    <2>4. w[Earliest(Odd(w))] = x
      <3>1. Earliest({n + 1}) = n + 1
        BY DEF Earliest
      <3> QED BY <1>2, <2>1, <3>1
    <2> QED BY <1>3, <1>5, <2>1, <2>3, <2>4 DEF ParsedAs, w
  <1>6. CASE Odd(w) # {} /\ Odd(u) # {}
    <2>1. k \in Odd(u) /\ k \in 1 .. n /\ Earliest(Odd(w)) = k /\ OptionValues(w) = OptionValues(u)
      BY <1>1, <1>2, <1>6, EarliestIs
    <2> HIDE DEF k
    <2>2. w[k] = u[k]
      BY <1>2, <2>1
    <2> SUFFICES ASSUME EndsAt(w, k) PROVE Ended(Dhcp!Raw(w), OptionValues(w), Dhcp!IsPad(w[k]))
      BY <1>6, <2>1 DEF ParsedAs, w
    <2>3. EndsAt(u, k)
      <3>1. \A j \in k + 1 .. Len(u) : j \in 1 .. n /\ j \in k + 1 .. Len(w)
        BY <1>2, <2>1 DEF n
      <3> QED BY <1>2, <2>2, <3>1 DEF EndsAt
    <2>4. Ended(raw, OptionValues(u), Dhcp!IsPad(u[k]))
      BY <1>6, <2>3 DEF ParsedAs, raw, k
    <2>5. Dhcp!IsPad(u[k]) => x = [pad |-> 0]
      <3>1. SUFFICES ASSUME Dhcp!IsPad(u[k]) PROVE x = [pad |-> 0]
        OBVIOUS
      <3>2. u[k] \in Option
        BY <2>1 DEF n
      <3>3. ~Dhcp!IsEmpty(u[k])
        BY <3>1, <3>2, OptionIs
      <3>4. n + 1 \in k + 1 .. Len(w)
        BY <1>2, <2>1
      <3> QED BY <1>2, <2>2, <3>3, <3>4 DEF EndsAt
    <2>6. Ended(raw \o Dhcp!Encoded(x), OptionValues(u), Dhcp!IsPad(u[k]))
      BY <1>3, <2>4, <2>5, StaysEnded
    <2> QED BY <1>3, <2>1, <2>2, <2>6
  <1> QED BY <1>4, <1>5, <1>6 DEF w

LEMMA Parsed == ASSUME NEW u \in Seq(Option) PROVE ParsedAs(u)
  <1> DEFINE P == {w \in Seq(Option) : ParsedAs(w)}
  <1>1. <<>> \in P
    <2>1. <<>> \in Seq(Option) /\ DOMAIN <<>> = {}
      BY EmptySeq
    <2>2. Odd(<<>>) = {} /\ Whole(<<>>) = {}
      BY <2>1 DEF Odd, Whole
    <2>3. OptionValues(<<>>) = [t \in {} |-> <<>>]
      <3>1. Tags(<<>>) = {}
        BY <2>2 DEF Tags
      <3> QED BY <3>1 DEF OptionValues
    <2>4. After(Dhcp!Raw(<<>>)) = Idle(OptionValues(<<>>))
      BY <2>3, RawNone, AfterNone DEF Dhcp!Start, Idle
    <2> QED BY <2>1, <2>2, <2>4 DEF ParsedAs
  <1>2. ASSUME NEW w \in Seq(Option), NEW x \in Option, w \in P PROVE Append(w, x) \in P
    BY <1>2, ParsedMore, AppendProperties
  <1> HIDE DEF P
  <1>3. u \in P
    BY <1>1, <1>2, GrowingSequence
  <1> QED BY <1>3 DEF P

\* What is logged of the options.
LEMMA OptionsSay ==
    ASSUME NEW u \in Seq(Option), Odd(u) = {} \/ EndsAt(u, Earliest(Odd(u)))
    PROVE  Dhcp!ParseOptions(Dhcp!Raw(u)) = OptionValues(u)
  <1>1. Dhcp!ParseOptions(Dhcp!Raw(u)) = After(Dhcp!Raw(u)).options
    BY DEF Dhcp!ParseOptions, After
  <1>2. CASE Odd(u) = {}
    <2>1. After(Dhcp!Raw(u)) = Idle(OptionValues(u))
      BY <1>2, Parsed DEF ParsedAs
    <2> QED BY <1>1, <2>1 DEF Idle
  <1>3. CASE Odd(u) # {}
    <2>1. Ended(Dhcp!Raw(u), OptionValues(u), Dhcp!IsPad(u[Earliest(Odd(u))]))
      BY <1>3, Parsed DEF ParsedAs
    <2> QED BY <1>1, <2>1 DEF Ended, Within
  <1> QED BY <1>2, <1>3

\* The invariant says what OptionsAreRead says.
LEMMA DhcpSays == ASSUME DhcpInv, server = "dhcp" PROVE Dhcp!OptionsAreRead
  <1> SUFFICES ASSUME NEW c \in Conns, NEW i \in DOMAIN read[c]
               PROVE  LET options == read[c][i].options
                          odd == {k \in DOMAIN options : Dhcp!IsPad(options[k]) \/ Dhcp!IsEmpty(options[k])}
                          whole == {k \in DOMAIN options : \A j \in 1 .. k : j \notin odd}
                          Value(t) == options[Dhcp!Latest({k \in whole : options[k].tag = t})].value
                          IsEnd(k) == \/ Dhcp!IsEmpty(options[k])
                                      \/ \A j \in k + 1 .. Len(options) : options[j] = [pad |-> 0]
                      IN  /\ events[c][i].data.mac_address = read[c][i].mac
                          /\ odd = {} \/ IsEnd(Dhcp!Earliest(odd)) =>
                                events[c][i].data.options = [t \in {options[k].tag : k \in whole} |-> Value(t)]
    BY DEF Dhcp!OptionsAreRead
  <1> DEFINE u == read[c][i].options
  <1>1. /\ read[c] \in Seq(Chunks.dhcp) /\ events[c] = Through(LeaseEntry, read[c])
    BY DEF DhcpInv, DhcpOK
  <1>2. read[c][i] \in Chunks.dhcp
    BY <1>1
  <1>3. u \in Seq(Option)
    BY <1>2, DhcpAssumption DEF Option
  <1>4. events[c][i] = LeaseEntry[read[c][i]]
    BY <1>1 DEF Through
  <1>5. events[c][i].data = Lease(read[c][i])
    BY <1>2, <1>4 DEF LeaseEntry
  <1>6. /\ events[c][i].data.mac_address = read[c][i].mac
        /\ events[c][i].data.options = Dhcp!ParseOptions(Dhcp!Raw(u))
    BY <1>5 DEF Lease
  <1> HIDE DEF u
  <1>7. Odd(u) = {} \/ EndsAt(u, Earliest(Odd(u))) => events[c][i].data.options = OptionValues(u)
    BY <1>3, <1>6, OptionsSay
  <1>8. (\A T : Dhcp!Latest(T) = Latest(T)) /\ \A T : Dhcp!Earliest(T) = Earliest(T)
    BY DEF Dhcp!Latest, Latest, Dhcp!Earliest, Earliest
  <1> QED BY <1>6, <1>7, <1>8 DEF u, Odd, IsOdd, EndsAt, OptionValues, Tags, Tagged, Whole

-------------------------------------------------------------------------------
(* More about what is selected *)

LEMMA SelectedAll ==
    ASSUME NEW X, NEW s \in Seq(X) PROVE Selected(s, X) = s
  <1> DEFINE J == {i \in DOMAIN s : s[i] \in X}
  <1>1. \A i \in 1 .. Len(s) : i \in J
    OBVIOUS
  <1> HIDE DEF J
  <1>2. At(s, J) = s
    BY <1>1, AtAll
  <1> QED BY <1>2 DEF Selected, J

LEMMA SelectedOthers ==
    ASSUME NEW X, NEW Y, X \intersect Y = {}, NEW s \in Seq(Y) PROVE Selected(s, X) = <<>>
  <1> DEFINE J == {i \in DOMAIN s : s[i] \in X}
  <1>1. \A i \in 1 .. Len(s) : i \notin J
    <2>1. \A i \in 1 .. Len(s) : s[i] \in Y
      OBVIOUS
    <2> QED BY <2>1
  <1> HIDE DEF J
  <1>2. At(s, J) = <<>>
    BY <1>1, AtNone
  <1> QED BY <1>2 DEF Selected, J

LEMMA SelectedType ==
    ASSUME NEW S, NEW s \in Seq(S), NEW X
    PROVE  Selected(s, X) \in Seq(S) /\ Selected(s, X) \in Seq(X) /\ Len(Selected(s, X)) \in Nat
  <1> DEFINE P == {u \in Seq(S) : Selected(u, X) \in Seq(X)}
  <1>1. <<>> \in P
    BY SelectedNone, EmptySeq
  <1>2. ASSUME NEW u \in Seq(S), NEW e \in S, u \in P PROVE Append(u, e) \in P
    <2>1. Append(u, e) \in Seq(S) /\ IsLog(u) /\ Selected(u, X) \in Seq(X)
      BY <1>2, AppendProperties DEF IsLog
    <2>2. /\ e \in X => Selected(Append(u, e), X) = Append(Selected(u, X), e)
          /\ e \notin X => Selected(Append(u, e), X) = Selected(u, X)
      BY <2>1, SelectedMore
    <2>3. Selected(Append(u, e), X) \in Seq(X)
      <3>1. CASE e \in X
        BY <2>1, <2>2, <3>1, AppendProperties
      <3>2. CASE e \notin X
        BY <2>1, <2>2, <3>2
      <3> QED BY <3>1, <3>2
    <2> QED BY <2>1, <2>3
  <1> HIDE DEF P
  <1>3. s \in P
    BY <1>1, <1>2, GrowingSequence
  <1>4. Selected(s, X) \in Seq(S)
    BY AtType DEF Selected
  <1> QED BY <1>3, <1>4 DEF P

\* Of some that were selected.
LEMMA SelectedTwice ==
    ASSUME NEW S, NEW s \in Seq(S), NEW X, NEW Y, Y \subseteq X
    PROVE  Selected(Selected(s, X), Y) = Selected(s, Y)
  <1> DEFINE P == {u \in Seq(S) : Selected(Selected(u, X), Y) = Selected(u, Y)}
  <1>1. <<>> \in P
    BY SelectedNone, EmptySeq
  <1>2. ASSUME NEW u \in Seq(S), NEW e \in S, u \in P PROVE Append(u, e) \in P
    <2>1. Append(u, e) \in Seq(S) /\ IsLog(u)
      BY AppendProperties DEF IsLog
    <2>2. Selected(Selected(u, X), Y) = Selected(u, Y)
      BY <1>2
    <2> HIDE DEF P
    <2>3. /\ e \in X => Selected(Append(u, e), X) = Append(Selected(u, X), e)
          /\ e \notin X => Selected(Append(u, e), X) = Selected(u, X)
          /\ IsLog(Selected(u, X))
      BY <2>1, SelectedMore
    <2>4. /\ e \in Y => Selected(Append(u, e), Y) = Append(Selected(u, Y), e)
          /\ e \notin Y => Selected(Append(u, e), Y) = Selected(u, Y)
      BY <2>1, SelectedMore
    <2>5. /\ e \in Y => Selected(Append(Selected(u, X), e), Y) = Append(Selected(Selected(u, X), Y), e)
          /\ e \notin Y => Selected(Append(Selected(u, X), e), Y) = Selected(Selected(u, X), Y)
      BY <2>3, SelectedMore
    <2>6. Selected(Selected(Append(u, e), X), Y) = Selected(Append(u, e), Y)
      <3>1. CASE e \in Y
        <4>1. e \in X
          BY <3>1
        <4> QED BY <2>2, <2>3, <2>4, <2>5, <3>1, <4>1
      <3>2. CASE e \notin Y
        BY <2>2, <2>3, <2>4, <2>5, <3>2
      <3> QED BY <3>1, <3>2
    <2> QED BY <2>1, <2>6 DEF P
  <1> HIDE DEF P
  <1>3. s \in P
    BY <1>1, <1>2, GrowingSequence
  <1> QED BY <1>3 DEF P

\* The number of the elements at whose positions something holds is that of those selected.
LEMMA CountSelected ==
    ASSUME NEW S, NEW s \in Seq(S), NEW X
    PROVE  Cardinality({i \in DOMAIN s : s[i] \in X}) = Len(Selected(s, X))
  <1> DEFINE I == {i \in DOMAIN s : s[i] \in X}
  <1>1. I \in SUBSET (1 .. Len(s))
    OBVIOUS
  <1> HIDE DEF I
  <1>2. Cardinality(I) = Len(At(s, I))
    BY <1>1, CountAt
  <1> QED BY <1>2 DEF I, Selected

\* n times the same sequence.
Copies(n, s) == Joined([i \in 1 .. n |-> s])

LEMMA CopiesAre ==
    ASSUME NEW S, NEW s \in Seq(S), NEW n \in Nat
    PROVE  Copies(n, s) \in Seq(S) /\ Len(Copies(n, s)) = n * Len(s)
  <1> DEFINE P == {m \in Nat : Copies(m, s) \in Seq(S) /\ Len(Copies(m, s)) = m * Len(s)}
  <1>0. Len(s) \in Nat
    OBVIOUS
  <1>1. 0 \in P
    <2>1. [i \in 1 .. 0 |-> s] = <<>>
      OBVIOUS
    <2>2. Copies(0, s) = <<>>
      BY <2>1, JoinedEmpty DEF Copies
    <2>3. <<>> \in Seq(S) /\ Len(<<>>) = 0
      BY EmptySeq
    <2>4. \A x \in Nat : 0 * x = 0
      OBVIOUS
    <2> QED BY <1>0, <2>2, <2>3, <2>4
  <1>2. ASSUME NEW m \in Nat, m \in P PROVE m + 1 \in P
    <2> DEFINE f == [i \in 1 .. m |-> s]
               g == [i \in 1 .. m + 1 |-> s]
    <2>1. f \in Seq({s}) /\ s \in {s}
      <3>1. f \in [1 .. m -> {s}]
        OBVIOUS
      <3> HIDE DEF f
      <3> QED BY <3>1, FunctionIsSequence
    <2>2. g = Append(f, s)
      <3>1. g = [i \in 1 .. m + 1 |-> g[i]] /\ f = [i \in 1 .. m |-> g[i]] /\ g[m + 1] = s
        OBVIOUS
      <3> HIDE DEF f, g
      <3>2. g = Append(f, g[m + 1])
        BY <3>1, OneMore
      <3> QED BY <3>1, <3>2
    <2> HIDE DEF f, g
    <2>3. Joined(Append(f, s)) = Joined(f) \o s
      BY <2>1, JoinedAppend
    <2>4. Copies(m + 1, s) = Copies(m, s) \o s
      BY <2>2, <2>3 DEF Copies, f, g
    <2>5. Copies(m, s) \in Seq(S) /\ Len(Copies(m, s)) = m * Len(s)
      BY <1>2
    <2>6. Copies(m + 1, s) \in Seq(S) /\ Len(Copies(m + 1, s)) = m * Len(s) + Len(s)
      BY <2>4, <2>5, ConcatProperties
    <2>7. \A x, y \in Nat : x * y + y = (x + 1) * y
      OBVIOUS
    <2> QED BY <1>0, <2>6, <2>7
  <1> HIDE DEF P
  <1>3. \A m \in 1 .. n : m - 1 \in P => m \in P
    <2> TAKE m \in 1 .. n
    <2>1. m - 1 \in Nat /\ (m - 1) + 1 = m
      OBVIOUS
    <2> QED BY <1>2, <2>1
  <1>4. \A m \in 0 .. n : m \in P
    BY <1>1, <1>3, SetInduction
  <1>5. n \in P
    BY <1>4
  <1> QED BY <1>5 DEF P

-------------------------------------------------------------------------------
(* dns *)

Addr == Conns \union {NoAddress}
Questions == {chunk.question : chunk \in Chunks.dns}

\* Who may wait, what is remembered of the answers, and what is logged of them.
Waiters == [address : Addr, question : Questions]
Outcomes == [question : Questions, answered : BOOLEAN]
Items == [action : {"query"}, question : Questions, data : STRING]

WaitersFor(a, q) == {w \in Waiters : w.address = a /\ w.question = q}
OutcomesOf(q) == {o \in Outcomes : o.question = q}
Successful == {o \in Outcomes : o.answered}
ItemsOf(q) == {x \in Items : x.question = q}

Sizes(q) == {Len(s) : s \in Answers[q]}

\* n answers, of some sizes, have m items.
Fair(q, n, m) ==
    /\ n \in Nat /\ m \in Nat
    /\ \E few, many \in Sizes(q) : few * n <= m /\ m <= many * n

\* Where questions came from an address.
QuestionsFrom(r, a, q) ==
    UNION {{c} \X {i \in DOMAIN r[c] : r[c][i].question = q /\ Dns!Address(c, r[c][i]) = a} : c \in Conns}

Balanced(r, e, p, w, a, q) ==
    /\ IsFiniteSet(QuestionsFrom(r, a, q))
    /\ Cardinality(QuestionsFrom(r, a, q)) =
         Len(Selected(p, OutcomesOf(q))) + Len(Selected(w, WaitersFor(a, q)))
    /\ Fair(q, Len(Selected(Selected(p, OutcomesOf(q)), Successful)),
               Len(Selected(Matching(e, "query"), ItemsOf(q))))

DnsTyped ==
    /\ link \in [Conns -> {"open"}] /\ read \in [Conns -> Seq(Chunks.dns)]
    /\ events = [a \in Addr |-> events[a]]
    /\ \A a \in Addr : IsLog(events[a]) /\ Matching(events[a], "query") \in Seq(Items)
    /\ replies \in [Addr -> Seq(Outcomes)]
    /\ pending \in Seq(Waiters)

DnsInv ==
    server = "dns" =>
        /\ DnsTyped
        /\ \A a \in Addr : \A q \in Questions \ {"unreadable"} :
              Balanced(read, events[a], replies[a], pending, a, q)

\* The sizes of the answers.
LEMMA SizesAre ==
    ASSUME NEW q \in Questions
    PROVE  Sizes(q) \subseteq Nat /\ Sizes(q) # {} /\ Answers[q] \subseteq Seq(STRING)
  <1>1. PICK chunk \in Chunks.dns : q = chunk.question
    BY DEF Questions
  <1>2. Answers[q] # {} /\ Answers[q] \subseteq Seq(STRING)
    BY <1>1, DnsAssumption
  <1>3. \A s \in Answers[q] : Len(s) \in Nat
    BY <1>2
  <1> QED BY <1>2, <1>3 DEF Sizes

LEMMA FairNone == ASSUME NEW q \in Questions PROVE Fair(q, 0, 0)
  <1>1. PICK z \in Sizes(q) : z \in Nat
    BY SizesAre
  <1>2. z * 0 <= 0 /\ 0 <= z * 0
    BY <1>1
  <1> QED BY <1>1, <1>2 DEF Fair

\* k more answers of a size.
LEMMA FairMore ==
    ASSUME NEW q \in Questions, NEW n, NEW m, Fair(q, n, m), NEW k \in Nat, NEW z \in Sizes(q)
    PROVE  Fair(q, n + k, m + k * z)
  <1>1. /\ n \in Nat /\ m \in Nat /\ z \in Nat
    BY SizesAre DEF Fair
  <1>2. PICK few \in Sizes(q), many \in Sizes(q) : few * n <= m /\ m <= many * n
    BY DEF Fair
  <1>3. few \in Nat /\ many \in Nat
    BY SizesAre
  <1> DEFINE less == IF few <= z THEN few ELSE z
             more == IF many <= z THEN z ELSE many
  <1>4. /\ less \in Sizes(q) /\ less \in Nat /\ less <= few /\ less <= z
        /\ more \in Sizes(q) /\ more \in Nat /\ many <= more /\ z <= more
    BY <1>1, <1>3
  <1> HIDE DEF less, more
  <1>5. \A a, b, x \in Nat : a <= b => a * x <= b * x
    OBVIOUS
  <1>6. \A a, x, y \in Nat : /\ a * (x + y) = a * x + a * y
                             /\ a * x = x * a /\ a * x \in Nat
    OBVIOUS
  <1>7. /\ less * n <= few * n /\ less * k <= z * k
        /\ many * n <= more * n /\ z * k <= more * k
    BY <1>1, <1>3, <1>4, <1>5
  <1>8. /\ less * (n + k) = less * n + less * k /\ more * (n + k) = more * n + more * k
        /\ z * k = k * z
        /\ less * n \in Nat /\ less * k \in Nat /\ more * n \in Nat /\ more * k \in Nat
        /\ few * n \in Nat /\ many * n \in Nat /\ k * z \in Nat
    BY <1>1, <1>3, <1>4, <1>6
  <1>9. \A a, b, c, d, e, f \in Nat : a <= b /\ b <= e /\ c <= d => a + c <= e + d
    OBVIOUS
  <1>10. less * n + less * k <= m + k * z
    BY <1>1, <1>2, <1>7, <1>8, <1>9
  <1>11. m + k * z <= more * n + more * k
    BY <1>1, <1>2, <1>7, <1>8, <1>9
  <1>12. n + k \in Nat /\ m + k * z \in Nat
    BY <1>1, <1>8
  <1> QED BY <1>4, <1>8, <1>10, <1>11, <1>12 DEF Fair

LEMMA DnsStarts == Init /\ server = "dns" => DnsInv
  <1> SUFFICES ASSUME Init, server = "dns" PROVE DnsInv
    OBVIOUS
  <1>1. Dns!DnsInit
    BY DEF Init
  <1>2. /\ link = [c \in Conns |-> "open"] /\ read = [c \in Conns |-> <<>>]
        /\ events = [a \in Addr |-> <<>>] /\ replies = [a \in Addr |-> <<>>]
        /\ pending = <<>>
    BY <1>1 DEF Dns!DnsInit, Dns!Addresses, Addr
  <1>3. DnsTyped
    <2>1. \A a \in Addr : IsLog(events[a]) /\ Matching(events[a], "query") \in Seq(Items)
      <3>1. IsLog(<<>>) /\ Matching(<<>>, "query") \in Seq(Items)
        BY NoEntries, NoMatching, EmptySeq
      <3> QED BY <1>2, <3>1
    <2>2. link \in [Conns -> {"open"}] /\ read \in [Conns -> Seq(Chunks.dns)]
      BY <1>2, EmptySeq
    <2>3. replies \in [Addr -> Seq(Outcomes)] /\ events = [a \in Addr |-> events[a]]
      BY <1>2, EmptySeq
    <2>4. pending \in Seq(Waiters)
      BY <1>2, EmptySeq
    <2> QED BY <2>1, <2>2, <2>3, <2>4 DEF DnsTyped
  <1>4. ASSUME NEW a \in Addr, NEW q \in Questions \ {"unreadable"}
        PROVE  Balanced(read, events[a], replies[a], pending, a, q)
    <2>1. \A c \in Conns : DOMAIN read[c] = {}
      BY <1>2
    <2>2. QuestionsFrom(read, a, q) = {}
      BY <2>1 DEF QuestionsFrom
    <2>3. IsFiniteSet({}) /\ Cardinality({}) = 0 /\ 0 = 0 + 0 /\ Len(<<>>) = 0
      BY FS_EmptySet
    <2>4. events[a] = <<>> /\ replies[a] = <<>>
      BY <1>2
    <2>5. Matching(events[a], "query") = <<>>
      BY <2>4, NoMatching
    <2>6. Fair(q, 0, 0)
      BY FairNone
    <2>7. \A X : Selected(<<>>, X) = <<>>
      BY SelectedNone
    <2> QED BY <1>2, <2>2, <2>3, <2>4, <2>5, <2>6, <2>7 DEF Balanced
  <1> QED BY <1>3, <1>4 DEF DnsInv

-------------------------------------------------------------------------------
(* A question comes in *)

\* A chunk from c is a question more that came from an address, or is not.
QuestionOnce(r, t, c, chunk, a, q) ==
    IF q = chunk.question /\ a = Dns!Address(c, chunk)
    THEN IsFiniteSet(QuestionsFrom(t, a, q)) /\ Cardinality(QuestionsFrom(t, a, q)) = Cardinality(QuestionsFrom(r, a, q)) + 1
    ELSE QuestionsFrom(t, a, q) = QuestionsFrom(r, a, q)

LEMMA QuestionMore ==
    ASSUME NEW r \in [Conns -> Seq(Chunks.dns)], NEW c \in Conns, NEW chunk \in Chunks.dns,
           NEW t, t = [r EXCEPT ![c] = Append(r[c], chunk)],
           NEW a, NEW q, IsFiniteSet(QuestionsFrom(r, a, q))
    PROVE  QuestionOnce(r, t, c, chunk, a, q)
  <1> DEFINE n == Len(r[c])
             Here(x, u) == u.question = q /\ Dns!Address(x, u) = a
  <1>1. /\ n \in Nat /\ DOMAIN r[c] = 1 .. n /\ DOMAIN t[c] = 1 .. n + 1 /\ t[c][n + 1] = chunk
        /\ \A i \in 1 .. n : t[c][i] = r[c][i]
    <2>1. r[c] \in Seq(Chunks.dns) /\ t[c] = Append(r[c], chunk)
      OBVIOUS
    <2> QED BY <2>1, AppendProperties
  <1>2. \A x \in Conns \ {c} : t[x] = r[x]
    OBVIOUS
  <1>3. /\ \A z : z \in QuestionsFrom(r, a, q) <=> \E x \in Conns : \E i \in DOMAIN r[x] : z = <<x, i>> /\ Here(x, r[x][i])
        /\ \A z : z \in QuestionsFrom(t, a, q) <=> \E x \in Conns : \E i \in DOMAIN t[x] : z = <<x, i>> /\ Here(x, t[x][i])
    BY DEF QuestionsFrom
  <1> HIDE DEF n, Here
  <1> DEFINE new == <<c, n + 1>>
  <1>4. new \notin QuestionsFrom(r, a, q)
    <2>1. ASSUME new \in QuestionsFrom(r, a, q) PROVE FALSE
      <3>1. PICK x \in Conns : \E i \in DOMAIN r[x] : new = <<x, i>>
        BY <1>3, <2>1
      <3>11. PICK i \in DOMAIN r[x] : new = <<x, i>>
        BY <3>1
      <3>2. x = c /\ i = n + 1
        BY <3>11
      <3> QED BY <1>1, <3>11, <3>2
    <2> QED BY <2>1
  <1>5. ASSUME NEW z \in QuestionsFrom(r, a, q) PROVE z \in QuestionsFrom(t, a, q)
    <2>1. PICK x \in Conns : \E i \in DOMAIN r[x] : z = <<x, i>> /\ Here(x, r[x][i])
      BY <1>3
    <2>11. PICK i \in DOMAIN r[x] : z = <<x, i>> /\ Here(x, r[x][i])
      BY <2>1
    <2>2. i \in DOMAIN t[x] /\ t[x][i] = r[x][i]
      <3>1. CASE x = c
        BY <1>1, <2>11, <3>1
      <3>2. CASE x # c
        BY <1>2, <2>11, <3>2
      <3> QED BY <3>1, <3>2
    <2>3. \E y \in Conns : \E j \in DOMAIN t[y] : z = <<y, j>> /\ Here(y, t[y][j])
      BY <2>11, <2>2
    <2> QED BY <1>3, <2>3
  <1>6. ASSUME NEW z \in QuestionsFrom(t, a, q) PROVE z \in QuestionsFrom(r, a, q) \/ (z = new /\ Here(c, chunk))
    <2>1. PICK x \in Conns : \E i \in DOMAIN t[x] : z = <<x, i>> /\ Here(x, t[x][i])
      BY <1>3
    <2>11. PICK i \in DOMAIN t[x] : z = <<x, i>> /\ Here(x, t[x][i])
      BY <2>1
    <2>2. (i \in DOMAIN r[x] /\ t[x][i] = r[x][i]) \/ (x = c /\ i = n + 1)
      <3>1. CASE x = c
        <4>1. \A j \in 1 .. n + 1 : j \in 1 .. n \/ j = n + 1
          BY <1>1
        <4> QED BY <1>1, <2>11, <3>1, <4>1
      <3>2. CASE x # c
        BY <1>2, <2>11, <3>2
      <3> QED BY <3>1, <3>2
    <2>3. CASE i \in DOMAIN r[x] /\ t[x][i] = r[x][i]
      <3>1. \E y \in Conns : \E j \in DOMAIN r[y] : z = <<y, j>> /\ Here(y, r[y][j])
        BY <2>11, <2>3
      <3> QED BY <1>3, <3>1
    <2>4. CASE x = c /\ i = n + 1
      BY <1>1, <2>11, <2>4
    <2> QED BY <2>2, <2>3, <2>4
  <1>7. Here(c, chunk) => new \in QuestionsFrom(t, a, q)
    <2>1. n + 1 \in DOMAIN t[c] /\ t[c][n + 1] = chunk
      BY <1>1
    <2>2. Here(c, chunk) => \E y \in Conns : \E j \in DOMAIN t[y] : new = <<y, j>> /\ Here(y, t[y][j])
      BY <2>1
    <2> QED BY <1>3, <2>2
  <1>8. Here(c, chunk) <=> q = chunk.question /\ a = Dns!Address(c, chunk)
    BY DEF Here
  <1>9. CASE Here(c, chunk)
    <2>1. QuestionsFrom(t, a, q) = QuestionsFrom(r, a, q) \union {new}
      BY <1>5, <1>6, <1>7, <1>9
    <2> HIDE DEF new
    <2>2. /\ IsFiniteSet(QuestionsFrom(r, a, q) \union {new})
          /\ Cardinality(QuestionsFrom(r, a, q) \union {new}) = Cardinality(QuestionsFrom(r, a, q)) + 1
      BY <1>4, FS_AddElement
    <2> QED BY <1>8, <1>9, <2>1, <2>2 DEF QuestionOnce
  <1>10. CASE ~Here(c, chunk)
    <2>1. QuestionsFrom(t, a, q) = QuestionsFrom(r, a, q)
      BY <1>5, <1>6, <1>10
    <2> QED BY <1>8, <1>10, <2>1 DEF QuestionOnce
  <1> QED BY <1>9, <1>10

LEMMA DnsArrives ==
    ASSUME DnsInv, server = "dns", NEW c \in Conns, NEW chunk \in Chunks.dns,
           Dns!Question(c, chunk) \/ Dns!Unreadable(c, chunk), server' = server
    PROVE  DnsInv'
  <1> DEFINE w == [address |-> Dns!Address(c, chunk), question |-> chunk.question]
             x == [action |-> "connection", data |-> chunk.question]
  <1>0. /\ DnsTyped
        /\ \A a \in Addr : \A q \in Questions \ {"unreadable"} :
              Balanced(read, events[a], replies[a], pending, a, q)
    BY DEF DnsInv
  <1>1. /\ read' = [read EXCEPT ![c] = Append(read[c], chunk)]
        /\ link' = link /\ replies' = replies
        /\ events' = [events EXCEPT ![c] = Append(events[c], x)] \/ events' = events
        /\ \/ chunk.question # "unreadable" /\ pending' = Append(pending, w)
           \/ chunk.question = "unreadable" /\ pending' = pending
    BY DEF Dns!Question, Dns!Unreadable, Dns!Arrives, Dns!Received, Dns!Log
  <1>2. /\ w \in Waiters /\ c \in Addr /\ w.question = chunk.question
        /\ w.address = Dns!Address(c, chunk)
    BY DEF Waiters, Dns!Address, Questions, Addr
  <1>3. x.action # "query"
    OBVIOUS
  <1> HIDE DEF w, x
  <1>4. /\ events' = [a \in Addr |-> events'[a]]
        /\ \A a \in Addr : IsLog(events'[a]) /\ Matching(events'[a], "query") = Matching(events[a], "query")
    <2>1. CASE events' = events
      BY <1>0, <2>1 DEF DnsTyped
    <2>2. CASE events' = [events EXCEPT ![c] = Append(events[c], x)]
      <3>1. events' = [a \in Addr |-> events'[a]]
        BY <1>0, <2>2 DEF DnsTyped
      <3>2. events'[c] = Append(events[c], x) /\ \A a \in Addr \ {c} : events'[a] = events[a]
        BY <1>0, <1>2, <2>2 DEF DnsTyped
      <3>3. IsLog(Append(events[c], x)) /\ Matching(Append(events[c], x), "query") = Matching(events[c], "query")
        BY <1>0, <1>2, <1>3, LogAppend, MatchingEntry DEF DnsTyped
      <3>4. ASSUME NEW a \in Addr
            PROVE  IsLog(events'[a]) /\ Matching(events'[a], "query") = Matching(events[a], "query")
        <4>1. CASE a = c
          BY <3>2, <3>3, <4>1
        <4>2. CASE a # c
          BY <1>0, <3>2, <4>2 DEF DnsTyped
        <4> QED BY <4>1, <4>2
      <3> QED BY <3>1, <3>4
    <2> QED BY <1>1, <2>1, <2>2
  <1>5. read' \in [Conns -> Seq(Chunks.dns)] /\ pending' \in Seq(Waiters)
    <2>1. Append(read[c], chunk) \in Seq(Chunks.dns) /\ Append(pending, w) \in Seq(Waiters)
      BY <1>0, <1>2, AppendProperties DEF DnsTyped
    <2> QED BY <1>0, <1>1, <2>1 DEF DnsTyped
  <1>6. DnsTyped'
    BY <1>0, <1>1, <1>4, <1>5 DEF DnsTyped
  <1>7. ASSUME NEW a \in Addr, NEW q \in Questions \ {"unreadable"}
        PROVE  Balanced(read', events'[a], replies'[a], pending', a, q)
    <2>1. /\ IsFiniteSet(QuestionsFrom(read, a, q))
          /\ Cardinality(QuestionsFrom(read, a, q)) =
               Len(Selected(replies[a], OutcomesOf(q))) + Len(Selected(pending, WaitersFor(a, q)))
          /\ Fair(q, Len(Selected(Selected(replies[a], OutcomesOf(q)), Successful)),
                     Len(Selected(Matching(events[a], "query"), ItemsOf(q))))
      BY <1>0 DEF Balanced
    <2>2. /\ q = chunk.question /\ a = Dns!Address(c, chunk) =>
                /\ IsFiniteSet(QuestionsFrom(read', a, q))
                /\ Cardinality(QuestionsFrom(read', a, q)) = Cardinality(QuestionsFrom(read, a, q)) + 1
          /\ ~(q = chunk.question /\ a = Dns!Address(c, chunk)) => QuestionsFrom(read', a, q) = QuestionsFrom(read, a, q)
      <3>1. read \in [Conns -> Seq(Chunks.dns)] /\ IsFiniteSet(QuestionsFrom(read, a, q))
        BY <1>0, <2>1 DEF DnsTyped
      <3>2. \A t : t = [read EXCEPT ![c] = Append(read[c], chunk)] => QuestionOnce(read, t, c, chunk, a, q)
        BY <3>1, QuestionMore
      <3>3. QuestionOnce(read, read', c, chunk, a, q)
        BY <1>1, <3>2
      <3> QED BY <3>3 DEF QuestionOnce
    <2>3. Len(Selected(replies[a], OutcomesOf(q))) \in Nat /\ Len(Selected(pending, WaitersFor(a, q))) \in Nat
      BY <1>0, SelectedType DEF DnsTyped
    <2>4. w \in WaitersFor(a, q) <=> q = chunk.question /\ a = Dns!Address(c, chunk)
      BY <1>2 DEF WaitersFor
    <2>5. /\ w \in WaitersFor(a, q) =>
                Len(Selected(Append(pending, w), WaitersFor(a, q))) = Len(Selected(pending, WaitersFor(a, q))) + 1
          /\ w \notin WaitersFor(a, q) =>
                Selected(Append(pending, w), WaitersFor(a, q)) = Selected(pending, WaitersFor(a, q))
      <3>1. IsLog(pending)
        BY <1>0 DEF DnsTyped, IsLog
      <3>2. /\ w \in WaitersFor(a, q) =>
                 Selected(Append(pending, w), WaitersFor(a, q)) = Append(Selected(pending, WaitersFor(a, q)), w)
            /\ w \notin WaitersFor(a, q) =>
                 Selected(Append(pending, w), WaitersFor(a, q)) = Selected(pending, WaitersFor(a, q))
            /\ IsLog(Selected(pending, WaitersFor(a, q)))
        BY <3>1, SelectedMore
      <3>3. Len(Append(Selected(pending, WaitersFor(a, q)), w)) = Len(Selected(pending, WaitersFor(a, q))) + 1
        BY <3>2, LogAppend
      <3> QED BY <3>2, <3>3
    <2>6. /\ IsFiniteSet(QuestionsFrom(read', a, q))
          /\ Cardinality(QuestionsFrom(read', a, q)) =
               Len(Selected(replies[a], OutcomesOf(q))) + Len(Selected(pending', WaitersFor(a, q)))
      <3>1. CASE q = chunk.question /\ a = Dns!Address(c, chunk)
        <4>1. pending' = Append(pending, w)
          BY <1>1, <3>1
        <4>2. Len(Selected(pending', WaitersFor(a, q))) = Len(Selected(pending, WaitersFor(a, q))) + 1
          BY <2>4, <2>5, <3>1, <4>1
        <4>3. Cardinality(QuestionsFrom(read', a, q)) = Cardinality(QuestionsFrom(read, a, q)) + 1 /\ IsFiniteSet(QuestionsFrom(read', a, q))
          BY <2>2, <3>1
        <4>4. \A y, z \in Nat : (y + z) + 1 = y + (z + 1)
          OBVIOUS
        <4> QED BY <2>1, <2>3, <4>2, <4>3, <4>4, Zenon
      <3>2. CASE ~(q = chunk.question /\ a = Dns!Address(c, chunk))
        <4>1. Selected(pending', WaitersFor(a, q)) = Selected(pending, WaitersFor(a, q))
          BY <1>1, <2>4, <2>5, <3>2
        <4> QED BY <2>1, <2>2, <3>2, <4>1, Zenon
      <3> QED BY <3>1, <3>2
    <2> QED BY <1>1, <1>4, <2>1, <2>6 DEF Balanced
  <1> QED BY <1>6, <1>7 DEF DnsInv

-------------------------------------------------------------------------------
(* An answer comes, or fails to *)

\* The same element some times more.
SelectsMore(s, e, k, X) ==
    /\ e \in X => /\ Selected(s \o Copies(k, <<e>>), X) = Selected(s, X) \o Copies(k, <<e>>)
                  /\ Len(Selected(s \o Copies(k, <<e>>), X)) = Len(Selected(s, X)) + k
    /\ e \notin X => Selected(s \o Copies(k, <<e>>), X) = Selected(s, X)

LEMMA SelectedCopies ==
    ASSUME NEW S, NEW s \in Seq(S), NEW e \in S, NEW k \in Nat, NEW X
    PROVE  s \o Copies(k, <<e>>) \in Seq(S) /\ SelectsMore(s, e, k, X)
  <1> DEFINE u == Copies(k, <<e>>)
  <1>1. <<e>> \in Seq({e}) /\ Len(<<e>>) = 1
    OBVIOUS
  <1>2. u \in Seq({e}) /\ Len(u) = k * Len(<<e>>)
    BY <1>1, CopiesAre
  <1>3. Len(u) = k
    BY <1>1, <1>2
  <1> HIDE DEF u
  <1>4. u \in Seq(S) /\ Len(u) \in Nat
    BY <1>2
  <1>5. Selected(s \o u, X) = Selected(s, X) \o Selected(u, X)
    BY <1>4, SelectedConcat
  <1>6. Selected(s, X) \in Seq(S) /\ Len(Selected(s, X)) \in Nat
    BY SelectedType
  <1>7. s \o u \in Seq(S)
    BY <1>4, ConcatProperties
  <1>8. CASE e \in X
    <2>1. u \in Seq(X)
      BY <1>2, <1>8
    <2>2. Selected(u, X) = u
      BY <2>1, SelectedAll
    <2>3. Len(Selected(s, X) \o u) = Len(Selected(s, X)) + k
      BY <1>3, <1>4, <1>6, ConcatProperties
    <2> QED BY <1>3, <1>5, <1>7, <1>8, <2>2, <2>3 DEF u, SelectsMore
  <1>9. CASE e \notin X
    <2>1. X \intersect {e} = {}
      BY <1>9
    <2>2. Selected(u, X) = <<>>
      BY <1>2, <2>1, SelectedOthers
    <2>3. Selected(s, X) \o <<>> = Selected(s, X)
      BY <1>6, ConcatEmptySeq
    <2>4. Selected(s \o u, X) = Selected(s, X)
      BY <1>5, <2>2, <2>3
    <2> QED BY <1>3, <1>7, <1>9, <2>4 DEF u, SelectsMore
  <1> QED BY <1>8, <1>9

\* What k who waited for q get, and what is remembered of it.
LEMMA OutcomesMore ==
    ASSUME NEW p \in Seq(Outcomes), NEW q0 \in Questions, NEW v \in BOOLEAN, NEW k \in Nat, NEW q,
           NEW o, o = [question |-> q0, answered |-> v]
    PROVE  /\ p \o Copies(k, <<o>>) \in Seq(Outcomes)
           /\ q = q0 => Len(Selected(p \o Copies(k, <<o>>), OutcomesOf(q))) =
                        Len(Selected(p, OutcomesOf(q))) + k
           /\ q = q0 /\ v => Len(Selected(Selected(p \o Copies(k, <<o>>), OutcomesOf(q)), Successful)) =
                             Len(Selected(Selected(p, OutcomesOf(q)), Successful)) + k
           /\ q = q0 /\ ~v => Selected(Selected(p \o Copies(k, <<o>>), OutcomesOf(q)), Successful) =
                              Selected(Selected(p, OutcomesOf(q)), Successful)
           /\ q # q0 => Selected(p \o Copies(k, <<o>>), OutcomesOf(q)) = Selected(p, OutcomesOf(q))
  <1>1. /\ o \in Outcomes
        /\ o \in OutcomesOf(q) <=> q = q0
        /\ o \in Successful <=> v
    BY DEF Outcomes, OutcomesOf, Successful
  <1> DEFINE t == p \o Copies(k, <<o>>)
             m == Selected(p, OutcomesOf(q))
             n == Selected(t, OutcomesOf(q))
  <1>2. /\ t \in Seq(Outcomes)
        /\ o \in OutcomesOf(q) => n = m \o Copies(k, <<o>>) /\ Len(n) = Len(m) + k
        /\ o \notin OutcomesOf(q) => n = m
    <2>1. t \in Seq(Outcomes) /\ SelectsMore(p, o, k, OutcomesOf(q))
      BY <1>1, SelectedCopies
    <2> QED BY <2>1, Zenon DEF SelectsMore
  <1>3. m \in Seq(Outcomes)
    BY SelectedType
  <1> HIDE DEF t, m, n
  <1>4. /\ o \in Successful => Len(Selected(m \o Copies(k, <<o>>), Successful)) = Len(Selected(m, Successful)) + k
        /\ o \notin Successful => Selected(m \o Copies(k, <<o>>), Successful) = Selected(m, Successful)
    <2>1. SelectsMore(m, o, k, Successful)
      BY <1>1, <1>3, SelectedCopies
    <2> QED BY <2>1, Zenon DEF SelectsMore
  <1>5. /\ q = q0 => Len(n) = Len(m) + k
        /\ q = q0 /\ v => Len(Selected(n, Successful)) = Len(Selected(m, Successful)) + k
        /\ q = q0 /\ ~v => Selected(n, Successful) = Selected(m, Successful)
        /\ q # q0 => n = m
    BY <1>1, <1>2, <1>4
  <1> QED BY <1>2, <1>5, Zenon DEF t, m, n

\* What is logged of an answer with the items es, for k who waited for q0.
LEMMA ItemsMore ==
    ASSUME NEW e, IsLog(e), Matching(e, "query") \in Seq(Items), NEW q0 \in Questions, NEW k \in Nat,
           NEW es \in Seq(ItemsOf(q0)), NEW q
    PROVE  /\ IsLog(e \o Copies(k, es)) /\ Matching(e \o Copies(k, es), "query") \in Seq(Items)
           /\ q = q0 => Len(Selected(Matching(e \o Copies(k, es), "query"), ItemsOf(q))) =
                        Len(Selected(Matching(e, "query"), ItemsOf(q))) + k * Len(es)
           /\ q # q0 => Selected(Matching(e \o Copies(k, es), "query"), ItemsOf(q)) =
                        Selected(Matching(e, "query"), ItemsOf(q))
  <1> DEFINE u == Copies(k, es)
             m == Matching(e, "query")
  <1>1. u \in Seq(ItemsOf(q0)) /\ Len(u) = k * Len(es)
    BY CopiesAre
  <1> HIDE DEF u
  <1>2. u \in Seq(Items) /\ IsLog(u)
    <2>1. ItemsOf(q0) \subseteq Items
      BY DEF ItemsOf
    <2>2. \A s \in Seq(ItemsOf(q0)) : s \in Seq(Items)
      BY <2>1
    <2> QED BY <1>1, <2>2 DEF IsLog
  <1>3. Matching(u, "query") = u
    <2>1. \A i \in 1 .. Len(u) : i \in Positions(u, "query")
      <3>1. \A i \in 1 .. Len(u) : u[i] \in Items /\ i \in DOMAIN u
        BY <1>2
      <3> QED BY <3>1 DEF Positions, Items
    <2> QED BY <1>2, <2>1, AtAll DEF Matching
  <1>4. IsLog(e \o u) /\ Matching(e \o u, "query") = m \o u
    <2>1. IsLog(e \o u)
      BY <1>2, LogConcat
    <2>2. Matching(e \o u, "query") = Matching(e, "query") \o Matching(u, "query")
      BY <1>2, MatchingConcat
    <2> QED BY <1>3, <2>1, <2>2
  <1> HIDE DEF m
  <1>5. m \in Seq(Items)
    BY DEF m
  <1>6. m \o u \in Seq(Items) /\ Selected(m \o u, ItemsOf(q)) = Selected(m, ItemsOf(q)) \o Selected(u, ItemsOf(q))
    <2>1. m \o u \in Seq(Items)
      BY <1>2, <1>5, ConcatProperties
    <2>2. Selected(m \o u, ItemsOf(q)) = Selected(m, ItemsOf(q)) \o Selected(u, ItemsOf(q))
      BY <1>2, <1>5, SelectedConcat
    <2> QED BY <2>1, <2>2
  <1>7. Selected(m, ItemsOf(q)) \in Seq(Items) /\ Len(Selected(m, ItemsOf(q))) \in Nat
    BY <1>5, SelectedType
  <1>8. CASE q = q0
    <2>1. Selected(u, ItemsOf(q)) = u
      BY <1>1, <1>8, SelectedAll
    <2>2. Len(Selected(m, ItemsOf(q)) \o u) = Len(Selected(m, ItemsOf(q))) + Len(u)
      BY <1>2, <1>7, ConcatProperties
    <2> QED BY <1>1, <1>4, <1>6, <1>8, <2>1, <2>2 DEF u, m
  <1>9. CASE q # q0
    <2>1. ItemsOf(q) \intersect ItemsOf(q0) = {}
      BY <1>9 DEF ItemsOf
    <2>2. Selected(u, ItemsOf(q)) = <<>>
      BY <1>1, <2>1, SelectedOthers
    <2>3. Selected(m, ItemsOf(q)) \o <<>> = Selected(m, ItemsOf(q))
      BY <1>7, ConcatEmptySeq
    <2>4. Selected(m \o u, ItemsOf(q)) = Selected(m, ItemsOf(q))
      BY <1>6, <2>2, <2>3
    <2> QED BY <1>4, <1>6, <1>9, <2>4 DEF u, m
  <1> QED BY <1>8, <1>9

\* Who waits for q at a, and how many.
Waits(a, q) == Selected(pending, WaitersFor(a, q))
Many(a, q) == Len(Waits(a, q))

LEMMA DnsWaiting ==
    ASSUME DnsTyped, NEW a \in Addr, NEW q \in Questions
    PROVE  /\ Dns!Waiting(a, q) = Waits(a, q) /\ Many(a, q) \in Nat
           /\ \A s : Dns!ForEach(a, q, s) = Copies(Many(a, q), s)
  <1>1. pending \in Seq(Waiters)
    BY DEF DnsTyped
  <1>2. Dns!Waiting(a, q) = Waits(a, q)
    <2>1. \A i \in DOMAIN pending : pending[i] \in Waiters
      BY <1>1
    <2>2. {i \in DOMAIN pending : pending[i].address = a /\ pending[i].question = q} =
          {i \in DOMAIN pending : pending[i] \in WaitersFor(a, q)}
      BY <2>1 DEF WaitersFor
    <2> QED BY <2>2 DEF Dns!Waiting, Dns!At, At, Waits, Selected
  <1>3. Waits(a, q) \in Seq(Waiters) /\ Many(a, q) \in Nat
    BY <1>1, SelectedType DEF Waits, Many
  <1>4. DOMAIN Dns!Waiting(a, q) = 1 .. Many(a, q)
    BY <1>2, <1>3 DEF Many
  <1>5. \A s : Dns!Joined(s) = Joined(s)
    BY DEF Dns!Joined, Joined
  <1>6. \A s : Dns!ForEach(a, q, s) = Copies(Many(a, q), s)
    BY <1>4, <1>5 DEF Dns!ForEach, Copies
  <1> QED BY <1>2, <1>3, <1>6

\* One who waits for q0 does not any more; the others still do.
StillWaits(w, t, q0, a, q) ==
    /\ q = q0 => Selected(t, WaitersFor(a, q)) = <<>>
    /\ q # q0 => Selected(t, WaitersFor(a, q)) = Selected(w, WaitersFor(a, q))

LEMMA DnsServes ==
    ASSUME NEW w \in Seq(Waiters), NEW q0, NEW t, t = Dns!At(w, {i \in DOMAIN w : w[i].question # q0}),
           NEW a, NEW q
    PROVE  t \in Seq(Waiters) /\ StillWaits(w, t, q0, a, q)
  <1> DEFINE Others == {x \in Waiters : x.question # q0}
  <1>1. t = Selected(w, Others)
    <2>1. \A i \in DOMAIN w : w[i] \in Waiters
      OBVIOUS
    <2>2. {i \in DOMAIN w : w[i].question # q0} = {i \in DOMAIN w : w[i] \in Others}
      BY <2>1
    <2> QED BY <2>2 DEF Selected, Dns!At, At
  <1>2. q = q0 => WaitersFor(a, q) \intersect Others = {}
    BY DEF WaitersFor
  <1>3. q # q0 => WaitersFor(a, q) \subseteq Others
    BY DEF WaitersFor
  <1> HIDE DEF Others
  <1>4. t \in Seq(Waiters) /\ t \in Seq(Others)
    BY <1>1, SelectedType
  <1>5. ASSUME q = q0 PROVE Selected(t, WaitersFor(a, q)) = <<>>
    BY <1>2, <1>4, <1>5, SelectedOthers
  <1>6. ASSUME q # q0 PROVE Selected(t, WaitersFor(a, q)) = Selected(w, WaitersFor(a, q))
    BY <1>1, <1>3, <1>6, SelectedTwice
  <1> QED BY <1>4, <1>5, <1>6 DEF StillWaits

LEMMA DnsAnswers ==
    ASSUME DnsInv, server = "dns", NEW q0 \in Questions, NEW v \in BOOLEAN, Dns!Answered(q0, v),
           NEW es \in Seq(ItemsOf(q0)), Len(es) \in Sizes(q0),
           v => events' = [a \in Addr |-> events[a] \o Copies(Many(a, q0), es)],
           ~v => events' = events,
           server' = server
    PROVE  DnsInv'
  <1> DEFINE o == [question |-> q0, answered |-> v]
  <1>0. /\ DnsTyped
        /\ \A a \in Addr : \A q \in Questions \ {"unreadable"} :
              Balanced(read, events[a], replies[a], pending, a, q)
    BY DEF DnsInv
  <1>1. /\ replies' = [a \in Addr |-> replies[a] \o Dns!ForEach(a, q0, <<o>>)]
        /\ pending' = Dns!At(pending, {i \in DOMAIN pending : pending[i].question # q0})
        /\ link' = link /\ read' = read
    BY DEF Dns!Answered, Dns!Addresses, Addr
  <1>2. o = [question |-> q0, answered |-> v]
    OBVIOUS
  <1> HIDE DEF o
  <1>3. \A a \in Addr : /\ Many(a, q0) \in Nat
                        /\ replies[a] \in Seq(Outcomes) /\ IsLog(events[a])
                        /\ Matching(events[a], "query") \in Seq(Items)
                        /\ replies'[a] = replies[a] \o Copies(Many(a, q0), <<o>>)
    BY <1>0, <1>1, DnsWaiting DEF DnsTyped
  <1>4. \A a \in Addr : replies'[a] \in Seq(Outcomes)
    BY <1>2, <1>3, OutcomesMore
  <1>5. replies' \in [Addr -> Seq(Outcomes)]
    <2>1. replies' = [a \in Addr |-> replies'[a]]
      BY <1>1
    <2> QED BY <1>4, <2>1
  <1>6. pending' \in Seq(Waiters)
    BY <1>0, <1>1, DnsServes DEF DnsTyped
  <1>7. /\ events' = [a \in Addr |-> events'[a]]
        /\ \A a \in Addr : IsLog(events'[a]) /\ Matching(events'[a], "query") \in Seq(Items)
    <2>1. CASE v
      <3>1. \A a \in Addr : events'[a] = events[a] \o Copies(Many(a, q0), es)
        BY <2>1
      <3>2. events' = [a \in Addr |-> events'[a]]
        BY <2>1
      <3>3. \A a \in Addr : IsLog(events'[a]) /\ Matching(events'[a], "query") \in Seq(Items)
        <4>1. \A e : \A k \in Nat : IsLog(e) /\ Matching(e, "query") \in Seq(Items) =>
                 IsLog(e \o Copies(k, es)) /\ Matching(e \o Copies(k, es), "query") \in Seq(Items)
          BY ItemsMore
        <4> QED BY <1>3, <3>1, <4>1
      <3> QED BY <3>2, <3>3
    <2>2. CASE ~v
      BY <1>0, <2>2 DEF DnsTyped
    <2> QED BY <2>1, <2>2
  <1>8. DnsTyped'
    BY <1>0, <1>1, <1>5, <1>6, <1>7 DEF DnsTyped
  <1>9. ASSUME NEW a \in Addr, NEW q \in Questions \ {"unreadable"}
        PROVE  Balanced(read', events'[a], replies'[a], pending', a, q)
    <2> DEFINE k == Many(a, q0)
               p == replies[a]
               e == events[a]
    <2>1. /\ k \in Nat /\ p \in Seq(Outcomes) /\ IsLog(e) /\ Matching(e, "query") \in Seq(Items)
          /\ replies'[a] = p \o Copies(k, <<o>>)
          /\ pending \in Seq(Waiters)
          /\ (v => events'[a] = e \o Copies(k, es)) /\ (~v => events'[a] = e)
      BY <1>0, <1>3 DEF DnsTyped
    <2>2. /\ IsFiniteSet(QuestionsFrom(read, a, q))
          /\ Cardinality(QuestionsFrom(read, a, q)) =
               Len(Selected(p, OutcomesOf(q))) + Len(Selected(pending, WaitersFor(a, q)))
          /\ Fair(q, Len(Selected(Selected(p, OutcomesOf(q)), Successful)),
                     Len(Selected(Matching(e, "query"), ItemsOf(q))))
      BY <1>0 DEF Balanced
    <2>3. k = Len(Selected(pending, WaitersFor(a, q0)))
      BY DEF Many, Waits
    <2> HIDE DEF k, p, e
    <2> DEFINE t == replies'[a]
    <2>4. /\ q = q0 => Len(Selected(t, OutcomesOf(q))) = Len(Selected(p, OutcomesOf(q))) + k
          /\ q = q0 /\ v => Len(Selected(Selected(t, OutcomesOf(q)), Successful)) =
                            Len(Selected(Selected(p, OutcomesOf(q)), Successful)) + k
          /\ q = q0 /\ ~v => Selected(Selected(t, OutcomesOf(q)), Successful) =
                             Selected(Selected(p, OutcomesOf(q)), Successful)
          /\ q # q0 => Selected(t, OutcomesOf(q)) = Selected(p, OutcomesOf(q))
      <3>1. t = p \o Copies(k, <<o>>)
        BY <2>1
      <3> HIDE DEF t
      <3> QED BY <1>2, <2>1, <3>1, OutcomesMore
    <2>5. /\ q = q0 => Selected(pending', WaitersFor(a, q)) = <<>>
          /\ q # q0 => Selected(pending', WaitersFor(a, q)) = Selected(pending, WaitersFor(a, q))
      <3>1. pending \in Seq(Waiters)
        BY <2>1
      <3>2. ASSUME NEW w, w = Dns!At(pending, {i \in DOMAIN pending : pending[i].question # q0})
            PROVE  StillWaits(pending, w, q0, a, q)
        BY <3>1, <3>2, DnsServes
      <3> QED BY <1>1, <3>2 DEF StillWaits
    <2>6. v /\ q = q0 => Len(Selected(Matching(events'[a], "query"), ItemsOf(q))) =
                         Len(Selected(Matching(e, "query"), ItemsOf(q))) + k * Len(es)
      <3>1. q = q0 => Len(Selected(Matching(e \o Copies(k, es), "query"), ItemsOf(q))) =
                      Len(Selected(Matching(e, "query"), ItemsOf(q))) + k * Len(es)
        BY <2>1, ItemsMore
      <3>2. v => events'[a] = e \o Copies(k, es)
        BY <2>1
      <3> QED BY <3>1, <3>2
    <2>7. v /\ q # q0 => Selected(Matching(events'[a], "query"), ItemsOf(q)) =
                         Selected(Matching(e, "query"), ItemsOf(q))
      <3>1. q # q0 => Selected(Matching(e \o Copies(k, es), "query"), ItemsOf(q)) =
                      Selected(Matching(e, "query"), ItemsOf(q))
        BY <2>1, ItemsMore
      <3>2. v => events'[a] = e \o Copies(k, es)
        BY <2>1
      <3> QED BY <3>1, <3>2
    <2>8. Len(Selected(p, OutcomesOf(q))) \in Nat
      BY <2>1, SelectedType
    <2> HIDE DEF t
    <2>9. Cardinality(QuestionsFrom(read, a, q)) =
            Len(Selected(t, OutcomesOf(q))) + Len(Selected(pending', WaitersFor(a, q)))
      <3>1. CASE q = q0
        <4>1. Len(Selected(pending', WaitersFor(a, q))) = 0
          BY <2>5, <3>1
        <4>2. Len(Selected(t, OutcomesOf(q))) = Len(Selected(p, OutcomesOf(q))) + k
          BY <2>4, <3>1
        <4>3. \A x, y \in Nat : x + y = (x + y) + 0
          OBVIOUS
        <4>4. Cardinality(QuestionsFrom(read, a, q)) = Len(Selected(p, OutcomesOf(q))) + k
          BY <2>2, <2>3, <3>1
        <4> QED BY <2>1, <2>8, <4>1, <4>2, <4>3, <4>4, Zenon
      <3>2. CASE q # q0
        BY <2>2, <2>4, <2>5, <3>2, Zenon
      <3> QED BY <3>1, <3>2
    <2>10. Fair(q, Len(Selected(Selected(t, OutcomesOf(q)), Successful)),
                   Len(Selected(Matching(events'[a], "query"), ItemsOf(q))))
      <3>1. CASE q # q0
        <4>1. Selected(Matching(events'[a], "query"), ItemsOf(q)) = Selected(Matching(e, "query"), ItemsOf(q))
          BY <2>1, <2>7, <3>1
        <4> QED BY <2>2, <2>4, <3>1, <4>1, Zenon
      <3>2. CASE q = q0 /\ ~v
        <4>1. events'[a] = e
          BY <2>1, <3>2
        <4> QED BY <2>2, <2>4, <3>2, <4>1, Zenon
      <3>3. CASE q = q0 /\ v
        <4>1. Fair(q, Len(Selected(Selected(p, OutcomesOf(q)), Successful)) + k,
                      Len(Selected(Matching(e, "query"), ItemsOf(q))) + k * Len(es))
          BY <2>1, <2>2, <3>3, FairMore
        <4> QED BY <2>4, <2>6, <3>3, <4>1, Zenon
      <3> QED BY <3>1, <3>2, <3>3
    <2> QED BY <1>1, <2>2, <2>9, <2>10, Zenon DEF Balanced, t
  <1> QED BY <1>8, <1>9 DEF DnsInv

LEMMA DnsSteps ==
    ASSUME DnsInv, server = "dns", Dns!DnsNext, server' = server
    PROVE  DnsInv'
  <1>1. ASSUME NEW c \in Conns, NEW chunk \in Chunks.dns, Dns!Question(c, chunk) \/ Dns!Unreadable(c, chunk)
        PROVE  DnsInv'
    BY <1>1, DnsArrives
  <1>2. ASSUME NEW chunk \in Chunks.dns, NEW items \in Answers[chunk.question],
               Dns!GotResolverResponse(chunk.question, items)
        PROVE  DnsInv'
    <2> DEFINE q == chunk.question
               es == [i \in DOMAIN items |-> Dns!Item(q, items[i])]
    <2>1. q \in Questions /\ items \in Seq(STRING)
      BY DnsAssumption DEF Questions
    <2>2. es \in Seq(ItemsOf(q)) /\ Len(es) = Len(items)
      <3>1. Len(items) \in Nat /\ DOMAIN items = 1 .. Len(items) /\ \A i \in 1 .. Len(items) : items[i] \in STRING
        BY <2>1
      <3>2. \A x \in STRING : Dns!Item(q, x) \in ItemsOf(q)
        BY <2>1 DEF Dns!Item, ItemsOf, Items
      <3>3. es \in [1 .. Len(items) -> ItemsOf(q)]
        BY <3>1, <3>2
      <3> HIDE DEF es, q
      <3> QED BY <3>1, <3>3, FunctionIsSequence
    <2>3. Len(es) \in Sizes(q)
      BY <2>2 DEF Sizes
    <2>4. Dns!Answered(q, TRUE) /\ events' = [a \in Addr |-> events[a] \o Dns!ForEach(a, q, es)]
      BY <1>2 DEF Dns!GotResolverResponse, Dns!Addresses, Addr
    <2> HIDE DEF es, q
    <2>5. DnsTyped
      BY DEF DnsInv
    <2>6. events' = [a \in Addr |-> events[a] \o Copies(Many(a, q), es)]
      BY <2>1, <2>4, <2>5, DnsWaiting
    <2> QED BY <2>1, <2>2, <2>3, <2>4, <2>6, DnsAnswers
  <1>3. ASSUME NEW chunk \in Chunks.dns, Dns!QueryFailed(chunk.question)
        PROVE  DnsInv'
    <2> DEFINE q == chunk.question
    <2>1. q \in Questions
      BY DEF Questions
    <2>2. Dns!Answered(q, FALSE) /\ events' = events
      BY <1>3 DEF Dns!QueryFailed
    <2> HIDE DEF q
    <2>3. PICK z \in Answers[q] : z \in Seq(STRING)
      BY <2>1, SizesAre DEF Sizes
    <2> DEFINE es == [i \in DOMAIN z |-> Dns!Item(q, z[i])]
    <2>4. es \in Seq(ItemsOf(q)) /\ Len(es) = Len(z)
      <3>1. Len(z) \in Nat /\ DOMAIN z = 1 .. Len(z) /\ \A i \in 1 .. Len(z) : z[i] \in STRING
        BY <2>3
      <3>2. \A x \in STRING : Dns!Item(q, x) \in ItemsOf(q)
        BY <2>1 DEF Dns!Item, ItemsOf, Items
      <3>3. es \in [1 .. Len(z) -> ItemsOf(q)]
        BY <3>1, <3>2
      <3> HIDE DEF es
      <3> QED BY <3>1, <3>3, FunctionIsSequence
    <2>5. Len(es) \in Sizes(q)
      BY <2>4 DEF Sizes
    <2> HIDE DEF es
    <2> QED BY <2>1, <2>2, <2>4, <2>5, DnsAnswers
  <1> QED BY <1>1, <1>2, <1>3 DEF Dns!DnsNext

\* What AnswersGoToAskers says of the questions q from a.
Shares(a, q, mine, found) ==
    /\ Dns!Cardinality(Dns!AskedBy(a, q)) = Len(mine) + Len(Dns!Waiting(a, q))
    /\ \E few, many \in Sizes(q) :
          Dns!Cardinality({i \in DOMAIN found : found[i].question = q}) \in
             few * Dns!Cardinality({i \in DOMAIN mine : mine[i].answered}) ..
             many * Dns!Cardinality({i \in DOMAIN mine : mine[i].answered})

\* The invariant says what DnsTypeOK and AnswersGoToAskers say.
LEMMA DnsSays ==
    ASSUME DnsInv, server = "dns"
    PROVE  Dns!DnsTypeOK /\ Dns!AnswersGoToAskers
  <1>0. /\ DnsTyped
        /\ \A a \in Addr : \A q \in Questions \ {"unreadable"} :
              Balanced(read, events[a], replies[a], pending, a, q)
    BY DEF DnsInv
  <1>1. Dns!Addresses = Addr /\ \A S : Dns!Cardinality(S) = Cardinality(S)
    BY DEF Dns!Addresses, Addr, Dns!Cardinality, Cardinality
  <1>2. Dns!DnsTypeOK
    <2>1. \A i \in DOMAIN pending : pending[i] \in Waiters
      BY <1>0 DEF DnsTyped
    <2>2. \A a \in Addr : \A i \in DOMAIN replies[a] : replies[a][i] \in Outcomes
      BY <1>0 DEF DnsTyped
    <2>3. \A i \in DOMAIN pending : pending[i].address \in Addr
      BY <2>1 DEF Waiters
    <2>4. \A a \in Addr : \A i \in DOMAIN replies[a] : replies[a][i].answered \in BOOLEAN
      BY <2>2 DEF Outcomes
    <2>5. link \in [Conns -> {"open"}]
      BY <1>0 DEF DnsTyped
    <2> QED BY <1>1, <2>3, <2>4, <2>5 DEF Dns!DnsTypeOK
  <1>3. ASSUME NEW a \in Addr, NEW chunk \in Chunks.dns, NEW q, q = chunk.question, q # "unreadable",
               NEW mine, mine = Dns!At(replies[a], {i \in DOMAIN replies[a] : replies[a][i].question = q}),
               NEW found, found = Dns!Matching(events[a], "query")
        PROVE  Shares(a, q, mine, found)
    <2>1. q \in Questions \ {"unreadable"}
      BY <1>3 DEF Questions
    <2>2. replies[a] \in Seq(Outcomes) /\ Matching(events[a], "query") \in Seq(Items)
      BY <1>0 DEF DnsTyped
    <2>3. mine = Selected(replies[a], OutcomesOf(q))
      <3>1. \A i \in DOMAIN replies[a] : replies[a][i] \in Outcomes
        BY <2>2
      <3>2. {i \in DOMAIN replies[a] : replies[a][i].question = q} =
            {i \in DOMAIN replies[a] : replies[a][i] \in OutcomesOf(q)}
        BY <3>1 DEF OutcomesOf
      <3> QED BY <1>3, <3>2 DEF Selected, Dns!At, At
    <2>4. found = Matching(events[a], "query")
      BY <1>3 DEF Dns!Matching, Matching, Dns!Positions, Positions, Dns!At, At
    <2>5. Cardinality({i \in DOMAIN mine : mine[i].answered}) = Len(Selected(mine, Successful))
      <3>1. mine \in Seq(Outcomes)
        BY <2>2, <2>3, SelectedType
      <3>2. \A i \in DOMAIN mine : mine[i] \in Outcomes
        BY <3>1
      <3>3. {i \in DOMAIN mine : mine[i].answered} = {i \in DOMAIN mine : mine[i] \in Successful}
        BY <3>2 DEF Successful
      <3> QED BY <3>1, <3>3, CountSelected
    <2>6. Cardinality({i \in DOMAIN found : found[i].question = q}) = Len(Selected(found, ItemsOf(q)))
      <3>1. found \in Seq(Items)
        BY <2>2, <2>4
      <3>2. \A i \in DOMAIN found : found[i] \in Items
        BY <3>1
      <3>3. {i \in DOMAIN found : found[i].question = q} = {i \in DOMAIN found : found[i] \in ItemsOf(q)}
        BY <3>2 DEF ItemsOf
      <3> QED BY <3>1, <3>3, CountSelected
    <2>7. Dns!AskedBy(a, q) = QuestionsFrom(read, a, q)
      BY DEF Dns!AskedBy, QuestionsFrom
    <2>8. Dns!Waiting(a, q) = Selected(pending, WaitersFor(a, q))
      BY <1>0, <2>1, DnsWaiting DEF Waits
    <2> DEFINE n == Len(Selected(mine, Successful))
               m == Len(Selected(found, ItemsOf(q)))
    <2>9. /\ Cardinality(QuestionsFrom(read, a, q)) = Len(mine) + Len(Selected(pending, WaitersFor(a, q)))
          /\ Fair(q, n, m)
      BY <1>0, <2>1, <2>3, <2>4 DEF Balanced
    <2>10. /\ Dns!Cardinality({i \in DOMAIN mine : mine[i].answered}) = n
           /\ Dns!Cardinality({i \in DOMAIN found : found[i].question = q}) = m
      BY <1>1, <2>5, <2>6
    <2> HIDE DEF n, m
    <2>11. \E few, many \in Sizes(q) : m \in few * n .. many * n
      <3>1. PICK few \in Sizes(q), many \in Sizes(q) : few * n <= m /\ m <= many * n
        BY <2>9 DEF Fair
      <3>2. n \in Nat /\ m \in Nat /\ few \in Nat /\ many \in Nat
        BY <2>1, <2>9, SizesAre DEF Fair
      <3>3. few * n \in Nat /\ many * n \in Nat
        BY <3>2
      <3>4. m \in few * n .. many * n
        BY <3>1, <3>2, <3>3
      <3> QED BY <3>4
    <2>12. Dns!Cardinality(Dns!AskedBy(a, q)) = Len(mine) + Len(Dns!Waiting(a, q))
      BY <1>1, <2>7, <2>8, <2>9
    <2> QED BY <2>10, <2>11, <2>12, Zenon DEF Shares
  <1>4. Dns!AnswersGoToAskers
    <2> DEFINE Mine(a, q) == Dns!At(replies[a], {i \in DOMAIN replies[a] : replies[a][i].question = q})
               Found(a) == Dns!Matching(events[a], "query")
    <2>1. \A a, q : Mine(a, q) = Dns!At(replies[a], {i \in DOMAIN replies[a] : replies[a][i].question = q})
      OBVIOUS
    <2>2. \A a : Found(a) = Dns!Matching(events[a], "query")
      OBVIOUS
    <2> HIDE DEF Mine, Found
    <2>3. ASSUME NEW a \in Addr, NEW chunk \in Chunks.dns, chunk.question # "unreadable"
          PROVE  Shares(a, chunk.question, Mine(a, chunk.question), Found(a))
      <3>1. Mine(a, chunk.question) =
              Dns!At(replies[a], {i \in DOMAIN replies[a] : replies[a][i].question = chunk.question})
        BY <2>1
      <3> QED BY <1>3, <2>2, <2>3, <3>1
    <2> QED BY <1>1, <2>3, Zenon DEF Dns!AnswersGoToAskers, Shares, Sizes, Mine, Found
  <1> QED BY <1>2, <1>4

-------------------------------------------------------------------------------
(* All twelve *)

\* The inductive invariant: whichever honeypot runs, its own holds.
Inv ==
    /\ MemcacheInv /\ PjlInv /\ OracleInv /\ ProxyInv
    /\ IppInv /\ DhcpInv /\ SnmpInv /\ NtpInv
    /\ SipInv /\ DnsInv /\ SmbInv /\ SniffInv

\* That of a honeypot that does not run holds whatever happens.
LEMMA OthersHold ==
    /\ server # "memcache" => MemcacheInv
    /\ server # "pjl" => PjlInv
    /\ server # "oracle" => OracleInv
    /\ server # "httpproxy" => ProxyInv
    /\ server # "ipp" => IppInv
    /\ server # "dhcp" => DhcpInv
    /\ server # "snmp" => SnmpInv
    /\ server # "ntp" => NtpInv
    /\ server # "sip" => SipInv
    /\ server # "dns" => DnsInv
    /\ server # "smb" => SmbInv
    /\ server # "sniffer" => SniffInv
  BY Zenon DEF MemcacheInv, PjlInv, OracleInv, ProxyInv, IppInv, DhcpInv, SnmpInv, NtpInv, SipInv,
         DnsInv, SmbInv, SniffInv

LEMMA Begins == Init => Inv
  <1> SUFFICES ASSUME Init PROVE Inv
    OBVIOUS
  <1>1. /\ server = "memcache" => MemcacheInv
        /\ server = "pjl" => PjlInv
        /\ server = "oracle" => OracleInv
        /\ server = "httpproxy" => ProxyInv
        /\ server = "ipp" => IppInv
        /\ server = "dhcp" => DhcpInv
        /\ server = "snmp" => SnmpInv
        /\ server = "ntp" => NtpInv
        /\ server = "sip" => SipInv
        /\ server = "dns" => DnsInv
        /\ server = "smb" => SmbInv
        /\ server = "sniffer" => SniffInv
    BY MemcacheStarts, PjlStarts, OracleStarts, ProxyStarts, IppStarts, DhcpStarts, SnmpStarts,
       NtpStarts, SipStarts, DnsStarts, SmbStarts, SniffStarts, Zenon
  <1> QED BY <1>1, OthersHold, Zenon DEF Inv

\* A step is one of the honeypot that runs.
LEMMA Moves ==
    ASSUME Inv, Next
    PROVE  Inv'
  <1>1. server' = server
    BY DEF Next
  <1>2. /\ server = "memcache" => MemcacheInv'
        /\ server = "pjl" => PjlInv'
        /\ server = "oracle" => OracleInv'
        /\ server = "httpproxy" => ProxyInv'
        /\ server = "ipp" => IppInv'
        /\ server = "dhcp" => DhcpInv'
    <2>1. ASSUME server = "memcache" PROVE MemcacheInv'
      <3>1. Memcache!MemcacheNext
        BY <2>1 DEF Next
      <3> QED BY <1>1, <2>1, <3>1, MemcacheSteps DEF Inv
    <2>2. ASSUME server = "pjl" PROVE PjlInv'
      <3>1. Pjl!PjlNext
        BY <2>2 DEF Next
      <3> QED BY <1>1, <2>2, <3>1, PjlSteps DEF Inv
    <2>3. ASSUME server = "oracle" PROVE OracleInv'
      <3>1. Oracle!OracleNext
        BY <2>3 DEF Next
      <3> QED BY <1>1, <2>3, <3>1, OracleSteps DEF Inv
    <2>4. ASSUME server = "httpproxy" PROVE ProxyInv'
      <3>1. HttpProxy!HttpProxyNext
        BY <2>4 DEF Next
      <3> QED BY <1>1, <2>4, <3>1, ProxySteps DEF Inv
    <2>5. ASSUME server = "ipp" PROVE IppInv'
      <3>1. Ipp!Next
        BY <2>5 DEF Next
      <3> QED BY <1>1, <2>5, <3>1, IppSteps DEF Inv
    <2>6. ASSUME server = "dhcp" PROVE DhcpInv'
      <3>1. Dhcp!DhcpNext
        BY <2>6 DEF Next
      <3> QED BY <1>1, <2>6, <3>1, DhcpSteps DEF Inv
    <2> QED BY <2>1, <2>2, <2>3, <2>4, <2>5, <2>6
  <1>3. /\ server = "snmp" => SnmpInv'
        /\ server = "ntp" => NtpInv'
        /\ server = "sip" => SipInv'
        /\ server = "dns" => DnsInv'
        /\ server = "smb" => SmbInv'
        /\ server = "sniffer" => SniffInv'
    <2>1. ASSUME server = "snmp" PROVE SnmpInv'
      <3>1. Snmp!SnmpNext
        BY <2>1 DEF Next
      <3> QED BY <1>1, <2>1, <3>1, SnmpSteps DEF Inv
    <2>2. ASSUME server = "ntp" PROVE NtpInv'
      <3>1. Ntp!NtpNext
        BY <2>2 DEF Next
      <3> QED BY <1>1, <2>2, <3>1, NtpSteps DEF Inv
    <2>3. ASSUME server = "sip" PROVE SipInv'
      <3>1. Sip!SipNext
        BY <2>3 DEF Next
      <3> QED BY <1>1, <2>3, <3>1, SipSteps DEF Inv
    <2>4. ASSUME server = "dns" PROVE DnsInv'
      <3>1. Dns!DnsNext
        BY <2>4 DEF Next
      <3> QED BY <1>1, <2>4, <3>1, DnsSteps DEF Inv
    <2>5. ASSUME server = "smb" PROVE SmbInv'
      <3>1. Smb!SmbNext
        BY <2>5 DEF Next
      <3> QED BY <1>1, <2>5, <3>1, SmbSteps DEF Inv
    <2>6. ASSUME server = "sniffer" PROVE SniffInv'
      <3>1. Sniff!Next
        BY <2>6 DEF Next
      <3> QED BY <1>1, <2>6, <3>1, SniffSteps DEF Inv
    <2> QED BY <2>1, <2>2, <2>3, <2>4, <2>5, <2>6
  <1>4. /\ server' # "memcache" => MemcacheInv'
        /\ server' # "pjl" => PjlInv'
        /\ server' # "oracle" => OracleInv'
        /\ server' # "httpproxy" => ProxyInv'
        /\ server' # "ipp" => IppInv'
        /\ server' # "dhcp" => DhcpInv'
        /\ server' # "snmp" => SnmpInv'
        /\ server' # "ntp" => NtpInv'
        /\ server' # "sip" => SipInv'
        /\ server' # "dns" => DnsInv'
        /\ server' # "smb" => SmbInv'
        /\ server' # "sniffer" => SniffInv'
    BY Zenon DEF MemcacheInv, PjlInv, OracleInv, ProxyInv, IppInv, DhcpInv, SnmpInv, NtpInv, SipInv,
           DnsInv, SmbInv, SniffInv
  <1> QED BY <1>1, <1>2, <1>3, <1>4, Zenon DEF Inv

\* Nothing happens.
LEMMA Stays ==
    ASSUME Inv, UNCHANGED everything
    PROVE  Inv'
  <1>1. /\ server' = server /\ link' = link /\ read' = read /\ events' = events
        /\ replies' = replies /\ pending' = pending
    BY DEF everything
  <1>2. Rows => Rows'
    BY <1>1 DEF Rows, IsRow
  <1>3. /\ MemcacheInv' /\ PjlInv' /\ OracleInv' /\ ProxyInv' /\ IppInv' /\ DhcpInv'
    BY <1>1, <1>2 DEF Inv, MemcacheInv, PjlInv, OracleInv, ProxyInv, IppInv, DhcpInv
  <1>4. /\ SnmpInv' /\ NtpInv' /\ SmbInv'
    BY <1>1, <1>2 DEF Inv, SnmpInv, NtpInv, SmbInv
  <1>5. SniffInv'
    BY <1>1, <1>2 DEF Inv, SniffInv, IsRow
  <1>6. SipInv'
    <2>1. AllSent' = AllSent /\ AllTold' = AllTold
      BY <1>1 DEF AllSent, AllTold
    <2>2. (Accounted => Accounted') /\ (Even => Even')
      BY <1>1, <2>1 DEF Accounted, Even
    <2> QED BY <1>1, <1>2, <2>1, <2>2 DEF Inv, SipInv
  <1>7. DnsInv'
    BY <1>1 DEF Inv, DnsInv, DnsTyped
  <1> QED BY <1>3, <1>4, <1>5, <1>6, <1>7 DEF Inv

LEMMA Keeps == Inv /\ [Next]_everything => Inv'
  <1>1. ASSUME Inv, Next PROVE Inv'
    BY <1>1, Moves
  <1>2. ASSUME Inv, UNCHANGED everything PROVE Inv'
    BY <1>2, Stays
  <1> QED BY <1>1, <1>2

\* What the invariants of the twelve say.
LEMMA Safe ==
    Inv => TypeOK /\ RequestsAreLogged /\ OptionsAreRead /\ AnswersGoToAskers /\ OneAnswerPerScan
  <1> SUFFICES ASSUME Inv
               PROVE  /\ TypeOK /\ RequestsAreLogged /\ OptionsAreRead
                      /\ AnswersGoToAskers /\ OneAnswerPerScan
    OBVIOUS
  <1>1. server = "memcache" => Memcache!TypeOK /\ Memcache!CommandsAreLogged
    BY MemcacheSays DEF Inv
  <1>2. server = "pjl" => Pjl!TypeOK /\ Pjl!TextsAreLogged
    BY PjlSays DEF Inv
  <1>3. server = "oracle" => Oracle!TypeOK /\ Oracle!FieldsAreLogged
    BY OracleSays DEF Inv
  <1>4. server = "httpproxy" => HttpProxy!HttpProxyTypeOK /\ HttpProxy!HostsAreLogged
    BY ProxySays DEF Inv
  <1>5. server = "ipp" => Ipp!TypeOK
    BY IppSays DEF Inv
  <1>6. server = "dhcp" => Dhcp!DhcpTypeOK
    BY DhcpTypes DEF Inv
  <1>7. server = "snmp" => Snmp!SnmpTypeOK /\ Snmp!CommunitiesAreLogged
    BY SnmpSays DEF Inv
  <1>8. server = "ntp" => Ntp!NtpTypeOK /\ Ntp!VersionsAreLogged
    BY NtpSays DEF Inv
  <1>9. server = "sip" => Sip!SipTypeOK /\ Sip!MessagesAreLogged
    BY SipSays DEF Inv
  <1>10. server = "dns" => Dns!DnsTypeOK /\ Dns!AnswersGoToAskers
    BY DnsSays DEF Inv
  <1>11. server = "smb" => Smb!SmbTypeOK /\ Smb!HashesAreLogged
    BY SmbSays DEF Inv
  <1>12. server = "sniffer" => Sniff!TypeOK /\ Sniff!OneAnswerPerScan
    BY SniffSays DEF Inv
  <1>13. TypeOK
    BY <1>1, <1>2, <1>3, <1>4, <1>5, <1>6, <1>7, <1>8, <1>9, <1>10, <1>11, <1>12, Zenon DEF TypeOK
  <1>14. RequestsAreLogged
    BY <1>1, <1>2, <1>3, <1>4, <1>7, <1>8, <1>9, <1>11, Zenon DEF RequestsAreLogged
  <1>15. OptionsAreRead
    BY DhcpSays DEF Inv, OptionsAreRead
  <1> QED BY <1>10, <1>12, <1>13, <1>14, <1>15, Zenon DEF AnswersGoToAskers, OneAnswerPerScan

\* The invariants of the twelve query servers.
THEOREM Invariant == Spec => []Inv
  <1> QED BY Begins, Keeps, PTL DEF Spec

\* Of all twelve the variables are well-typed, and log and answers agree in number with what the
\* peers have sent (the TypeOK of each module).
THEOREM TypesAreKept == Spec => []TypeOK
  <1>1. Inv => TypeOK
    BY Safe
  <1> QED BY <1>1, Invariant, PTL

\* memcache, pjl, oracle, http proxy, snmp, ntp, sip and smb: which requests are in the log and
\* under whose address, and which are answered and not logged or logged and not answered, for
\* any requests and any number of addresses (memcache_server.py:131-150, pjl_server.py:55-74, oracle_server.py:48-92,
\* http_proxy_server.py:49-82, snmp_server.py:20-52, ntp_server.py:33-74, sip_server.py:20-45,
\* smb_server.py:50-80).
THEOREM RequestsAlwaysLogged == Spec => []RequestsAreLogged
  <1>1. Inv => RequestsAreLogged
    BY Safe
  <1> QED BY <1>1, Invariant, PTL

\* dhcp: whatever options are sent, the loop over bytes logs the last value of each up to the
\* first that is empty or to the padding behind the end mark (dhcp_server.py:55-74).
THEOREM OptionsAlwaysRead == Spec => []OptionsAreRead
  <1>1. Inv => OptionsAreRead
    BY Safe
  <1> QED BY <1>1, Invariant, PTL

\* dns: in whatever order answers come, fail to, or are shared, every question of an address
\* waits or was answered once, and the items logged under it are those of its own answers
\* (dns_server.py:36-64).
THEOREM AnswersReachAskers == Spec => []AnswersGoToAskers
  <1>1. Inv => AnswersGoToAskers
    BY Safe
  <1> QED BY <1>1, Invariant, PTL

\* sniffer: a scan is logged once and answered at most once, though the answers come back to it
\* (sniffer.py:98-190).
THEOREM ScansAnsweredOnce == Spec => []OneAnswerPerScan
  <1>1. Inv => OneAnswerPerScan
    BY Safe
  <1> QED BY <1>1, Invariant, PTL
===============================================================================
