------------------------------- MODULE LogsProofs -------------------------------
(***************************************************************************)
(* Induction over the natural numbers without a predicate as a parameter,  *)
(* and what it shows of the sequences in Logs.                             *)
(***************************************************************************)
EXTENDS Logs, FiniteSetTheorems, SequenceTheorems, WellFoundedInduction, TLAPS

-------------------------------------------------------------------------------
(* Induction over the natural numbers, with a set for the induction hypothesis *)

LEMMA LeastElement ==
    ASSUME NEW T \in SUBSET Nat, T # {}
    PROVE  \E x \in T : \A y \in T : x <= y
  <1> DEFINE R == OpToRel(<, Nat)
  <1>1. IsWellFoundedOn(R, Nat)
    BY NatLessThanWellFounded
  <1>2. \A x, y \in Nat : x < y => <<x, y>> \in R
    BY DEF OpToRel
  <1> HIDE DEF R
  <1>3. PICK x \in T : \A y \in T : ~(<<y, x>> \in R)
    BY <1>1, WFMin
  <1>4. \A y \in T : x \in Nat /\ y \in Nat /\ ~(y < x)
    BY <1>2, <1>3
  <1> QED BY <1>4

\* What holds at zero and is handed on up to n holds from zero to n.
LEMMA SetInduction ==
    ASSUME NEW n \in Nat, NEW S, 0 \in S, \A i \in 1 .. n : i - 1 \in S => i \in S
    PROVE  \A i \in 0 .. n : i \in S
  <1> DEFINE T == {i \in 0 .. n : i \notin S}
  <1> SUFFICES ASSUME T # {} PROVE FALSE
    OBVIOUS
  <1>1. T \in SUBSET Nat
    OBVIOUS
  <1>2. PICK x \in T : \A y \in T : x <= y
    BY <1>1, LeastElement
  <1>3. x # 0 /\ x \in 1 .. n /\ x \notin S
    BY <1>2
  <1>4. x - 1 \in 0 .. n /\ ~(x <= x - 1)
    BY <1>3
  <1>5. x - 1 \in S
    BY <1>2, <1>4
  <1> QED BY <1>3, <1>5

-------------------------------------------------------------------------------
(* At *)

\* One round of the recursion of At.
Round(s, I, t, n) == IF n \in I THEN Append(t, s[n]) ELSE t

\* The recursion as far as n.
Runs(g, s, I, n) ==
    g[0] = <<>> /\ \A i \in 1 .. n : g[i] = Round(s, I, g[i - 1], i)

\* The recursion ends: there are all the sequences in between.
LEMMA AtSteps ==
    ASSUME NEW s, NEW I, Len(s) \in Nat
    PROVE  \E g : Runs(g, s, I, Len(s)) /\ At(s, I) = g[Len(s)]
  <1> DEFINE N == Len(s)
             Upto(g, k) == g = [i \in 0 .. k |-> IF i = 0 THEN <<>> ELSE Round(s, I, g[i - 1], i)]
             S == {k \in 0 .. N : \E g : Upto(g, k)}
  <1>1. 0 \in S
    <2> DEFINE g == [i \in 0 .. 0 |-> <<>>]
    <2>1. Upto(g, 0)
      OBVIOUS
    <2> HIDE DEF g
    <2> HIDE DEF Upto
    <2> QED BY <2>1
  <1>2. ASSUME NEW k \in 1 .. N, k - 1 \in S PROVE k \in S
    <2>1. PICK g : Upto(g, k - 1)
      BY <1>2
    <2> DEFINE h == [i \in 0 .. k |-> IF i = k THEN Round(s, I, g[k - 1], k) ELSE g[i]]
    <2>2. ASSUME NEW i \in 0 .. k
          PROVE  h[i] = IF i = 0 THEN <<>> ELSE Round(s, I, h[i - 1], i)
      <3>1. \A j \in 0 .. k - 1 : g[j] = IF j = 0 THEN <<>> ELSE Round(s, I, g[j - 1], j)
        BY <2>1
      <3>2. CASE i = k
        <4>1. h[i] = Round(s, I, g[k - 1], k) /\ i # 0
          BY <3>2
        <4>2. h[i - 1] = g[k - 1]
          BY <3>2
        <4> QED BY <3>2, <4>1, <4>2
      <3>3. CASE i \in 0 .. k - 1
        <4>1. h[i] = g[i]
          BY <3>3
        <4>2. i # 0 => h[i - 1] = g[i - 1]
          BY <3>3
        <4> QED BY <3>1, <3>3, <4>1, <4>2
      <3> QED BY <3>2, <3>3
    <2>3. Upto(h, k)
      BY <2>2
    <2> HIDE DEF h
    <2> HIDE DEF Upto
    <2>4. k \in 0 .. N
      OBVIOUS
    <2> QED BY <2>3, <2>4
  <1> DEFINE upto[n \in 0 .. N] == IF n = 0 THEN <<>> ELSE Round(s, I, upto[n - 1], n)
  <1>3. \E g : Upto(g, N)
    <2>0. N \in Nat
      OBVIOUS
    <2> HIDE DEF S
    <2> HIDE DEF N
    <2>1. \A i \in 0 .. N : i \in S
      BY <1>1, <1>2, <2>0, SetInduction
    <2>2. N \in S
      BY <2>0, <2>1
    <2> QED BY <2>2 DEF S
  <1>4. Upto(upto, N)
    BY <1>3
  <1>5. At(s, I) = upto[N]
    BY DEF At, Round
  <1> HIDE DEF upto
  <1>6. Runs(upto, s, I, N)
    BY <1>4 DEF Runs
  <1> QED BY <1>5, <1>6

\* Two runs of the recursion agree as long as the sequences and positions do.
LEMMA AtAgrees ==
    ASSUME NEW n \in Nat, NEW s, NEW t, NEW I, NEW J, NEW g, NEW h,
           Runs(g, s, I, n), Runs(h, t, J, n),
           \A i \in 1 .. n : (i \in I <=> i \in J) /\ (i \in I => s[i] = t[i])
    PROVE  g[n] = h[n]
  <1> DEFINE S == {i \in 0 .. n : g[i] = h[i]}
  <1>1. 0 \in S
    BY DEF Runs
  <1>2. ASSUME NEW i \in 1 .. n, i - 1 \in S PROVE i \in S
    BY <1>2 DEF Round, Runs
  <1> HIDE DEF S
  <1>3. \A i \in 0 .. n : i \in S
    BY <1>1, <1>2, SetInduction
  <1> QED BY <1>3 DEF S

LEMMA AtSame ==
    ASSUME NEW S, NEW s \in Seq(S), NEW I, NEW J, \A i \in 1 .. Len(s) : i \in I <=> i \in J
    PROVE  At(s, I) = At(s, J)
  <1>1. PICK g : Runs(g, s, I, Len(s)) /\ At(s, I) = g[Len(s)]
    BY AtSteps
  <1>2. PICK h : Runs(h, s, J, Len(s)) /\ At(s, J) = h[Len(s)]
    BY AtSteps
  <1>3. Len(s) \in Nat
    OBVIOUS
  <1> QED BY <1>1, <1>2, <1>3, AtAgrees

LEMMA AtEmpty ==
    ASSUME NEW I PROVE At(<<>>, I) = <<>>
  <1>1. Len(<<>>) = 0
    OBVIOUS
  <1> QED BY <1>1, AtSteps DEF Runs

\* One more element, at a chosen position or not.
LEMMA AtAppend ==
    ASSUME NEW S, NEW s \in Seq(S), NEW e \in S, NEW I, NEW J,
           \A i \in 1 .. Len(s) : i \in I <=> i \in J
    PROVE  At(Append(s, e), J) =
             IF Len(s) + 1 \in J THEN Append(At(s, I), e) ELSE At(s, I)
  <1> DEFINE t == Append(s, e)
             n == Len(s)
  <1>1. /\ n \in Nat /\ Len(t) = n + 1 /\ t[n + 1] = e
        /\ \A i \in 1 .. n : t[i] = s[i]
    BY AppendProperties
  <1> HIDE DEF t
  <1>2. PICK g : Runs(g, s, I, n) /\ At(s, I) = g[n]
    BY <1>1, AtSteps
  <1>3. PICK h : Runs(h, t, J, n + 1) /\ At(t, J) = h[n + 1]
    BY <1>1, AtSteps
  <1> HIDE DEF n
  <1>4. Runs(h, t, J, n)
    BY <1>1, <1>3 DEF Runs
  <1>5. g[n] = h[n]
    <2>1. \A i \in 1 .. n : (i \in I <=> i \in J) /\ (i \in I => s[i] = t[i])
      BY <1>1 DEF n
    <2> QED BY <1>1, <1>2, <1>3, <1>4, <2>1, AtAgrees
  <1>6. h[n + 1] = Round(t, J, h[n], n + 1)
    <2>1. n + 1 \in 1 .. n + 1 /\ (n + 1) - 1 = n
      BY <1>1
    <2> QED BY <1>3, <2>1 DEF Runs
  <1> QED BY <1>1, <1>2, <1>3, <1>5, <1>6 DEF t, n, Round

LEMMA AtType ==
    ASSUME NEW S, NEW s \in Seq(S), NEW I
    PROVE  At(s, I) \in Seq(S)
  <1> DEFINE n == Len(s)
  <1>1. n \in Nat /\ \A i \in 1 .. n : s[i] \in S
    OBVIOUS
  <1>2. PICK g : Runs(g, s, I, n) /\ At(s, I) = g[n]
    BY <1>1, AtSteps
  <1> DEFINE T == {i \in 0 .. n : g[i] \in Seq(S)}
  <1>3. 0 \in T
    <2>1. <<>> \in Seq(S)
      OBVIOUS
    <2>2. g[0] = <<>>
      BY <1>2 DEF Runs
    <2>3. g[0] \in Seq(S)
      BY <2>1, <2>2, Zenon
    <2> QED BY <1>1, <2>3
  <1>4. ASSUME NEW i \in 1 .. n, i - 1 \in T PROVE i \in T
    <2>1. g[i - 1] \in Seq(S) /\ s[i] \in S /\ i \in 0 .. n
      BY <1>1, <1>4
    <2>2. Append(g[i - 1], s[i]) \in Seq(S)
      BY <2>1, AppendProperties
    <2> QED BY <1>2, <2>1, <2>2 DEF Round, Runs
  <1> HIDE DEF T
  <1> HIDE DEF n
  <1>5. \A i \in 0 .. n : i \in T
    BY <1>1, <1>3, <1>4, SetInduction
  <1> QED BY <1>1, <1>2, <1>5 DEF T

\* As many elements as positions.
LEMMA AtLength ==
    ASSUME NEW S, NEW s \in Seq(S), NEW I
    PROVE  Len(At(s, I)) = Cardinality(I \intersect (1 .. Len(s)))
  <1> DEFINE n == Len(s)
             P(i) == I \intersect (1 .. i)
  <1>1. n \in Nat /\ \A i \in 1 .. n : s[i] \in S
    OBVIOUS
  <1>2. PICK g : Runs(g, s, I, n) /\ At(s, I) = g[n]
    BY <1>1, AtSteps
  <1> DEFINE T == {i \in 0 .. n : g[i] \in Seq(S) /\ Len(g[i]) = Cardinality(P(i))}
  <1>3. 0 \in T
    <2>1. <<>> \in Seq(S) /\ Len(<<>>) = 0
      OBVIOUS
    <2>2. g[0] = <<>>
      BY <1>2 DEF Runs
    <2>3. g[0] \in Seq(S) /\ Len(g[0]) = 0
      BY <2>1, <2>2, Zenon
    <2>4. P(0) = {}
      OBVIOUS
    <2> QED BY <1>1, <2>3, <2>4, FS_EmptySet
  <1>4. ASSUME NEW i \in 1 .. n, i - 1 \in T PROVE i \in T
    <2>1. g[i - 1] \in Seq(S) /\ s[i] \in S /\ i \in 0 .. n /\ i - 1 \in Nat
          /\ Len(g[i - 1]) = Cardinality(P(i - 1))
      BY <1>1, <1>4
    <2>2. IsFiniteSet(P(i - 1)) /\ i \notin P(i - 1)
      <3>1. IsFiniteSet(1 .. i - 1)
        BY <2>1, FS_Interval
      <3> QED BY <3>1, FS_Subset
    <2>3. CASE i \in I
      <3>1. P(i) = P(i - 1) \union {i}
        BY <2>3
      <3>2. g[i] = Append(g[i - 1], s[i])
        BY <1>2, <2>3 DEF Runs, Round
      <3>3. g[i] \in Seq(S) /\ Len(g[i]) = Len(g[i - 1]) + 1
        BY <2>1, <3>2, AppendProperties
      <3>4. Cardinality(P(i)) = Cardinality(P(i - 1)) + 1
        BY <2>2, <3>1, FS_AddElement
      <3> QED BY <2>1, <3>3, <3>4
    <2>4. CASE i \notin I
      <3>1. P(i) = P(i - 1)
        BY <2>4
      <3>2. g[i] = g[i - 1]
        BY <1>2, <2>4 DEF Runs, Round
      <3> QED BY <2>1, <3>1, <3>2
    <2> QED BY <2>3, <2>4
  <1> HIDE DEF T
  <1> HIDE DEF n
  <1>5. \A i \in 0 .. n : i \in T
    BY <1>1, <1>3, <1>4, SetInduction
  <1>6. Len(g[n]) = Cardinality(P(n))
    BY <1>1, <1>5 DEF T
  <1> QED BY <1>2, <1>6 DEF n

-------------------------------------------------------------------------------
(* Induction over a sequence, with a set for the induction hypothesis *)

LEMMA GrowingSequence ==
    ASSUME NEW S, NEW P, <<>> \in P,
           \A t \in Seq(S), e \in S : t \in P => Append(t, e) \in P,
           NEW s \in Seq(S)
    PROVE  s \in P
  <1> DEFINE n == Len(s)
             T == {i \in 0 .. n : SubSeq(s, 1, i) \in P}
  <1>1. n \in Nat /\ \A i \in 1 .. n : s[i] \in S
    OBVIOUS
  <1>2. \A i \in 0 .. n : SubSeq(s, 1, i) \in Seq(S)
    <2> TAKE i \in 0 .. n
    <2>1. \A j \in 1 .. i : s[j] \in S
      BY <1>1
    <2> QED BY <1>1, <2>1, SubSeqProperties
  <1>3. 0 \in T
    <2>1. SubSeq(s, 1, 0) = <<>>
      BY SubSeqEmpty
    <2>2. SubSeq(s, 1, 0) \in P
      BY <2>1, Zenon
    <2> QED BY <1>1, <2>2
  <1>4. ASSUME NEW i \in 1 .. n, i - 1 \in T PROVE i \in T
    <2>1. /\ i \in 0 .. n /\ i - 1 \in 0 .. n /\ i \in 1 .. Len(s) /\ i \in i .. Len(s)
          /\ s[i] \in S /\ 1 \in 1 .. Len(s) /\ i \in 1 .. Len(s)
      BY <1>1
    <2>2. SubSeq(s, 1, i) = SubSeq(s, 1, i - 1) \o <<s[i]>>
      BY <2>1, SubSeqRecursiveSecond
    <2>3. SubSeq(s, 1, i) = Append(SubSeq(s, 1, i - 1), s[i])
      BY <1>2, <2>1, <2>2, AppendIsConcat
    <2>4. SubSeq(s, 1, i - 1) \in P /\ SubSeq(s, 1, i - 1) \in Seq(S)
      BY <1>2, <1>4, <2>1
    <2>5. SubSeq(s, 1, i) \in P
      BY <2>1, <2>3, <2>4
    <2> QED BY <2>1, <2>5
  <1> HIDE DEF T
  <1>5. \A i \in 0 .. n : i \in T
    BY <1>1, <1>3, <1>4, SetInduction
  <1>6. SubSeq(s, 1, n) \in P
    BY <1>1, <1>5 DEF T
  <1>7. SubSeq(s, 1, n) = s
    BY SubSeqFull
  <1> QED BY <1>6, <1>7

\* Appending and concatenating.
LEMMA ConcatAppend ==
    ASSUME NEW S, NEW s \in Seq(S), NEW t \in Seq(S), NEW e \in S
    PROVE  s \o Append(t, e) = Append(s \o t, e)
  <1>1. /\ s \o t \in Seq(S) /\ <<e>> \in Seq(S)
        /\ Append(t, e) = t \o <<e>>
    BY ConcatProperties, AppendIsConcat
  <1>2. Append(s \o t, e) = (s \o t) \o <<e>>
    BY <1>1, AppendIsConcat
  <1> QED BY <1>1, <1>2, ConcatAssociative

\* Functions on 1 .. n are sequences.
LEMMA FunctionIsSequence ==
    ASSUME NEW S, NEW n \in Nat, NEW f \in [1 .. n -> S]
    PROVE  f \in Seq(S) /\ Len(f) = n
  OBVIOUS

\* A function on 1 .. n + 1 is that on 1 .. n and one more element.
LEMMA OneMore ==
    ASSUME NEW n \in Nat, NEW f, NEW g,
           f = [i \in 1 .. n + 1 |-> f[i]], g = [i \in 1 .. n |-> f[i]]
    PROVE  f = Append(g, f[n + 1])
  <1> DEFINE S == {f[i] : i \in 1 .. n + 1}
  <1>1. f \in [1 .. n + 1 -> S] /\ g \in [1 .. n -> S] /\ f[n + 1] \in S
    OBVIOUS
  <1> HIDE DEF S
  <1>0. n + 1 \in Nat
    OBVIOUS
  <1>2. f \in Seq(S) /\ g \in Seq(S) /\ Len(f) = n + 1 /\ Len(g) = n
    BY <1>0, <1>1, FunctionIsSequence
  <1>3. /\ Append(g, f[n + 1]) \in Seq(S) /\ Len(Append(g, f[n + 1])) = n + 1
        /\ \A i \in 1 .. n : Append(g, f[n + 1])[i] = g[i]
        /\ Append(g, f[n + 1])[n + 1] = f[n + 1]
    BY <1>1, <1>2, AppendProperties
  <1>4. \A i \in 1 .. n : g[i] = f[i]
    OBVIOUS
  <1>5. \A i \in 1 .. Len(f) : f[i] = Append(g, f[n + 1])[i]
    BY <1>2, <1>3, <1>4
  <1> QED BY <1>2, <1>3, <1>5, SeqEqual

-------------------------------------------------------------------------------
(* Dropping *)

LEMMA DroppingEmpty == ASSUME NEW X PROVE Dropping(<<>>, X) = <<>>
  BY AtEmpty DEF Dropping

LEMMA DroppingType ==
    ASSUME NEW S, NEW s \in Seq(S), NEW X
    PROVE  Dropping(s, X) \in Seq(S)
  BY AtType DEF Dropping

LEMMA DroppingAppend ==
    ASSUME NEW S, NEW s \in Seq(S), NEW e \in S, NEW X
    PROVE  Dropping(Append(s, e), X) =
             IF e \in X THEN Dropping(s, X) ELSE Append(Dropping(s, X), e)
  <1> DEFINE n == Len(s)
             t == Append(s, e)
             I == {i \in DOMAIN s : s[i] \notin X}
             J == {i \in DOMAIN t : t[i] \notin X}
  <1>1. /\ n \in Nat /\ DOMAIN s = 1 .. n /\ DOMAIN t = 1 .. n + 1
        /\ t[n + 1] = e /\ \A i \in 1 .. n : t[i] = s[i]
    BY AppendProperties
  <1> HIDE DEF t
  <1>2. (\A i \in 1 .. Len(s) : i \in I <=> i \in J) /\ (Len(s) + 1 \in J <=> e \notin X)
    BY <1>1
  <1>3. Dropping(s, X) = At(s, I) /\ Dropping(t, X) = At(t, J)
    BY DEF Dropping
  <1> HIDE DEF I, J, n
  <1>4. At(t, J) = IF Len(s) + 1 \in J THEN Append(At(s, I), e) ELSE At(s, I)
    BY <1>2, AtAppend DEF t
  <1> QED BY <1>2, <1>3, <1>4 DEF t

\* Nothing is left.
LEMMA DroppingAll ==
    ASSUME NEW X, NEW s \in Seq(X)
    PROVE  Dropping(s, X) = <<>>
  <1> DEFINE P == {t \in Seq(X) : Dropping(t, X) = <<>>}
  <1>1. <<>> \in P
    BY DroppingEmpty
  <1>2. ASSUME NEW t \in Seq(X), NEW e \in X, t \in P PROVE Append(t, e) \in P
    BY <1>2, DroppingAppend
  <1> HIDE DEF P
  <1>3. s \in P
    BY <1>1, <1>2, GrowingSequence
  <1> QED BY <1>3 DEF P

LEMMA DroppingConcat ==
    ASSUME NEW S, NEW s \in Seq(S), NEW u \in Seq(S), NEW X
    PROVE  Dropping(s \o u, X) = Dropping(s, X) \o Dropping(u, X)
  <1> DEFINE P == {t \in Seq(S) : Dropping(s \o t, X) = Dropping(s, X) \o Dropping(t, X)}
  <1>1. <<>> \in P
    <2>1. <<>> \in Seq(S) /\ Dropping(s, X) \in Seq(S)
      BY EmptySeq, DroppingType
    <2>2. s \o <<>> = s /\ Dropping(s, X) \o <<>> = Dropping(s, X)
      BY <2>1, ConcatEmptySeq
    <2>3. Dropping(s \o <<>>, X) = Dropping(s, X) \o Dropping(<<>>, X)
      BY <2>2, DroppingEmpty
    <2> QED BY <2>1, <2>3
  <1>2. ASSUME NEW t \in Seq(S), NEW e \in S, t \in P PROVE Append(t, e) \in P
    <2>1. /\ s \o t \in Seq(S) /\ Append(t, e) \in Seq(S)
          /\ Dropping(s, X) \in Seq(S) /\ Dropping(t, X) \in Seq(S)
      BY ConcatProperties, AppendProperties, DroppingType
    <2>2. s \o Append(t, e) = Append(s \o t, e)
      BY ConcatAppend
    <2>3. Dropping(s \o t, X) = Dropping(s, X) \o Dropping(t, X)
      BY <1>2
    <2>4. Dropping(s \o Append(t, e), X) =
            IF e \in X THEN Dropping(s \o t, X) ELSE Append(Dropping(s \o t, X), e)
      <3>1. \A v \in Seq(S) :
               Dropping(Append(v, e), X) = IF e \in X THEN Dropping(v, X) ELSE Append(Dropping(v, X), e)
        BY DroppingAppend
      <3> HIDE DEF P
      <3> QED BY <2>1, <2>2, <3>1, Zenon
    <2>5. Dropping(Append(t, e), X) =
            IF e \in X THEN Dropping(t, X) ELSE Append(Dropping(t, X), e)
      BY DroppingAppend
    <2>6. Dropping(s, X) \o Append(Dropping(t, X), e) = Append(Dropping(s, X) \o Dropping(t, X), e)
      BY <2>1, ConcatAppend
    <2> QED BY <2>1, <2>3, <2>4, <2>5, <2>6
  <1> HIDE DEF P
  <1>3. u \in P
    BY <1>1, <1>2, GrowingSequence
  <1> QED BY <1>3 DEF P

\* What is left out later need not be left out before.
LEMMA DroppingTwice ==
    ASSUME NEW S, NEW s \in Seq(S), NEW X, NEW Y, Y \subseteq X
    PROVE  Dropping(Dropping(s, Y), X) = Dropping(s, X)
  <1> DEFINE P == {t \in Seq(S) : Dropping(Dropping(t, Y), X) = Dropping(t, X)}
  <1>1. <<>> \in P
    <2>1. <<>> \in Seq(S)
      BY EmptySeq
    <2> QED BY <2>1, DroppingEmpty
  <1>2. ASSUME NEW t \in Seq(S), NEW e \in S, t \in P PROVE Append(t, e) \in P
    <2>1. Append(t, e) \in Seq(S) /\ Dropping(t, Y) \in Seq(S)
      BY AppendProperties, DroppingType
    <2>2. Dropping(Append(t, e), Y) = IF e \in Y THEN Dropping(t, Y) ELSE Append(Dropping(t, Y), e)
      BY DroppingAppend
    <2>3. Dropping(Append(t, e), X) = IF e \in X THEN Dropping(t, X) ELSE Append(Dropping(t, X), e)
      BY DroppingAppend
    <2>4. Dropping(Append(Dropping(t, Y), e), X) =
            IF e \in X THEN Dropping(Dropping(t, Y), X) ELSE Append(Dropping(Dropping(t, Y), X), e)
      BY <2>1, DroppingAppend
    <2>5. e \in Y => e \in X
      OBVIOUS
    <2>6. Dropping(Dropping(t, Y), X) = Dropping(t, X)
      BY <1>2
    <2> HIDE DEF P
    <2>7. Dropping(Dropping(Append(t, e), Y), X) = Dropping(Append(t, e), X)
      BY <2>2, <2>3, <2>4, <2>5, <2>6
    <2> QED BY <2>1, <2>7 DEF P
  <1> HIDE DEF P
  <1>3. s \in P
    BY <1>1, <1>2, GrowingSequence
  <1> QED BY <1>3 DEF P

-------------------------------------------------------------------------------
(* Joined *)

\* One round of the recursion of Joined, and the recursion as far as n.
Behind(s, t) == s \o t
Joins(g, ss, n) == g[0] = <<>> /\ \A i \in 1 .. n : g[i] = Behind(g[i - 1], ss[i])

\* The recursion ends: there are all the sequences in between.
LEMMA JoinedSteps ==
    ASSUME NEW ss, Len(ss) \in Nat
    PROVE  \E g : Joins(g, ss, Len(ss)) /\ Joined(ss) = g[Len(ss)]
  <1> DEFINE N == Len(ss)
             Upto(g, k) == g = [i \in 0 .. k |-> IF i = 0 THEN <<>> ELSE Behind(g[i - 1], ss[i])]
             S == {k \in 0 .. N : \E g : Upto(g, k)}
  <1>1. 0 \in S
    <2> DEFINE g == [i \in 0 .. 0 |-> <<>>]
    <2>1. Upto(g, 0)
      OBVIOUS
    <2> HIDE DEF g
    <2> HIDE DEF Upto
    <2> QED BY <2>1
  <1>2. ASSUME NEW k \in 1 .. N, k - 1 \in S PROVE k \in S
    <2>1. PICK g : Upto(g, k - 1)
      BY <1>2
    <2> DEFINE h == [i \in 0 .. k |-> IF i = k THEN Behind(g[k - 1], ss[k]) ELSE g[i]]
    <2>2. ASSUME NEW i \in 0 .. k
          PROVE  h[i] = IF i = 0 THEN <<>> ELSE Behind(h[i - 1], ss[i])
      <3>1. \A j \in 0 .. k - 1 : g[j] = IF j = 0 THEN <<>> ELSE Behind(g[j - 1], ss[j])
        BY <2>1
      <3>2. CASE i = k
        <4>1. h[i] = Behind(g[k - 1], ss[k]) /\ i # 0
          BY <3>2
        <4>2. h[i - 1] = g[k - 1]
          BY <3>2
        <4> QED BY <3>2, <4>1, <4>2
      <3>3. CASE i \in 0 .. k - 1
        <4>1. h[i] = g[i]
          BY <3>3
        <4>2. i # 0 => h[i - 1] = g[i - 1]
          BY <3>3
        <4> QED BY <3>1, <3>3, <4>1, <4>2
      <3> QED BY <3>2, <3>3
    <2>3. Upto(h, k)
      BY <2>2
    <2> HIDE DEF h
    <2> HIDE DEF Upto
    <2>4. k \in 0 .. N
      OBVIOUS
    <2> QED BY <2>3, <2>4
  <1> DEFINE upto[n \in 0 .. N] == IF n = 0 THEN <<>> ELSE Behind(upto[n - 1], ss[n])
  <1>3. \E g : Upto(g, N)
    <2>0. N \in Nat
      OBVIOUS
    <2> HIDE DEF S
    <2> HIDE DEF N
    <2>1. \A i \in 0 .. N : i \in S
      BY <1>1, <1>2, <2>0, SetInduction
    <2>2. N \in S
      BY <2>0, <2>1
    <2> QED BY <2>2 DEF S
  <1>4. Upto(upto, N)
    BY <1>3
  <1>5. Joined(ss) = upto[N]
    BY DEF Joined, Behind
  <1> HIDE DEF upto
  <1>6. Joins(upto, ss, N)
    BY <1>4 DEF Joins
  <1> QED BY <1>5, <1>6

LEMMA JoinedEmpty == Joined(<<>>) = <<>>
  <1>1. Len(<<>>) = 0
    OBVIOUS
  <1> QED BY <1>1, JoinedSteps DEF Joins

LEMMA JoinedAppend ==
    ASSUME NEW S, NEW ss \in Seq(S), NEW e \in S
    PROVE  Joined(Append(ss, e)) = Joined(ss) \o e
  <1> DEFINE t == Append(ss, e)
             n == Len(ss)
  <1>1. /\ n \in Nat /\ Len(t) = n + 1 /\ t[n + 1] = e
        /\ \A i \in 1 .. n : t[i] = ss[i]
    BY AppendProperties
  <1> HIDE DEF t
  <1>2. PICK g : Joins(g, ss, n) /\ Joined(ss) = g[n]
    BY <1>1, JoinedSteps
  <1>3. PICK h : Joins(h, t, n + 1) /\ Joined(t) = h[n + 1]
    BY <1>1, JoinedSteps
  <1> HIDE DEF n
  <1> DEFINE T == {i \in 0 .. n : g[i] = h[i]}
  <1>4. 0 \in T
    BY <1>1, <1>2, <1>3 DEF Joins
  <1>5. ASSUME NEW i \in 1 .. n, i - 1 \in T PROVE i \in T
    <2>1. i \in 1 .. n + 1 /\ i \in 0 .. n /\ g[i - 1] = h[i - 1] /\ t[i] = ss[i]
      BY <1>1, <1>5
    <2>2. g[i] = Behind(g[i - 1], ss[i])
      BY <1>2 DEF Joins
    <2>3. h[i] = Behind(h[i - 1], t[i])
      BY <1>3, <2>1 DEF Joins
    <2> QED BY <2>1, <2>2, <2>3
  <1> HIDE DEF T
  <1>6. \A i \in 0 .. n : i \in T
    BY <1>1, <1>4, <1>5, SetInduction
  <1>7. g[n] = h[n]
    BY <1>1, <1>6 DEF T
  <1>8. h[n + 1] = Behind(h[n], t[n + 1])
    <2>1. n + 1 \in 1 .. n + 1 /\ (n + 1) - 1 = n
      BY <1>1
    <2> QED BY <1>3, <2>1 DEF Joins
  <1>9. Joined(t) = Joined(ss) \o e
    BY <1>1, <1>2, <1>3, <1>7, <1>8 DEF Behind
  <1> QED BY <1>9 DEF t

LEMMA JoinedType ==
    ASSUME NEW S, NEW ss \in Seq(Seq(S))
    PROVE  Joined(ss) \in Seq(S)
  <1> DEFINE P == {t \in Seq(Seq(S)) : Joined(t) \in Seq(S)}
  <1>1. <<>> \in P
    <2>1. <<>> \in Seq(Seq(S)) /\ <<>> \in Seq(S)
      BY EmptySeq
    <2>2. Joined(<<>>) \in Seq(S)
      BY <2>1, JoinedEmpty, Zenon
    <2> QED BY <2>1, <2>2
  <1>2. ASSUME NEW t \in Seq(Seq(S)), NEW e \in Seq(S), t \in P PROVE Append(t, e) \in P
    <2>1. Append(t, e) \in Seq(Seq(S)) /\ Joined(t) \in Seq(S)
      BY <1>2, AppendProperties
    <2>2. Joined(t) \o e \in Seq(S)
      BY <2>1, ConcatProperties
    <2>3. Joined(Append(t, e)) \in Seq(S)
      BY <2>2, JoinedAppend
    <2> QED BY <2>1, <2>3
  <1> HIDE DEF P
  <1>3. ss \in P
    BY <1>1, <1>2, GrowingSequence
  <1> QED BY <1>3 DEF P

-------------------------------------------------------------------------------
(* Logs: one sequence per connection, which only grows, of whatever records *)

\* f gives every member of C a sequence, of whatever.
Sequences(C, f) == \E S : f \in [C -> Seq(S)]

\* g is f with one more entry for c.
Appended(f, c, e, g) == g = [f EXCEPT ![c] = Append(@, e)]

\* The empty logs of the start.
LEMMA EmptyLogs ==
    ASSUME NEW C PROVE Sequences(C, [c \in C |-> <<>>])
  <1>1. [c \in C |-> <<>>] \in [C -> Seq({})]
    OBVIOUS
  <1> QED BY <1>1 DEF Sequences

\* The domain of a log.
LEMMA LogDomain ==
    ASSUME NEW C, NEW f, Sequences(C, f), NEW c \in C
    PROVE  Len(f[c]) \in Nat /\ DOMAIN f[c] = 1 .. Len(f[c])
  <1>1. PICK S : f \in [C -> Seq(S)]
    BY DEF Sequences
  <1>2. f[c] \in Seq(S)
    BY <1>1
  <1> QED BY <1>2

\* One entry is added to the log of one connection.
LEMMA LogAppends ==
    ASSUME NEW C, NEW f, Sequences(C, f), NEW c \in C, NEW e, NEW g,
           Appended(f, c, e, g)
    PROVE  /\ Sequences(C, g)
           /\ Len(f[c]) \in Nat /\ Len(g[c]) = Len(f[c]) + 1
           /\ DOMAIN f[c] = 1 .. Len(f[c]) /\ DOMAIN g[c] = 1 .. Len(f[c]) + 1
           /\ \A i \in 1 .. Len(f[c]) : g[c][i] = f[c][i]
           /\ g[c][Len(f[c]) + 1] = e
           /\ \A d \in C \ {c} : g[d] = f[d]
           /\ \E S : f[c] \in Seq(S) /\ e \in S /\ g[c] = Append(f[c], e)
  <1>1. PICK S : f \in [C -> Seq(S)]
    BY DEF Sequences
  <1> DEFINE T == S \union {e}
  <1>2. f \in [C -> Seq(T)]
    <2>1. \A s \in Seq(S) : s \in Seq(T)
      OBVIOUS
    <2> QED BY <1>1, <2>1
  <1>3. f[c] \in Seq(T) /\ e \in T
    BY <1>2
  <1>4. g[c] = Append(f[c], e) /\ \A d \in C \ {c} : g[d] = f[d]
    BY <1>1 DEF Appended
  <1> HIDE DEF T
  <1>5. g \in [C -> Seq(T)]
    BY <1>2, <1>3, <1>4, AppendProperties DEF Appended
  <1>6. Sequences(C, g)
    BY <1>5 DEF Sequences
  <1>7. g[c] \in Seq(T)
    BY <1>5
  <1> QED BY <1>3, <1>4, <1>6, <1>7, AppendProperties

\* The entries of an action: one more, if the new entry is one.
LEMMA MatchingAppend ==
    ASSUME NEW S, NEW s \in Seq(S), NEW e \in S, NEW a
    PROVE  Matching(Append(s, e), a) =
             IF e.action = a THEN Append(Matching(s, a), e) ELSE Matching(s, a)
  <1> DEFINE n == Len(s)
             t == Append(s, e)
  <1>1. /\ n \in Nat /\ Len(t) = n + 1 /\ t[n + 1] = e
        /\ DOMAIN s = 1 .. n /\ DOMAIN t = 1 .. n + 1
        /\ \A i \in 1 .. n : t[i] = s[i]
    BY AppendProperties
  <1> HIDE DEF t
  <1>2. \A i \in 1 .. Len(s) : i \in Positions(s, a) <=> i \in Positions(t, a)
    BY <1>1 DEF Positions
  <1>3. Len(s) + 1 \in Positions(t, a) <=> e.action = a
    BY <1>1 DEF Positions
  <1>4. At(t, Positions(t, a)) =
          IF Len(s) + 1 \in Positions(t, a) THEN Append(At(s, Positions(s, a)), e)
          ELSE At(s, Positions(s, a))
    BY <1>2, AtAppend DEF t
  <1> QED BY <1>3, <1>4 DEF Matching, t

LEMMA NoMatching == ASSUME NEW a PROVE Matching(<<>>, a) = <<>>
  BY AtEmpty DEF Matching

LEMMA MatchingType ==
    ASSUME NEW S, NEW s \in Seq(S), NEW a
    PROVE  Matching(s, a) \in Seq(S)
  BY AtType DEF Matching

-------------------------------------------------------------------------------
(* What is read out of a log *)

IsLog(log) == \E S : log \in Seq(S)

\* The credentials in a log, and the data of its entries of an action.
Names(log) ==
    LET logins == Matching(log, "login")
    IN  [i \in DOMAIN logins |-> <<logins[i].username, logins[i].password>>]

Data(log, action) ==
    LET es == Matching(log, action)
    IN  [i \in DOMAIN es |-> es[i].data]

\* The empty log.
LEMMA NoEntries ==
    /\ IsLog(<<>>) /\ Len(<<>>) = 0 /\ Names(<<>>) = <<>>
    /\ \A action : Data(<<>>, action) = <<>>
  <1>1. <<>> \in Seq({}) /\ Len(<<>>) = 0
    OBVIOUS
  <1>2. Names(<<>>) = [i \in DOMAIN <<>> |-> <<<<>>[i].username, <<>>[i].password>>]
    BY NoMatching DEF Names
  <1>3. \A action : Data(<<>>, action) = [i \in DOMAIN <<>> |-> <<>>[i].data]
    BY NoMatching DEF Data
  <1>4. IsLog(<<>>)
    BY <1>1 DEF IsLog
  <1> QED BY <1>1, <1>2, <1>3, <1>4

\* One more entry.
LEMMA OneEntry ==
    ASSUME NEW S, NEW log \in Seq(S), NEW e \in S
    PROVE  /\ Names(Append(log, e)) =
                IF e.action = "login" THEN Append(Names(log), <<e.username, e.password>>)
                ELSE Names(log)
           /\ \A action : Data(Append(log, e), action) =
                IF e.action = action THEN Append(Data(log, action), e.data) ELSE Data(log, action)
  <1>1. ASSUME NEW action
        PROVE  Data(Append(log, e), action) =
                 IF e.action = action THEN Append(Data(log, action), e.data) ELSE Data(log, action)
    <2> DEFINE es == Matching(log, action)
               more == Matching(Append(log, e), action)
               n == Len(es)
    <2>1. CASE e.action # action
      <3>1. more = es
        BY <2>1, MatchingAppend
      <3> QED BY <2>1, <3>1, Zenon DEF Data
    <2>2. CASE e.action = action
      <3>1. es \in Seq(S) /\ more = Append(es, e)
        BY <2>2, MatchingAppend, MatchingType
      <3> HIDE DEF more
      <3>2. Data(log, action) = [i \in DOMAIN es |-> es[i].data]
        BY DEF Data
      <3>3. Data(Append(log, e), action) = [i \in DOMAIN more |-> more[i].data]
        BY DEF Data, more
      <3> HIDE DEF es
      <3>4. /\ n \in Nat /\ DOMAIN es = 1 .. n /\ DOMAIN more = 1 .. n + 1
            /\ more[n + 1] = e /\ \A i \in 1 .. n : more[i] = es[i]
        BY <3>1, AppendProperties
      <3> HIDE DEF n
      <3> DEFINE f == [i \in 1 .. n + 1 |-> more[i].data]
                 g == [i \in 1 .. n |-> es[i].data]
      <3>5. f = [i \in 1 .. n + 1 |-> f[i]] /\ g = [i \in 1 .. n |-> f[i]] /\ f[n + 1] = e.data
        BY <3>4
      <3>6. Data(log, action) = g /\ Data(Append(log, e), action) = f
        BY <3>2, <3>3, <3>4
      <3> HIDE DEF f, g
      <3>7. f = Append(g, f[n + 1])
        BY <3>4, <3>5, OneMore
      <3> QED BY <2>2, <3>5, <3>6, <3>7
    <2> QED BY <2>1, <2>2
  <1>2. CASE e.action # "login"
    <2>1. Matching(Append(log, e), "login") = Matching(log, "login")
      BY <1>2, MatchingAppend
    <2>2. Names(Append(log, e)) = Names(log)
      BY <2>1, Zenon DEF Names
    <2> QED BY <1>1, <1>2, <2>2
  <1>3. CASE e.action = "login"
    <2> DEFINE es == Matching(log, "login")
               more == Matching(Append(log, e), "login")
               n == Len(es)
    <2>1. es \in Seq(S) /\ more = Append(es, e)
      BY <1>3, MatchingAppend, MatchingType
    <2> HIDE DEF more
    <2>2. Names(log) = [i \in DOMAIN es |-> <<es[i].username, es[i].password>>]
      BY DEF Names
    <2>3. Names(Append(log, e)) = [i \in DOMAIN more |-> <<more[i].username, more[i].password>>]
      BY DEF Names, more
    <2> HIDE DEF es
    <2>4. /\ n \in Nat /\ DOMAIN es = 1 .. n /\ DOMAIN more = 1 .. n + 1
          /\ more[n + 1] = e /\ \A i \in 1 .. n : more[i] = es[i]
      BY <2>1, AppendProperties
    <2> HIDE DEF n
    <2> DEFINE f == [i \in 1 .. n + 1 |-> <<more[i].username, more[i].password>>]
               g == [i \in 1 .. n |-> <<es[i].username, es[i].password>>]
    <2>5. /\ f = [i \in 1 .. n + 1 |-> f[i]] /\ g = [i \in 1 .. n |-> f[i]]
          /\ f[n + 1] = <<e.username, e.password>>
      BY <2>4
    <2>6. Names(log) = g /\ Names(Append(log, e)) = f
      BY <2>2, <2>3, <2>4
    <2> HIDE DEF f, g
    <2>7. f = Append(g, f[n + 1])
      BY <2>4, <2>5, OneMore
    <2>8. Names(Append(log, e)) = Append(Names(log), <<e.username, e.password>>)
      BY <2>5, <2>6, <2>7
    <2> QED BY <1>1, <1>3, <2>8
  <1> QED BY <1>2, <1>3

\* What is taken out of a log is finite, too.
LEMMA EntryType ==
    ASSUME NEW log, IsLog(log)
    PROVE  IsLog(Names(log)) /\ \A action : IsLog(Data(log, action))
  <1>1. PICK S : log \in Seq(S)
    BY DEF IsLog
  <1>2. ASSUME NEW action PROVE IsLog(Data(log, action))
    <2> DEFINE es == Matching(log, action)
    <2>1. es \in Seq(S) /\ Data(log, action) = [i \in DOMAIN es |-> es[i].data]
      BY <1>1, MatchingType DEF Data
    <2> HIDE DEF es
    <2> DEFINE n == Len(es)  f == [i \in 1 .. n |-> es[i].data]  T == {es[i].data : i \in 1 .. n}
    <2>2. n \in Nat /\ f \in [1 .. n -> T] /\ Data(log, action) = f
      BY <2>1
    <2> HIDE DEF n, f, T
    <2> QED BY <2>2, FunctionIsSequence DEF IsLog
  <1>3. IsLog(Names(log))
    <2> DEFINE es == Matching(log, "login")
    <2>1. es \in Seq(S) /\ Names(log) = [i \in DOMAIN es |-> <<es[i].username, es[i].password>>]
      BY <1>1, MatchingType DEF Names
    <2> HIDE DEF es
    <2> DEFINE n == Len(es)  f == [i \in 1 .. n |-> <<es[i].username, es[i].password>>]
               T == {<<es[i].username, es[i].password>> : i \in 1 .. n}
    <2>2. n \in Nat /\ f \in [1 .. n -> T] /\ Names(log) = f
      BY <2>1
    <2> HIDE DEF n, f, T
    <2> QED BY <2>2, FunctionIsSequence DEF IsLog
  <1> QED BY <1>2, <1>3

\* Two logs, and all sequences, have elements of some set in common.
LEMMA CommonSet ==
    ASSUME NEW s, IsLog(s), NEW t, IsLog(t)
    PROVE  \E S : s \in Seq(S) /\ t \in Seq(S)
  <1>1. PICK S : s \in Seq(S)
    BY DEF IsLog
  <1>2. PICK T : t \in Seq(T)
    BY DEF IsLog
  <1>3. (\A u \in Seq(S) : u \in Seq(S \union T)) /\ (\A u \in Seq(T) : u \in Seq(S \union T))
    OBVIOUS
  <1> QED BY <1>1, <1>2, <1>3

\* Two logs, one after the other.
LEMMA LogConcat ==
    ASSUME NEW s, IsLog(s), NEW t, IsLog(t)
    PROVE  /\ IsLog(s \o t) /\ Len(s) \in Nat /\ Len(t) \in Nat /\ Len(s \o t) = Len(s) + Len(t)
           /\ DOMAIN s = 1 .. Len(s) /\ DOMAIN t = 1 .. Len(t) /\ DOMAIN (s \o t) = 1 .. Len(s) + Len(t)
           /\ \A i \in 1 .. Len(s) : (s \o t)[i] = s[i]
           /\ \A i \in 1 .. Len(t) : (s \o t)[Len(s) + i] = t[i]
           /\ s \o <<>> = s
           /\ \A e : IsLog(Append(s, e)) /\ s \o <<e>> = Append(s, e)
  <1>1. PICK S : s \in Seq(S) /\ t \in Seq(S)
    BY CommonSet
  <1>2. /\ s \o t \in Seq(S) /\ Len(s \o t) = Len(s) + Len(t)
        /\ Len(s) \in Nat /\ Len(t) \in Nat
        /\ \A i \in 1 .. Len(s) + Len(t) : (s \o t)[i] = IF i <= Len(s) THEN s[i] ELSE t[i - Len(s)]
    BY <1>1, ConcatProperties
  <1>3. s \o <<>> = s
    BY <1>1, ConcatEmptySeq
  <1>4. ASSUME NEW e
        PROVE  IsLog(Append(s, e)) /\ s \o <<e>> = Append(s, e)
    <2> DEFINE E == S \union {e}
    <2>1. s \in Seq(E) /\ e \in E
      <3>1. \A u \in Seq(S) : u \in Seq(E)
        OBVIOUS
      <3> QED BY <1>1, <3>1
    <2> HIDE DEF E
    <2>2. Append(s, e) \in Seq(E) /\ Append(s, e) = s \o <<e>>
      BY <2>1, AppendProperties, AppendIsConcat
    <2> QED BY <2>2 DEF IsLog
  <1>5. \A i \in 1 .. Len(t) : (s \o t)[Len(s) + i] = t[i]
    <2> SUFFICES ASSUME NEW i \in 1 .. Len(t) PROVE (s \o t)[Len(s) + i] = t[i]
      OBVIOUS
    <2> DEFINE k == Len(s) + i
    <2>1. k \in 1 .. Len(s) + Len(t) /\ ~(k <= Len(s)) /\ k - Len(s) = i
      BY <1>2
    <2> HIDE DEF k
    <2>2. (s \o t)[k] = t[i]
      BY <1>2, <2>1
    <2> QED BY <2>2 DEF k
  <1>6. \A i \in 1 .. Len(s) : (s \o t)[i] = s[i]
    BY <1>2
  <1>7. IsLog(s \o t) /\ DOMAIN s = 1 .. Len(s) /\ DOMAIN t = 1 .. Len(t)
        /\ DOMAIN (s \o t) = 1 .. Len(s) + Len(t)
    BY <1>1, <1>2 DEF IsLog
  <1> QED BY <1>2, <1>3, <1>4, <1>5, <1>6, <1>7

\* An entry at the end of two logs.
LEMMA ConcatMore ==
    ASSUME NEW s, IsLog(s), NEW t, IsLog(t), NEW e
    PROVE  s \o Append(t, e) = Append(s \o t, e)
  <1>1. PICK S : s \in Seq(S) /\ t \in Seq(S)
    BY CommonSet
  <1> DEFINE E == S \union {e}
  <1>2. s \in Seq(E) /\ t \in Seq(E) /\ e \in E
    <2>1. \A u \in Seq(S) : u \in Seq(E)
      OBVIOUS
    <2> QED BY <1>1, <2>1
  <1> HIDE DEF E
  <1> QED BY <1>2, ConcatAppend

\* Several entries, or none.
LEMMA MoreEntries ==
    ASSUME NEW log, IsLog(log), NEW es, IsLog(es)
    PROVE  /\ Names(log \o es) = Names(log) \o Names(es)
           /\ \A action : Data(log \o es, action) = Data(log, action) \o Data(es, action)
  <1>1. PICK S : log \in Seq(S) /\ es \in Seq(S)
    BY CommonSet
  <1> DEFINE P == {t \in Seq(S) : /\ Names(log \o t) = Names(log) \o Names(t)
                                  /\ \A action : Data(log \o t, action) = Data(log, action) \o Data(t, action)}
  <1>2. <<>> \in P
    <2>1. <<>> \in Seq(S) /\ log \o <<>> = log
      BY <1>1, LogConcat, NoEntries
    <2>2. Names(log) \o <<>> = Names(log) /\ \A action : Data(log, action) \o <<>> = Data(log, action)
      BY EntryType, LogConcat, NoEntries
    <2>3. Names(<<>>) = <<>> /\ \A action : Data(<<>>, action) = <<>>
      BY NoEntries
    <2>4. /\ Names(log \o <<>>) = Names(log) \o Names(<<>>)
          /\ \A action : Data(log \o <<>>, action) = Data(log, action) \o Data(<<>>, action)
      BY <2>1, <2>2, <2>3, Zenon
    <2> QED BY <2>1, <2>4
  <1>3. ASSUME NEW t \in Seq(S), NEW e \in S, t \in P PROVE Append(t, e) \in P
    <2>1. /\ IsLog(t) /\ IsLog(Names(log)) /\ IsLog(Names(t))
          /\ \A action : IsLog(Data(log, action)) /\ IsLog(Data(t, action))
      BY EntryType DEF IsLog
    <2>2. log \o Append(t, e) = Append(log \o t, e) /\ log \o t \in Seq(S) /\ Append(t, e) \in Seq(S)
      BY <1>1, ConcatAppend, ConcatProperties, AppendProperties
    <2>3. /\ Names(log \o t) = Names(log) \o Names(t)
          /\ \A action : Data(log \o t, action) = Data(log, action) \o Data(t, action)
      BY <1>3
    <2> HIDE DEF P
    <2>4. \A s \in Seq(S) :
             /\ Names(Append(s, e)) =
                  IF e.action = "login" THEN Append(Names(s), <<e.username, e.password>>) ELSE Names(s)
             /\ \A action : Data(Append(s, e), action) =
                  IF e.action = action THEN Append(Data(s, action), e.data) ELSE Data(s, action)
      BY OneEntry
    <2>5. \A x : Names(log) \o Append(Names(t), x) = Append(Names(log) \o Names(t), x)
      BY <2>1, ConcatMore, Zenon
    <2>6. \A action, x : Data(log, action) \o Append(Data(t, action), x) =
                           Append(Data(log, action) \o Data(t, action), x)
      BY <2>1, ConcatMore, Zenon
    <2>7. Names(log \o Append(t, e)) = Names(log) \o Names(Append(t, e))
      <3>1. CASE e.action = "login"
        <4>1. Names(Append(t, e)) = Append(Names(t), <<e.username, e.password>>)
          BY <2>4, <3>1
        <4>2. Names(Append(log \o t, e)) = Append(Names(log \o t), <<e.username, e.password>>)
          BY <2>2, <2>4, <3>1
        <4> QED BY <2>2, <2>3, <2>5, <4>1, <4>2, Zenon
      <3>2. CASE e.action # "login"
        <4>1. Names(Append(t, e)) = Names(t)
          BY <2>4, <3>2
        <4>2. Names(Append(log \o t, e)) = Names(log \o t)
          BY <2>2, <2>4, <3>2
        <4> QED BY <2>2, <2>3, <4>1, <4>2, Zenon
      <3> QED BY <3>1, <3>2
    <2>8. ASSUME NEW action
          PROVE  Data(log \o Append(t, e), action) = Data(log, action) \o Data(Append(t, e), action)
      <3>1. CASE e.action = action
        <4>1. Data(Append(t, e), action) = Append(Data(t, action), e.data)
          BY <2>4, <3>1
        <4>2. Data(Append(log \o t, e), action) = Append(Data(log \o t, action), e.data)
          BY <2>2, <2>4, <3>1
        <4> QED BY <2>2, <2>3, <2>6, <4>1, <4>2, Zenon
      <3>2. CASE e.action # action
        <4>1. Data(Append(t, e), action) = Data(t, action)
          BY <2>4, <3>2
        <4>2. Data(Append(log \o t, e), action) = Data(log \o t, action)
          BY <2>2, <2>4, <3>2
        <4> QED BY <2>2, <2>3, <4>1, <4>2, Zenon
      <3> QED BY <3>1, <3>2
    <2> QED BY <2>2, <2>7, <2>8 DEF P
  <1> HIDE DEF P
  <1>4. es \in P
    BY <1>1, <1>2, <1>3, GrowingSequence
  <1> QED BY <1>4 DEF P

\* A log of one entry.
LEMMA SingleEntry ==
    ASSUME NEW e
    PROVE  /\ IsLog(<<e>>) /\ Len(<<e>>) = 1 /\ <<e>>[1] = e
           /\ e.action = "login" => Names(<<e>>) = <<<<e.username, e.password>>>>
           /\ e.action # "login" => Names(<<e>>) = <<>>
           /\ \A action : /\ e.action = action => Data(<<e>>, action) = <<e.data>>
                          /\ e.action # action => Data(<<e>>, action) = <<>>
  <1>1. <<e>> = Append(<<>>, e) /\ <<>> \in Seq({e}) /\ e \in {e} /\ <<e>> \in Seq({e})
        /\ Len(<<e>>) = 1 /\ <<e>>[1] = e
    OBVIOUS
  <1>2. \A x : Append(<<>>, x) = <<x>>
    OBVIOUS
  <1>3. /\ Names(Append(<<>>, e)) =
             IF e.action = "login" THEN Append(Names(<<>>), <<e.username, e.password>>) ELSE Names(<<>>)
        /\ \A action : Data(Append(<<>>, e), action) =
             IF e.action = action THEN Append(Data(<<>>, action), e.data) ELSE Data(<<>>, action)
    BY <1>1, OneEntry
  <1>4. e.action = "login" => Names(<<e>>) = <<<<e.username, e.password>>>>
    BY <1>1, <1>2, <1>3, NoEntries, Zenon
  <1>5. e.action # "login" => Names(<<e>>) = <<>>
    BY <1>1, <1>3, NoEntries, Zenon
  <1>6. \A action : /\ e.action = action => Data(<<e>>, action) = <<e.data>>
                    /\ e.action # action => Data(<<e>>, action) = <<>>
    BY <1>1, <1>2, <1>3, NoEntries, Zenon
  <1> QED BY <1>1, <1>4, <1>5, <1>6 DEF IsLog

\* Two entries: a login last.
LEMMA LoginLast ==
    ASSUME NEW log, IsLog(log), NEW e, e.action = "login", Names(log) = <<>>
    PROVE  /\ IsLog(log \o <<e>>)
           /\ Names(log \o <<e>>) = <<<<e.username, e.password>>>>
           /\ \A action : action # "login" => Data(log \o <<e>>, action) = Data(log, action)
  <1>1. IsLog(<<e>>) /\ Names(<<e>>) = <<<<e.username, e.password>>>>
        /\ \A action : action # "login" => Data(<<e>>, action) = <<>>
    BY SingleEntry
  <1>2. /\ Names(log \o <<e>>) = Names(log) \o Names(<<e>>)
        /\ \A action : Data(log \o <<e>>, action) = Data(log, action) \o Data(<<e>>, action)
    BY <1>1, MoreEntries
  <1>3. IsLog(log \o <<e>>)
    BY <1>1, LogConcat
  <1>4. <<>> \o <<<<e.username, e.password>>>> = <<<<e.username, e.password>>>>
    OBVIOUS
  <1>5. Names(log \o <<e>>) = <<<<e.username, e.password>>>>
    BY <1>1, <1>2, <1>4, Zenon
  <1>6. \A action : Data(log, action) \o <<>> = Data(log, action)
    BY EntryType, LogConcat, NoEntries
  <1>7. ASSUME NEW action, action # "login" PROVE Data(log \o <<e>>, action) = Data(log, action)
    BY <1>1, <1>2, <1>6, <1>7
  <1> QED BY <1>3, <1>5, <1>7

\* The entries of an action, when one more is logged.
LEMMA MatchingEntry ==
    ASSUME NEW log, IsLog(log), NEW e, NEW action
    PROVE  /\ IsLog(Matching(log, action))
           /\ e.action = action => Matching(Append(log, e), action) = Append(Matching(log, action), e)
           /\ e.action # action => Matching(Append(log, e), action) = Matching(log, action)
  <1>1. PICK S : log \in Seq(S)
    BY DEF IsLog
  <1> DEFINE E == S \union {e}
  <1>2. log \in Seq(E) /\ e \in E
    <2>1. \A u \in Seq(S) : u \in Seq(E)
      OBVIOUS
    <2> QED BY <1>1, <2>1
  <1> HIDE DEF E
  <1>3. /\ Matching(Append(log, e), action) =
             IF e.action = action THEN Append(Matching(log, action), e) ELSE Matching(log, action)
        /\ Matching(log, action) \in Seq(E)
    BY <1>2, MatchingAppend, MatchingType
  <1> QED BY <1>3 DEF IsLog

\* What is known of a sequence with one more element.
LEMMA LogAppend ==
    ASSUME NEW s, IsLog(s), NEW e
    PROVE  /\ IsLog(Append(s, e)) /\ Len(s) \in Nat /\ Len(Append(s, e)) = Len(s) + 1
           /\ DOMAIN s = 1 .. Len(s) /\ DOMAIN Append(s, e) = 1 .. Len(s) + 1
           /\ Append(s, e)[Len(s) + 1] = e
           /\ \A i \in 1 .. Len(s) : Append(s, e)[i] = s[i]
  <1>1. PICK S : s \in Seq(S)
    BY DEF IsLog
  <1> DEFINE E == S \union {e}
  <1>2. s \in Seq(E) /\ e \in E
    <2>1. \A u \in Seq(S) : u \in Seq(E)
      OBVIOUS
    <2> QED BY <1>1, <2>1
  <1> HIDE DEF E
  <1>3. Append(s, e) \in Seq(E)
    BY <1>2, AppendProperties
  <1> QED BY <1>2, <1>3, AppendProperties DEF IsLog

\* The same, for what a sequence of n elements becomes.
Grown(s, e, t, n) ==
    /\ n \in Nat /\ DOMAIN s = 1 .. n /\ DOMAIN t = 1 .. n + 1 /\ t[n + 1] = e
    /\ \A i \in 1 .. n : t[i] = s[i]

\* One more element.
LEMMA Growing == ASSUME NEW s, IsLog(s), NEW e, NEW t, t = Append(s, e) PROVE Grown(s, e, t, Len(s))
  BY LogAppend DEF Grown

\* A sequence of some set is a log.
LEMMA SequenceIsLog == ASSUME NEW S, NEW s \in Seq(S) PROVE IsLog(s)
  BY DEF IsLog

Elements(s) == {s[i] : i \in DOMAIN s}

\* The elements of a sequence with one more.
LEMMA ElementsAppend ==
    ASSUME NEW s, IsLog(s), NEW x, NEW q, q = Append(s, x)
    PROVE  Elements(q) = Elements(s) \union {x}
  <1> DEFINE n == Len(s)
  <1>1. Grown(s, x, q, n)
    BY Growing
  <1> HIDE DEF n
  <1>2. /\ n \in Nat /\ DOMAIN s = 1 .. n /\ DOMAIN q = 1 .. n + 1
        /\ q[n + 1] = x /\ \A i \in 1 .. n : q[i] = s[i]
    BY <1>1 DEF Grown
  <1>3. \A y : y \in Elements(q) <=> y \in Elements(s) \/ y = x
    <2>1. \A i \in 1 .. n + 1 : i \in 1 .. n \/ i = n + 1
      BY <1>2
    <2>2. n + 1 \in 1 .. n + 1 /\ \A i \in 1 .. n : i \in 1 .. n + 1
      BY <1>2
    <2>3. \A s1, y : y \in Elements(s1) <=> \E i \in DOMAIN s1 : y = s1[i]
      BY DEF Elements
    <2>4. ASSUME NEW y \in Elements(q) PROVE y \in Elements(s) \/ y = x
      <3>1. PICK i \in DOMAIN q : y = q[i]
        BY <2>3
      <3>2. i \in 1 .. n + 1
        BY <1>2
      <3> QED BY <1>2, <2>1, <2>3, <3>1, <3>2
    <2>5. ASSUME NEW y \in Elements(s) PROVE y \in Elements(q)
      <3>1. PICK i \in 1 .. n : y = s[i]
        BY <1>2, <2>3
      <3> QED BY <1>2, <2>2, <2>3, <3>1
    <2>6. x \in Elements(q)
      BY <1>2, <2>2, <2>3
    <2> QED BY <2>4, <2>5, <2>6
  <1> QED BY <1>3

\* The last of some positions.
LEMMA LatestIs ==
    ASSUME NEW n \in Nat, NEW T \in SUBSET (1 .. n), T # {}
    PROVE  Latest(T) \in T /\ \A j \in T : j <= Latest(T)
  <1> DEFINE U == {x \in Nat : \A j \in T : j <= x}
  <1>1. n \in U
    OBVIOUS
  <1>2. PICK m \in U : \A y \in U : m <= y
    BY <1>1, LeastElement
  <1>3. m \in Nat /\ \A j \in T : j \in Nat /\ j <= m
    OBVIOUS
  <1>4. m \in T
    <2> SUFFICES ASSUME m \notin T PROVE FALSE
      OBVIOUS
    <2>1. \A j \in T : j \in Nat /\ j >= 1 /\ j <= m - 1
      BY <1>3
    <2>2. PICK j \in T : TRUE
      OBVIOUS
    <2>3. m - 1 \in Nat
      BY <1>3, <2>1, <2>2
    <2>4. m - 1 \in U
      BY <2>1, <2>3
    <2> HIDE DEF U
    <2> QED BY <1>2, <1>3, <2>4
  <1>5. \E i \in T : \A j \in T : j <= i
    BY <1>3, <1>4
  <1> QED BY <1>5 DEF Latest
===============================================================================
