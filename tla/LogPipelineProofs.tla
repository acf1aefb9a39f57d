--------------------------- MODULE LogPipelineProofs ---------------------------
(***************************************************************************)
(* Proofs about LogPipeline, for any events and any config files: what one *)
(* handler does to an event does not keep it from the next one, shows it   *)
(* something the filter removes, or gets a dropped event through.          *)
(***************************************************************************)
EXTENDS LogPipeline, LogsProofs

-------------------------------------------------------------------------------
(* Renamed: the changes of a filter, one after the other *)

\* The recursion of Renamed ends: there are all the bodies in between.
LEMMA RenamedSteps ==
    ASSUME NEW c, NEW body, Len(c.change) \in Nat
    PROVE  \E g : /\ g[0] = body /\ Renamed(c, body) = g[Len(c.change)]
                  /\ \A i \in 1 .. Len(c.change) : g[i] = Rename(g[i - 1], c.change[i])
  <1> DEFINE N == Len(c.change)
             Upto(g, k) ==
               g = [i \in 0 .. k |-> IF i = 0 THEN body ELSE Rename(g[i - 1], c.change[i])]
             S == {k \in 0 .. N : \E g : Upto(g, k)}
  <1>1. 0 \in S
    <2> DEFINE g == [i \in 0 .. 0 |-> body]
    <2>1. Upto(g, 0)
      OBVIOUS
    <2> HIDE DEF g
    <2> HIDE DEF Upto
    <2> QED BY <2>1
  <1>2. ASSUME NEW k \in 1 .. N, k - 1 \in S PROVE k \in S
    <2>1. PICK g : Upto(g, k - 1)
      BY <1>2
    <2> DEFINE h == [i \in 0 .. k |-> IF i = k THEN Rename(g[k - 1], c.change[k]) ELSE g[i]]
    <2>2. ASSUME NEW i \in 0 .. k
          PROVE  h[i] = IF i = 0 THEN body ELSE Rename(h[i - 1], c.change[i])
      <3>1. \A j \in 0 .. k - 1 :
               g[j] = IF j = 0 THEN body ELSE Rename(g[j - 1], c.change[j])
        BY <2>1
      <3>2. CASE i = k
        <4>1. h[i] = Rename(g[k - 1], c.change[k]) /\ i # 0
          BY <3>2
        <4>2. h[i - 1] = g[k - 1]
          BY <3>2
        <4> QED BY <3>2, <4>1, <4>2
      <3>3. CASE i \in 0 .. k - 1
        <4>1. h[i] = g[i]
          BY <3>3
        <4>2. i # 0 => h[i - 1] = g[i - 1]
          BY <3>3
        <4> QED BY <3>1, <3>3, <4>1, <4>2
      <3> QED BY <3>2, <3>3
    <2>3. Upto(h, k)
      BY <2>2
    <2> HIDE DEF h
    <2> HIDE DEF Upto
    <2>4. k \in 0 .. N
      OBVIOUS
    <2> QED BY <2>3, <2>4
  <1> DEFINE after[i \in 0 .. N] ==
               IF i = 0 THEN body ELSE Rename(after[i - 1], c.change[i])
  <1>3. \E g : Upto(g, N)
    <2>0. N \in Nat
      OBVIOUS
    <2> HIDE DEF S
    <2> HIDE DEF N
    <2>1. \A i \in 0 .. N : i \in S
      BY <1>1, <1>2, <2>0, SetInduction
    <2>2. N \in S
      BY <2>0, <2>1
    <2> QED BY <2>2 DEF S
  <1>4. Upto(after, N)
    BY <1>3
  <1>5. Renamed(c, body) = after[N]
    BY DEF Renamed
  <1> HIDE DEF after
  <1>6. /\ after[0] = body
        /\ \A i \in 1 .. N : after[i] = Rename(after[i - 1], c.change[i])
    BY <1>4
  <1> QED BY <1>5, <1>6

\* All keys.  (The provers do not know that a literal is in STRING.)
Keys == STRING \union {"server", "dest_ip", "dest_port", "timestamp"}

Bodies == UNION {[K -> Value] : K \in SUBSET Keys}

LEMMA BodyFacts ==
    /\ \A b \in Bodies : b = [k \in DOMAIN b |-> b[k]]
    /\ \A b \in Bodies : DOMAIN b \subseteq Keys
    /\ \A b \in Bodies : \A k \in DOMAIN b : b[k] \in Value
    /\ \A K \in SUBSET Keys : \A b \in [K -> Value] : b \in Bodies
  BY DEF Bodies

LEMMA RenameIsBody ==
    ASSUME NEW body \in Bodies, NEW d \in [old : STRING, new : STRING]
    PROVE  Rename(body, d) \in Bodies
  <1> DEFINE K == (DOMAIN body \ {d.old}) \union {d.new}
  <1>1. CASE d.old \in DOMAIN body
    <2>1. Rename(body, d) \in [K -> Value]
      BY <1>1, BodyFacts DEF Rename
    <2>2. K \in SUBSET Keys
      BY BodyFacts DEF Keys
    <2> QED BY <2>1, <2>2, BodyFacts
  <1>2. CASE d.old \notin DOMAIN body
    BY <1>2 DEF Rename
  <1> QED BY <1>1, <1>2

LEMMA ChangeFacts ==
    ASSUME NEW c, ConfigType(c)
    PROVE  /\ Len(c.change) \in Nat /\ DOMAIN c.change = 1 .. Len(c.change)
           /\ \A i \in 1 .. Len(c.change) : c.change[i] \in [old : STRING, new : STRING]
           /\ \A i, j \in 1 .. Len(c.change) : c.change[i].old = c.change[j].old => i = j
           /\ Range(c.change) = {c.change[i] : i \in 1 .. Len(c.change)}
  <1> DEFINE X == [old : STRING, new : STRING]
  <1>1. c.change \in Seq(X) /\ \A i, j \in DOMAIN c.change : c.change[i].old = c.change[j].old => i = j
    BY DEF ConfigType
  <1> HIDE DEF X
  <1>2. /\ Len(c.change) \in Nat /\ DOMAIN c.change = 1 .. Len(c.change)
        /\ \A i \in 1 .. Len(c.change) : c.change[i] \in X
    BY <1>1
  <1>3. Range(c.change) = {c.change[i] : i \in 1 .. Len(c.change)}
    BY <1>2 DEF Range
  <1> QED BY <1>1, <1>2, <1>3 DEF X

\* A renamed event is an event.
LEMMA RenamedIsBody ==
    ASSUME NEW c, ConfigType(c), NEW body \in Bodies
    PROVE  Renamed(c, body) \in Bodies
  <1> DEFINE N == Len(c.change)
  <1>1. PICK g : /\ g[0] = body /\ Renamed(c, body) = g[N]
                 /\ \A i \in 1 .. N : g[i] = Rename(g[i - 1], c.change[i])
    BY RenamedSteps, ChangeFacts
  <1> DEFINE S == {i \in 0 .. N : g[i] \in Bodies}
  <1>2. N \in Nat /\ 0 \in S
    BY <1>1, ChangeFacts
  <1>3. ASSUME NEW i \in 1 .. N, i - 1 \in S PROVE i \in S
    BY <1>1, <1>2, <1>3, ChangeFacts, RenameIsBody
  <1> HIDE DEF S
  <1> HIDE DEF N
  <1>4. \A i \in 0 .. N : i \in S
    BY <1>2, <1>3, SetInduction
  <1>5. N \in S
    BY <1>2, <1>4
  <1> QED BY <1>1, <1>5 DEF S

\* Nothing to rename, nothing changes.
LEMMA RenamedIdle ==
    ASSUME NEW c, ConfigType(c), NEW body,
           \A i \in 1 .. Len(c.change) : c.change[i].old \notin DOMAIN body
    PROVE  Renamed(c, body) = body
  <1> DEFINE N == Len(c.change)
  <1>1. PICK g : /\ g[0] = body /\ Renamed(c, body) = g[N]
                 /\ \A i \in 1 .. N : g[i] = Rename(g[i - 1], c.change[i])
    BY RenamedSteps, ChangeFacts
  <1> DEFINE S == {i \in 0 .. N : g[i] = body}
  <1>2. N \in Nat /\ 0 \in S
    BY <1>1, ChangeFacts
  <1>3. ASSUME NEW i \in 1 .. N, i - 1 \in S PROVE i \in S
    <2>1. g[i] = Rename(g[i - 1], c.change[i]) /\ i \in 0 .. N
      BY <1>1, <1>2
    <2>2. g[i - 1] = body
      BY <1>3
    <2> QED BY <2>1, <2>2 DEF Rename
  <1> HIDE DEF S
  <1> HIDE DEF N
  <1>4. \A i \in 0 .. N : i \in S
    BY <1>2, <1>3, SetInduction
  <1>5. N \in S
    BY <1>2, <1>4
  <1> QED BY <1>1, <1>5 DEF S

\* No change undoes an earlier one.
Once(c) == \A i, j \in 1 .. Len(c.change) : c.change[i].new # c.change[j].old

\* After the changes no old key is left, the new key of every old one is there, and so
\* are all other keys.
LEMMA RenamedKeys ==
    ASSUME NEW c, ConfigType(c), Once(c), NEW body
    PROVE  /\ \A i \in 1 .. Len(c.change) :
                 /\ c.change[i].old \notin DOMAIN Renamed(c, body)
                 /\ c.change[i].old \in DOMAIN body => c.change[i].new \in DOMAIN Renamed(c, body)
           /\ \A k \in DOMAIN body : (\A i \in 1 .. Len(c.change) : k # c.change[i].old)
                                        => k \in DOMAIN Renamed(c, body)
  <1> DEFINE N == Len(c.change)
             old(i) == c.change[i].old
             new(i) == c.change[i].new
  <1>1. PICK g : /\ g[0] = body /\ Renamed(c, body) = g[N]
                 /\ \A i \in 1 .. N : g[i] = Rename(g[i - 1], c.change[i])
    BY RenamedSteps, ChangeFacts
  <1> DEFINE P(i) ==
               /\ \A j \in 1 .. i : old(j) \notin DOMAIN g[i]
               /\ \A j \in 1 .. i : old(j) \in DOMAIN body => new(j) \in DOMAIN g[i]
               /\ \A j \in i + 1 .. N : old(j) \in DOMAIN body => old(j) \in DOMAIN g[i]
               /\ \A k \in DOMAIN body : (\A j \in 1 .. N : k # old(j)) => k \in DOMAIN g[i]
             S == {i \in 0 .. N : P(i)}
  <1>2. N \in Nat /\ 0 \in S
    BY <1>1, ChangeFacts
  <1>3. ASSUME NEW i \in 1 .. N, i - 1 \in S PROVE i \in S
    <2>1. /\ old(i) \in DOMAIN g[i - 1]
             => DOMAIN g[i] = (DOMAIN g[i - 1] \ {old(i)}) \union {new(i)}
          /\ old(i) \notin DOMAIN g[i - 1] => g[i] = g[i - 1]
      BY <1>1 DEF Rename
    <2>2. P(i - 1) /\ i \in 0 .. N
      BY <1>2, <1>3
    <2>3. \A j \in 1 .. N : new(i) # old(j) /\ (j # i => old(j) # old(i))
      BY ChangeFacts DEF Once
    <2> HIDE DEF old
    <2> HIDE DEF new
    <2>4. \A j \in 1 .. i : old(j) \notin DOMAIN g[i]
      BY <1>2, <2>1, <2>2, <2>3
    <2>5. \A j \in 1 .. i : old(j) \in DOMAIN body => new(j) \in DOMAIN g[i]
      <3> TAKE j \in 1 .. i
      <3> HAVE old(j) \in DOMAIN body
      <3>1. CASE j = i
        BY <1>2, <2>1, <2>2, <3>1
      <3>2. CASE j \in 1 .. i - 1
        BY <1>2, <2>1, <2>2, <2>3, <3>2 DEF new, old, Once
      <3> QED BY <1>2, <3>1, <3>2
    <2>6. \A j \in i + 1 .. N : old(j) \in DOMAIN body => old(j) \in DOMAIN g[i]
      BY <1>2, <2>1, <2>2, <2>3
    <2>7. \A k \in DOMAIN body : (\A j \in 1 .. N : k # old(j)) => k \in DOMAIN g[i]
      BY <1>2, <2>1, <2>2
    <2> QED BY <2>2, <2>4, <2>5, <2>6, <2>7
  <1> HIDE DEF S
  <1> HIDE DEF N
  <1>4. \A i \in 0 .. N : i \in S
    BY <1>2, <1>3, SetInduction
  <1>5. P(N)
    BY <1>2, <1>4 DEF S
  <1> QED BY <1>1, <1>2, <1>5 DEF N

\* No value is renamed to a key where no change asks for it.
LEMMA RenamedKey ==
    ASSUME NEW c, ConfigType(c), NEW body, NEW key,
           \A i \in 1 .. Len(c.change) : c.change[i].new # key,
           key \in DOMAIN Renamed(c, body)
    PROVE  key \in DOMAIN body /\ Renamed(c, body)[key] = body[key]
  <1> DEFINE N == Len(c.change)
  <1>1. PICK g : /\ g[0] = body /\ Renamed(c, body) = g[N]
                 /\ \A i \in 1 .. N : g[i] = Rename(g[i - 1], c.change[i])
    BY RenamedSteps, ChangeFacts
  <1> DEFINE P(i) == key \in DOMAIN g[i] =>
                        key \in DOMAIN body /\ g[i][key] = body[key]
             S == {i \in 0 .. N : P(i)}
  <1>2. N \in Nat /\ 0 \in S
    BY <1>1, ChangeFacts
  <1>3. ASSUME NEW i \in 1 .. N, i - 1 \in S PROVE i \in S
    <2>1. g[i] = Rename(g[i - 1], c.change[i]) /\ i \in 0 .. N
      BY <1>1, <1>2
    <2>2. P(i - 1)
      BY <1>3
    <2> QED BY <2>1, <2>2 DEF Rename
  <1> HIDE DEF S
  <1> HIDE DEF N
  <1>4. \A i \in 0 .. N : i \in S
    BY <1>2, <1>3, SetInduction
  <1>5. N \in S
    BY <1>2, <1>4
  <1> QED BY <1>1, <1>5 DEF S

-------------------------------------------------------------------------------
(* One handler, one event *)

Msg == [kind : {"dict", "list"}, body : Bodies, layers : Nat]

LEMMA ShortenFacts ==
    ASSUME NEW c, NEW body \in Bodies
    PROVE  /\ Shorten(c, body) \in Bodies
           /\ DOMAIN Shorten(c, body) = DOMAIN body
           /\ \A k \in DOMAIN body : k # "server" => Shorten(c, body)[k] = body[k]
  <1>1. Shorten(c, body) \in [DOMAIN body -> Value]
    BY BodyFacts DEF Shorten, Value
  <1>2. Shorten(c, body) \in Bodies
    BY <1>1, BodyFacts
  <1>3. \A k \in DOMAIN body : k # "server" => Shorten(c, body)[k] = body[k]
    BY DEF Shorten
  <1> QED BY <1>1, <1>2, <1>3

LEMMA WithoutFacts ==
    ASSUME NEW body \in Bodies, NEW keys
    PROVE  /\ Without(body, keys) \in Bodies
           /\ DOMAIN Without(body, keys) = DOMAIN body \ keys
           /\ \A k \in DOMAIN body \ keys : Without(body, keys)[k] = body[k]
  <1>1. /\ Without(body, keys) \in [DOMAIN body \ keys -> Value]
        /\ \A k \in DOMAIN body \ keys : Without(body, keys)[k] = body[k]
    BY BodyFacts DEF Without
  <1>2. DOMAIN body \ keys \in SUBSET Keys
    BY BodyFacts
  <1>3. Without(body, keys) \in Bodies
    BY <1>1, <1>2, BodyFacts
  <1> QED BY <1>1, <1>3

\* What the filter makes of the body of an event that it does not drop at once.
Filtered(c, body) == Without(Renamed(c, Shorten(c, body)), c.remove)

LEMMA FilteredFacts ==
    ASSUME NEW c, ConfigType(c), NEW body \in Bodies
    PROVE  /\ Filtered(c, body) \in Bodies
           /\ DOMAIN Filtered(c, body) = DOMAIN Renamed(c, Shorten(c, body)) \ c.remove
           /\ \A k \in DOMAIN Filtered(c, body) :
                 Filtered(c, body)[k] = Renamed(c, Shorten(c, body))[k]
  <1>1. Renamed(c, Shorten(c, body)) \in Bodies
    BY ShortenFacts, RenamedIsBody
  <1> QED BY <1>1, WithoutFacts DEF Filtered

\* A second pass of the filter finds nothing left to rename or to remove.
LEMMA FilteredTwice ==
    ASSUME NEW c, ConfigType(c), Once(c), NEW body \in Bodies
    PROVE  DOMAIN Filtered(c, Filtered(c, body)) = DOMAIN Filtered(c, body)
  <1> DEFINE b == Filtered(c, body)
             d == Shorten(c, b)
  <1>1. b \in Bodies /\ DOMAIN b = DOMAIN Renamed(c, Shorten(c, body)) \ c.remove
    BY FilteredFacts
  <1>2. d \in Bodies /\ DOMAIN d = DOMAIN b
    BY <1>1, ShortenFacts
  <1>3. \A i \in 1 .. Len(c.change) : c.change[i].old \notin DOMAIN d
    BY <1>1, <1>2, RenamedKeys
  <1>4. Renamed(c, d) = d
    BY <1>3, RenamedIdle
  <1>5. DOMAIN Filtered(c, b) = DOMAIN Renamed(c, d) \ c.remove
    BY <1>1, FilteredFacts
  <1> QED BY <1>1, <1>2, <1>4, <1>5

LEMMA ChangedFacts ==
    ASSUME NEW c, ConfigType(c), NEW m \in Msg
    PROVE  /\ Changed(c, m) \in Msg
           /\ Changed(c, m).kind = m.kind /\ Changed(c, m).layers = m.layers
           /\ ~c.filter \/ ~IsDict(m) \/ DroppedAtOnce(c, m) => Changed(c, m) = m
           /\ c.filter /\ IsDict(m) /\ ~DroppedAtOnce(c, m)
                 => Changed(c, m).body = Filtered(c, m.body)
  <1>1. m.body \in Bodies
    BY DEF Msg
  <1>2. Filtered(c, m.body) \in Bodies
    BY <1>1, FilteredFacts
  <1>3. CASE ~c.filter \/ ~IsDict(m) \/ DroppedAtOnce(c, m)
    BY <1>3 DEF Changed
  <1>4. CASE c.filter /\ IsDict(m) /\ ~DroppedAtOnce(c, m)
    <2>1. Changed(c, m) = [m EXCEPT !.body = Filtered(c, m.body)]
      BY <1>4 DEF Changed, Filtered
    <2> QED BY <1>2, <1>4, <2>1 DEF Msg
  <1> QED BY <1>3, <1>4

\* No value is left that JSON does not have.
Flat(m) == \A k \in DOMAIN m.body : m.body[k] \notin {"bytes", "none"}

LEMMA JsonFacts ==
    ASSUME NEW m \in Msg
    PROVE  /\ Json(m) \in Msg
           /\ Json(m).kind = m.kind /\ Json(m).layers = m.layers + 1
           /\ IsText(Json(m)) /\ Flat(Json(m))
           /\ DOMAIN m.body \subseteq DOMAIN Json(m).body
           /\ DOMAIN Json(m).body \subseteq DOMAIN m.body \union {"timestamp"}
           /\ IsText(m) /\ Flat(m) => Json(m).body = m.body
  <1> DEFINE flat == [k \in DOMAIN m.body |->
                         IF m.body[k] \in {"bytes", "none"} THEN "plain" ELSE m.body[k]]
             time == IF IsDict(m) THEN {"timestamp"} ELSE {}
             b == [k \in DOMAIN flat \union time |-> IF k \in DOMAIN flat THEN flat[k] ELSE "plain"]
  <1>1. Json(m) = [m EXCEPT !.layers = @ + 1, !.body = b]
    BY DEF Json
  <1>2. m.body \in Bodies /\ m.layers \in Nat
    BY DEF Msg
  <1>3. DOMAIN flat = DOMAIN m.body /\ \A k \in DOMAIN m.body : flat[k] \in Value \ {"bytes", "none"}
    BY <1>2, BodyFacts DEF Value
  <1>4. Flat(m) => flat = m.body
    BY <1>2, BodyFacts DEF Flat
  <1> HIDE DEF flat
  <1>5. /\ DOMAIN b = DOMAIN m.body \union time /\ DOMAIN b \in SUBSET Keys
        /\ \A k \in DOMAIN b : b[k] \in Value \ {"bytes", "none"}
    <2>1. DOMAIN b = DOMAIN m.body \union time
      BY <1>3
    <2>2. time \subseteq Keys /\ "plain" \in Value \ {"bytes", "none"}
      <3>1. time \subseteq Keys
        BY DEF IsDict, Keys
      <3> QED BY <3>1 DEF Value
    <2>3. DOMAIN m.body \subseteq Keys
      BY <1>2, BodyFacts
    <2>4. ASSUME NEW k \in DOMAIN b PROVE b[k] \in Value \ {"bytes", "none"}
      BY <1>3, <2>2, <2>4
    <2> QED BY <2>1, <2>2, <2>3, <2>4
  <1>6. b \in Bodies
    <2>1. b \in [DOMAIN b -> Value]
      BY <1>5
    <2> QED BY <1>5, <2>1, BodyFacts
  <1>7. time \subseteq {"timestamp"} /\ (IsText(m) => time = {})
    BY DEF IsDict
  <1>8. IsText(m) /\ Flat(m) => b = m.body
    <2>1. m.body = [k \in DOMAIN m.body |-> m.body[k]]
      BY <1>2, BodyFacts
    <2> QED BY <1>3, <1>4, <1>7, <2>1
  <1> HIDE DEF b
  <1> HIDE DEF time
  <1>9. /\ Json(m) \in Msg /\ Json(m).body = b
        /\ Json(m).kind = m.kind /\ Json(m).layers = m.layers + 1
    <2>1. m \in Msg /\ m.layers + 1 \in Nat
      BY <1>2
    <2> QED BY <1>1, <1>6, <2>1 DEF Msg
  <1>10. IsText(Json(m)) /\ Flat(Json(m))
    BY <1>2, <1>5, <1>9 DEF IsText, Flat
  <1> QED BY <1>5, <1>7, <1>8, <1>9, <1>10

\* The filter drops again what it has dropped, as it left the event.
LEMMA StaysDropped ==
    ASSUME NEW c, ConfigType(c), Once(c), NEW m \in Msg, Dropped(c, m)
    PROVE  Dropped(c, Changed(c, m))
  <1>1. CASE ~c.filter \/ ~IsDict(m) \/ DroppedAtOnce(c, m)
    BY <1>1, ChangedFacts
  <1>2. CASE c.filter /\ IsDict(m) /\ ~DroppedAtOnce(c, m)
    <2> DEFINE n == Changed(c, m)
    <2>1. /\ n \in Msg /\ IsDict(n) /\ n.body = Filtered(c, m.body)
          /\ m.body \in Bodies /\ ~(c.contains \subseteq DOMAIN n.body)
      BY <1>2, ChangedFacts DEF IsDict, IsText, Dropped, Msg
    <2>2. DOMAIN Changed(c, n).body = DOMAIN n.body
      <3>1. CASE DroppedAtOnce(c, n)
        BY <2>1, <3>1, ChangedFacts
      <3>2. CASE ~DroppedAtOnce(c, n)
        <4>1. Changed(c, n).body = Filtered(c, n.body)
          BY <1>2, <2>1, <3>2, ChangedFacts
        <4> QED BY <2>1, <4>1, FilteredTwice
      <3> QED BY <3>1, <3>2
    <2> HIDE DEF n
    <2>3. Dropped(c, n)
      BY <1>2, <2>1, <2>2 DEF Dropped
    <2> QED BY <2>3 DEF n
  <1> QED BY <1>1, <1>2

\* Options under which an event that passes once passes again.
Passes(c) ==
    /\ Once(c)
    /\ Wants(c, "remove_init") => \A i \in 1 .. Len(c.change) : c.change[i].new # "action"
    /\ Wants(c, "remove_errors") => \A i \in 1 .. Len(c.change) : c.change[i].new # "error"

LEMMA StaysKept ==
    ASSUME NEW c, ConfigType(c), Passes(c), NEW m \in Msg, ~Dropped(c, m)
    PROVE  ~Dropped(c, Changed(c, m))
  <1> DEFINE n == Changed(c, m)
  <1>1. n \in Msg /\ n.kind = m.kind /\ n.layers = m.layers
    BY ChangedFacts
  <1>4. ~Dropped(c, n)
    <2>1. CASE ~c.filter \/ ~IsDict(m)
      BY <2>1, ChangedFacts
    <2>2. CASE c.filter /\ IsDict(m)
      <3>1. ~DroppedAtOnce(c, m)
        BY DEF Dropped
      <3>2. n.body = Filtered(c, m.body) /\ IsDict(n) /\ m.body \in Bodies
        BY <1>1, <2>2, <3>1, ChangedFacts DEF IsDict, IsText, Msg
      <3> DEFINE s == Shorten(c, m.body)
      <3>7. ASSUME NEW key, \A i \in 1 .. Len(c.change) : c.change[i].new # key,
                   key \in DOMAIN n.body
            PROVE  /\ key \in DOMAIN m.body
                   /\ key # "server" => n.body[key] = m.body[key]
        <4>1. s \in Bodies /\ DOMAIN s = DOMAIN m.body
              /\ \A k \in DOMAIN s : k # "server" => s[k] = m.body[k]
          BY <3>2, ShortenFacts
        <4>2. /\ DOMAIN n.body = DOMAIN Renamed(c, s) \ c.remove
              /\ \A k \in DOMAIN n.body : n.body[k] = Renamed(c, s)[k]
          <5>1. m.body \in Bodies /\ n.body = Filtered(c, m.body)
            BY <3>2
          <5> HIDE DEF n
          <5>2. /\ DOMAIN Filtered(c, m.body) = DOMAIN Renamed(c, s) \ c.remove
                /\ \A k \in DOMAIN Filtered(c, m.body) :
                      Filtered(c, m.body)[k] = Renamed(c, s)[k]
            BY <5>1, FilteredFacts
          <5> HIDE DEF s
          <5> QED BY <5>1, <5>2
        <4>3. key \in DOMAIN Renamed(c, s) /\ n.body[key] = Renamed(c, s)[key]
          BY <3>7, <4>2
        <4>4. key \in DOMAIN s /\ Renamed(c, s)[key] = s[key]
          BY <3>7, <4>1, <4>3, RenamedKey
        <4> QED BY <4>1, <4>3, <4>4
      <3>3. ~DroppedAtOnce(c, n)
        <4>1. ASSUME Wants(c, "remove_init"), "action" \in DOMAIN n.body
              PROVE  n.body["action"] # "process"
          <5>1. \A i \in 1 .. Len(c.change) : c.change[i].new # "action"
            BY <4>1 DEF Passes
          <5>2. "action" \in DOMAIN m.body /\ n.body["action"] = m.body["action"]
            BY <3>7, <4>1, <5>1
          <5> QED BY <2>2, <3>1, <4>1, <5>2 DEF DroppedAtOnce
        <4>2. ASSUME Wants(c, "remove_errors") PROVE ~HasError(n)
          <5>1. \A i \in 1 .. Len(c.change) : c.change[i].new # "error"
            BY <4>2 DEF Passes
          <5>2. "error" \notin DOMAIN m.body
            BY <2>2, <3>1, <4>2 DEF DroppedAtOnce, HasError, IsDict
          <5>3. "error" \notin DOMAIN n.body
            BY <3>7, <5>1, <5>2
          <5> QED BY <3>2, <5>3 DEF HasError, IsDict
        <4> HIDE DEF n, s
        <4> QED BY <4>1, <4>2 DEF DroppedAtOnce
      <3>4. Changed(c, n).body = Filtered(c, n.body)
        BY <1>1, <2>2, <3>2, <3>3, ChangedFacts
      <3>5. DOMAIN Changed(c, n).body = DOMAIN n.body
        BY <3>2, <3>4, FilteredTwice DEF Passes
      <3>6. c.contains \subseteq DOMAIN n.body
        BY <2>2 DEF Dropped
      <3> HIDE DEF n
      <3> QED BY <3>3, <3>5, <3>6 DEF Dropped
    <2> QED BY <2>1, <2>2
  <1> QED BY <1>4

\* What the filter does with a text: it asks it for the word, and for nothing else.
LEMMA TextIsAsked ==
    ASSUME NEW c, NEW m, IsText(m)
    PROVE  Dropped(c, m) <=> Wants(c, "remove_errors") /\ HasError(m)
  BY DEF Dropped, DroppedAtOnce, IsDict

-------------------------------------------------------------------------------
(* What the handlers do to the record and to the sinks *)

LEMMA HandlesFacts ==
    /\ Handles("sqlite") <=> "db_sqlite" \in config.logs
    /\ Handles("terminal") <=> "terminal" \in config.logs
    /\ Handles("file") <=> "file" \in config.logs
    /\ Handles("syslog") <=> "syslog" \in config.logs /\ config.address
  BY Zenon DEF Handles

LEMMA Written ==
    ASSUME out \in [Sinks -> Seq(Msg)], NEW s \in Sinks, NEW m \in Msg, Write(s, m)
    PROVE  /\ out' \in [Sinks -> Seq(Msg)]
           /\ \A r \in Sinks \ {s} : out'[r] = out[r]
           /\ Range(out'[s]) = Range(out[s]) \union {m} /\ out'[s] # <<>>
  <1>1. /\ out[s] \in Seq(Msg) /\ out'[s] = Append(out[s], m)
        /\ \A r \in Sinks \ {s} : out'[r] = out[r]
    BY DEF Write
  <1>2. /\ Append(out[s], m) \in Seq(Msg) /\ Append(out[s], m) # <<>>
        /\ Range(Append(out[s], m)) = Range(out[s]) \union {m}
    <2> DEFINE q == out[s]
    <2>1. q \in Seq(Msg)
      BY <1>1
    <2> HIDE DEF q
    <2>2. /\ Append(q, m) \in Seq(Msg) /\ Len(Append(q, m)) = Len(q) + 1
          /\ \A i \in 1 .. Len(q) : Append(q, m)[i] = q[i]
          /\ Append(q, m)[Len(q) + 1] = m
          /\ Len(q) \in Nat /\ DOMAIN q = 1 .. Len(q)
          /\ DOMAIN Append(q, m) = 1 .. Len(q) + 1
      BY <2>1
    <2>3. Range(Append(q, m)) = Range(q) \union {m}
      <3>1. ASSUME NEW x \in Range(Append(q, m)) PROVE x \in Range(q) \union {m}
        BY <2>2, <3>1 DEF Range
      <3>2. ASSUME NEW x \in Range(q) \union {m} PROVE x \in Range(Append(q, m))
        BY <2>2, <3>2 DEF Range
      <3> QED BY <3>1, <3>2
    <2> QED BY <2>1, <2>2, <2>3 DEF q
  <1>3. out' \in [Sinks -> Seq(Msg)]
    BY <1>1, <1>2 DEF Write
  <1> QED BY <1>1, <1>2, <1>3

\* The four things a handler may do.
Skips == msg' = msg /\ out' = out
Drops == msg' = Changed(config, msg) /\ out' = out
Shows(s) == /\ ~Dropped(config, msg)
            /\ msg' \in {Changed(config, msg), Json(Changed(config, msg))}
            /\ Write(s, msg')
Forwards == msg' = msg /\ Write("syslog", msg)

Shown == {"stdout", "file", "sqlite"}

LEMMA WhatHandlersDo ==
    ASSUME LogNext
    PROVE  /\ config' = config /\ event' = event /\ step' \in Range(Steps)
           /\ Skips \/ Drops \/ (\E s \in Shown : Shows(s)) \/ Forwards
  <1>1. \A s \in {"terminal", "print", "file", "syslog", "done"} : s \in Range(Steps)
    <2>1. /\ DOMAIN Steps = 1 .. 6 /\ Steps[2] = "terminal" /\ Steps[3] = "print"
          /\ Steps[4] = "file" /\ Steps[5] = "syslog" /\ Steps[6] = "done"
      BY DEF Steps
    <2> QED BY <2>1 DEF Range
  <1>2. CASE SqliteBranch
    BY <1>1, <1>2 DEF SqliteBranch, Goto, Skips, Drops, Shows, Shown
  <1>3. CASE SqliteLocked
    BY <1>1, <1>3 DEF SqliteLocked, Goto, Drops
  <1>4. CASE TerminalBranch
    BY <1>1, <1>4 DEF TerminalBranch, ToStdout, Goto, Skips, Drops, Shows, Shown
  <1>5. CASE SyslogBranch
    BY <1>1, <1>5 DEF SyslogBranch, ToStdout, Goto, Skips, Drops, Shows, Shown
  <1>6. CASE FileHandler
    BY <1>1, <1>6 DEF FileHandler, Goto, Skips, Drops, Shows, Shown
  <1>7. CASE SyslogHandler
    BY <1>1, <1>7 DEF SyslogHandler, Goto, Skips, Forwards
  <1> QED BY <1>2, <1>3, <1>4, <1>5, <1>6, <1>7 DEF LogNext

-------------------------------------------------------------------------------
(* Types *)

TypeInv ==
    /\ config \in Configs /\ event \in Events
    /\ msg \in Msg /\ msg.kind = event.kind
    /\ step \in Range(Steps)
    /\ out \in [Sinks -> Seq(Msg)]

LEMMA OriginalIsMsg ==
    ASSUME event \in Events
    PROVE  Original \in Msg /\ Original.kind = event.kind /\ ~IsText(Original)
  <1> DEFINE K == DOMAIN event.body \union {"server", "dest_ip", "dest_port"}
  <1>1. /\ event.kind \in {"dict", "list"} /\ event.body \in [DOMAIN event.body -> Value]
        /\ DOMAIN event.body \in SUBSET Keys
    BY PipelineAssumption DEF Keys
  <1>2. Stamped(event) \in Bodies
    <2>1. CASE event.kind = "dict"
      <3>1. Stamped(event) \in [K -> Value]
        BY <1>1, <2>1 DEF Stamped, Value
      <3>2. K \in SUBSET Keys
        BY <1>1 DEF Keys
      <3> QED BY <3>1, <3>2, BodyFacts
    <2>2. CASE event.kind # "dict"
      BY <1>1, <2>2, BodyFacts DEF Stamped
    <2> QED BY <2>1, <2>2
  <1> QED BY <1>1, <1>2 DEF Original, Msg, IsText

LEMMA TypeInvInit == LogInit => TypeInv
  <1> SUFFICES ASSUME LogInit PROVE TypeInv
    OBVIOUS
  <1>1. msg = Original /\ event \in Events
    BY DEF LogInit, Original
  <1>2. msg \in Msg /\ msg.kind = event.kind
    BY <1>1, OriginalIsMsg
  <1>3. step \in Range(Steps)
    <2>1. DOMAIN Steps = 1 .. 6 /\ Steps[1] = "sqlite"
      BY DEF Steps
    <2> QED BY <2>1 DEF Range, LogInit
  <1>4. out \in [Sinks -> Seq(Msg)]
    <2>1. <<>> \in Seq(Msg)
      OBVIOUS
    <2> QED BY <2>1 DEF LogInit
  <1> QED BY <1>2, <1>3, <1>4 DEF TypeInv, LogInit

LEMMA TypeInvStep == TypeInv /\ [LogNext]_logVars => TypeInv'
  <1> SUFFICES ASSUME TypeInv, [LogNext]_logVars PROVE TypeInv'
    OBVIOUS
  <1>1. CASE UNCHANGED logVars
    BY <1>1 DEF TypeInv, logVars
  <1>2. CASE LogNext
    <2>1. /\ config' = config /\ event' = event /\ step' \in Range(Steps)
          /\ Skips \/ Drops \/ (\E s \in Shown : Shows(s)) \/ Forwards
      BY <1>2, WhatHandlersDo
    <2>2. ConfigType(config) /\ config \in Configs
      BY PipelineAssumption DEF TypeInv
    <2>3. /\ Changed(config, msg) \in Msg /\ Changed(config, msg).kind = event.kind
          /\ Json(Changed(config, msg)) \in Msg /\ Json(Changed(config, msg)).kind = event.kind
      BY <2>2, ChangedFacts, JsonFacts DEF TypeInv
    <2>4. msg' \in Msg /\ msg'.kind = event.kind
      BY <2>1, <2>3 DEF Skips, Drops, Shows, Forwards, TypeInv
    <2>5. out' \in [Sinks -> Seq(Msg)]
      <3>1. CASE Skips \/ Drops
        BY <3>1 DEF Skips, Drops, TypeInv
      <3>2. CASE \E s \in Shown : Shows(s)
        BY <2>4, <3>2, Written DEF Shows, Shown, Sinks, TypeInv
      <3>3. CASE Forwards
        BY <2>4, <3>3, Written DEF Forwards, Sinks, TypeInv
      <3> QED BY <2>1, <3>1, <3>2, <3>3
    <2> QED BY <2>1, <2>2, <2>4, <2>5 DEF TypeInv
  <1> QED BY <1>1, <1>2

LEMMA TypeInvHolds == LogSpec => []TypeInv
  BY TypeInvInit, TypeInvStep, PTL DEF LogSpec

\* The handlers keep the event an event, whatever a filter renames or removes: what they
\* hand on has the kind of what was logged and values json.dumps has a text for.
THEOREM TypeCorrect == LogSpec => []LogTypeOK
  <1>1. TypeInv => LogTypeOK
    <2> SUFFICES ASSUME TypeInv PROVE LogTypeOK
      OBVIOUS
    <2>1. msg.body \in Bodies /\ msg.layers \in Nat
      BY DEF TypeInv, Msg
    <2> QED BY <2>1, BodyFacts DEF LogTypeOK, TypeInv
  <1> QED BY <1>1, TypeInvHolds, PTL

-------------------------------------------------------------------------------
(* What a filter drops, and what it lets pass *)

LEMMA OnePassFacts ==
    ASSUME ConfigType(config)
    PROVE  /\ OnePass <=> Once(config)
           /\ OnePass /\ NamesAreKept <=> Passes(config)
  <1>1. Range(config.change) = {config.change[i] : i \in 1 .. Len(config.change)}
    BY ChangeFacts
  <1> DEFINE K == Range(config.change)
  <1>2. /\ \A c \in K : \E i \in 1 .. Len(config.change) : c = config.change[i]
        /\ \A i \in 1 .. Len(config.change) : config.change[i] \in K
    BY <1>1
  <1>3. OnePass <=> \A c, d \in K : c.new # d.old
    BY DEF OnePass
  <1>6. NamesAreKept <=> \A c \in K : (Wants(config, "remove_init") => c.new # "action")
                                      /\ (Wants(config, "remove_errors") => c.new # "error")
    BY DEF NamesAreKept
  <1> HIDE DEF K
  <1>7. NamesAreKept <=> (Wants(config, "remove_init") => \A c \in K : c.new # "action")
                         /\ (Wants(config, "remove_errors") => \A c \in K : c.new # "error")
    BY <1>6
  <1>4. OnePass <=> Once(config)
    BY <1>2, <1>3 DEF Once
  <1>5. \A x : (\A c \in K : c.new # x)
                   <=> (\A i \in 1 .. Len(config.change) : config.change[i].new # x)
    BY <1>2
  <1> QED BY <1>4, <1>5, <1>7 DEF Passes

DroppedInv ==
    Once(config) /\ Dropped(config, Original) =>
        Dropped(config, msg) /\ \A s \in Shown : out[s] = <<>>

\* Original, when it is fixed: the event never changes.
OriginalOf(e) == [kind |-> e.kind, body |-> Stamped(e), layers |-> 0]

LEMMA DroppedInvStep == TypeInv /\ DroppedInv /\ [LogNext]_logVars => DroppedInv'
  <1> SUFFICES ASSUME TypeInv, DroppedInv, [LogNext]_logVars PROVE DroppedInv'
    OBVIOUS
  <1> DEFINE o == OriginalOf(event)
  <1>1. /\ DroppedInv <=> (Once(config) /\ Dropped(config, o) =>
                             Dropped(config, msg) /\ \A s \in Shown : out[s] = <<>>)
        /\ config' = config /\ event' = event =>
              (DroppedInv' <=> (Once(config) /\ Dropped(config, o) =>
                                  Dropped(config, msg') /\ \A s \in Shown : out'[s] = <<>>))
    BY DEF DroppedInv, Original, OriginalOf
  <1> HIDE DEF o
  <1>2. CASE UNCHANGED logVars
    BY <1>1, <1>2 DEF logVars
  <1>3. CASE LogNext
    <2>1. /\ config' = config /\ event' = event
          /\ Skips \/ Drops \/ (\E s \in Shown : Shows(s)) \/ Forwards
      BY <1>3, WhatHandlersDo
    <2>2. ConfigType(config) /\ msg \in Msg
      BY PipelineAssumption DEF TypeInv
    <2>3. SUFFICES ASSUME Once(config), Dropped(config, o)
                   PROVE  Dropped(config, msg') /\ \A s \in Shown : out'[s] = <<>>
      BY <1>1, <2>1
    <2>4. Dropped(config, msg) /\ \A s \in Shown : out[s] = <<>>
      BY <1>1, <2>3
    <2>5. CASE Skips
      BY <2>4, <2>5 DEF Skips
    <2>6. CASE Drops
      BY <2>2, <2>3, <2>4, <2>6, StaysDropped DEF Drops
    <2>7. CASE \E s \in Shown : Shows(s)
      BY <2>4, <2>7 DEF Shows
    <2>8. CASE Forwards
      BY <2>2, <2>4, <2>8, Written DEF Forwards, Shown, Sinks, TypeInv
    <2> QED BY <2>1, <2>5, <2>6, <2>7, <2>8
  <1> QED BY <1>2, <1>3

\* An event the filter drops is shown by no handler that filters: it is still dropped in
\* the shape an earlier handler has left it in.
THEOREM DroppedIsDropped == LogSpec => []DroppedEverywhere
  <1>1. LogInit => DroppedInv
    BY DEF LogInit, DroppedInv, Original, Shown, Sinks
  <1>2. TypeInv /\ DroppedInv => DroppedEverywhere
    <2>1. TypeInv => ConfigType(config)
      BY PipelineAssumption DEF TypeInv
    <2> QED BY <2>1, OnePassFacts DEF DroppedInv, DroppedEverywhere, Shown, Sinks
  <1> QED BY <1>1, <1>2, DroppedInvStep, TypeInvHolds, PTL DEF LogSpec

\* What a sink may show of an event, and what an event keeps until it is shown.
Clean(c, e, m) ==
    /\ \A i \in 1 .. Len(c.change) :
          /\ c.change[i].old \notin DOMAIN m.body \ {"timestamp"}
          /\ c.change[i].old \in DOMAIN e.body => c.change[i].new \in DOMAIN m.body \union c.remove
    /\ c.remove \intersect DOMAIN m.body \subseteq {"timestamp"}
    /\ c.contains \subseteq DOMAIN m.body

Keeps(c, e, m) ==
    \A i \in 1 .. Len(c.change) : c.change[i].old \in DOMAIN e.body =>
        c.change[i].old \in DOMAIN m.body \/ c.change[i].new \in DOMAIN m.body \union c.remove

FilterInv ==
    Once(config) /\ config.filter /\ event.kind = "dict" =>
        /\ IsText(msg) => Clean(config, event, msg)
        /\ ~IsText(msg) => Keeps(config, event, msg)
        /\ \A s \in Shown : \A m \in Range(out[s]) : Clean(config, event, m)

\* One pass of the filter over a dict: it keeps what must be kept, and cleans what it
\* does not drop.
LEMMA FilterPass ==
    ASSUME NEW c, ConfigType(c), Once(c), c.filter, NEW e, NEW m \in Msg, IsDict(m),
           Keeps(c, e, m)
    PROVE  /\ Keeps(c, e, Changed(c, m))
           /\ ~Dropped(c, m) => Clean(c, e, Changed(c, m)) /\ Clean(c, e, Json(Changed(c, m)))
  <1> DEFINE n == Changed(c, m)
  <1>1. n \in Msg
    BY ChangedFacts
  <1>2. CASE DroppedAtOnce(c, m)
    BY <1>2, ChangedFacts DEF Dropped
  <1>3. CASE ~DroppedAtOnce(c, m)
    <2> DEFINE s == Shorten(c, m.body)
               r == Renamed(c, s)
    <2>1. m.body \in Bodies /\ n.body = Filtered(c, m.body)
      BY <1>3, ChangedFacts DEF Msg
    <2>2. s \in Bodies /\ DOMAIN s = DOMAIN m.body
      BY <2>1, ShortenFacts
    <2>3. DOMAIN n.body = DOMAIN r \ c.remove
      <3>1. DOMAIN Filtered(c, m.body) = DOMAIN r \ c.remove
        BY <2>1, FilteredFacts
      <3> HIDE DEF n
      <3> QED BY <2>1, <3>1
    <2>4. /\ \A i \in 1 .. Len(c.change) :
                /\ c.change[i].old \notin DOMAIN r
                /\ c.change[i].old \in DOMAIN m.body => c.change[i].new \in DOMAIN r
          /\ \A k \in DOMAIN m.body :
                (\A i \in 1 .. Len(c.change) : k # c.change[i].old) => k \in DOMAIN r
      BY <2>2, RenamedKeys
    <2> HIDE DEF r
    <2> HIDE DEF n
    <2>5. \A i \in 1 .. Len(c.change) :
             /\ c.change[i].old \notin DOMAIN n.body
             /\ c.change[i].old \in DOMAIN e.body => c.change[i].new \in DOMAIN n.body \union c.remove
      <3> TAKE i \in 1 .. Len(c.change)
      <3>1. \A j \in 1 .. Len(c.change) : c.change[i].new # c.change[j].old
        BY DEF Once
      <3>2. c.change[i].new \in DOMAIN m.body => c.change[i].new \in DOMAIN r
        BY <2>4, <3>1
      <3>3. c.change[i].old \in DOMAIN e.body => c.change[i].new \in DOMAIN r \union c.remove
        BY <2>4, <3>2 DEF Keeps
      <3> QED BY <2>3, <2>4, <3>3
    <2>6. Keeps(c, e, n)
      BY <2>5 DEF Keeps
    <2>7. ASSUME ~Dropped(c, m) PROVE Clean(c, e, n) /\ Clean(c, e, Json(n))
      <3>1. c.contains \subseteq DOMAIN n.body
        BY <2>7 DEF Dropped, n
      <3>2. c.remove \intersect DOMAIN n.body = {}
        BY <2>3
      <3>3. Clean(c, e, n)
        BY <2>5, <3>1, <3>2 DEF Clean
      <3>4. /\ DOMAIN n.body \subseteq DOMAIN Json(n).body
            /\ DOMAIN Json(n).body \subseteq DOMAIN n.body \union {"timestamp"}
        BY <1>1, JsonFacts
      <3>5. Clean(c, e, Json(n))
        <4> DEFINE d == DOMAIN Json(n).body
        <4>1. \A i \in 1 .. Len(c.change) :
                 /\ c.change[i].old \notin d \ {"timestamp"}
                 /\ c.change[i].old \in DOMAIN e.body => c.change[i].new \in d \union c.remove
          BY <2>5, <3>4
        <4>2. c.remove \intersect d \subseteq {"timestamp"} /\ c.contains \subseteq d
          BY <3>1, <3>2, <3>4
        <4> QED BY <4>1, <4>2 DEF Clean
      <3> QED BY <3>3, <3>5
    <2> QED BY <2>6, <2>7 DEF n
  <1> QED BY <1>2, <1>3

\* The same for a text: no handler touches it, but it may get a layer.
LEMMA TextPass ==
    ASSUME NEW c, ConfigType(c), NEW m \in Msg, IsText(m)
    PROVE  /\ Changed(c, m) = m
           /\ DOMAIN Json(m).body = DOMAIN m.body
           /\ Flat(m) => Json(m).body = m.body
           /\ IsText(Json(m)) /\ Flat(Json(m))
  <1>1. Changed(c, m) = m
    BY ChangedFacts DEF IsDict
  <1>2. DOMAIN Json(m).body = DOMAIN m.body
    BY DEF Json, IsDict
  <1> QED BY <1>1, <1>2, JsonFacts

LEMMA FilterInvInit == LogInit /\ TypeInv => FilterInv
  <1> SUFFICES ASSUME LogInit, TypeInv PROVE FilterInv
    OBVIOUS
  <1>1. msg = Original /\ event \in Events /\ \A s \in Shown : out[s] = <<>>
    BY DEF LogInit, Original, Shown, Sinks
  <1>2. ~IsText(msg)
    BY <1>1, OriginalIsMsg
  <1>3. \A s \in Shown : Range(out[s]) = {}
    BY <1>1 DEF Range
  <1>4. event.kind = "dict" => DOMAIN event.body \subseteq DOMAIN msg.body
    BY <1>1 DEF Original, Stamped
  <1> QED BY <1>2, <1>3, <1>4 DEF FilterInv, Keeps

LEMMA FilterInvStep == TypeInv /\ FilterInv /\ [LogNext]_logVars => FilterInv'
  <1> SUFFICES ASSUME TypeInv, FilterInv, [LogNext]_logVars PROVE FilterInv'
    OBVIOUS
  <1> DEFINE Inv(m, o) == /\ IsText(m) => Clean(config, event, m)
                          /\ ~IsText(m) => Keeps(config, event, m)
                          /\ \A s \in Shown : \A n \in Range(o[s]) : Clean(config, event, n)
  <1>1. CASE UNCHANGED logVars
    BY <1>1 DEF logVars, FilterInv, Clean, Keeps, IsText
  <1>2. CASE LogNext
    <2>1. /\ config' = config /\ event' = event
          /\ Skips \/ Drops \/ (\E s \in Shown : Shows(s)) \/ Forwards
      BY <1>2, WhatHandlersDo
    <2>2. SUFFICES ASSUME Once(config), config.filter, event.kind = "dict"
                   PROVE  Inv(msg', out')
      BY <2>1 DEF FilterInv, Once, Clean, Keeps, IsText
    <2>3. Inv(msg, out)
      BY <2>2 DEF FilterInv
    <2>4. ConfigType(config) /\ msg \in Msg /\ msg.kind = "dict" /\ msg.layers \in Nat
      BY <2>2, PipelineAssumption DEF TypeInv, Msg
    <2>5. /\ IsText(Changed(config, msg)) => Clean(config, event, Changed(config, msg))
          /\ ~IsText(Changed(config, msg)) => Keeps(config, event, Changed(config, msg))
          /\ ~Dropped(config, msg) => /\ Clean(config, event, Changed(config, msg))
                                      /\ Clean(config, event, Json(Changed(config, msg)))
                                      /\ IsText(Json(Changed(config, msg)))
      <3>1. CASE IsText(msg)
        <4>1. Changed(config, msg) = msg /\ IsText(Json(msg)) /\ DOMAIN Json(msg).body = DOMAIN msg.body
          BY <2>4, <3>1, TextPass
        <4>2. Clean(config, event, msg) => Clean(config, event, Json(msg))
          BY <4>1 DEF Clean
        <4> QED BY <2>3, <3>1, <4>1, <4>2
      <3>2. CASE ~IsText(msg)
        <4>1. IsDict(msg) /\ Keeps(config, event, msg)
          BY <2>3, <2>4, <3>2 DEF IsDict
        <4>2. /\ Changed(config, msg) \in Msg /\ Changed(config, msg).layers = msg.layers
              /\ IsText(Json(Changed(config, msg)))
          BY <2>4, ChangedFacts, JsonFacts
        <4>3. ~IsText(Changed(config, msg))
          BY <3>2, <4>2 DEF IsText
        <4> QED BY <2>2, <2>4, <4>1, <4>2, <4>3, FilterPass
      <3> QED BY <3>1, <3>2
    <2>6. CASE Skips
      BY <2>3, <2>6 DEF Skips
    <2>7. CASE Drops
      BY <2>3, <2>5, <2>7 DEF Drops
    <2>8. CASE \E s \in Shown : Shows(s)
      <3>1. PICK s \in Shown : Shows(s)
        BY <2>8
      <3>2. /\ Clean(config, event, msg')
            /\ ~IsText(msg') => Keeps(config, event, msg')
        BY <2>5, <3>1 DEF Shows
      <3>3. msg' \in Msg /\ s \in Sinks /\ Shown \subseteq Sinks
        BY <2>4, <3>1, ChangedFacts, JsonFacts DEF Shows, Shown, Sinks
      <3>4. /\ \A r \in Shown \ {s} : out'[r] = out[r]
            /\ Range(out'[s]) = Range(out[s]) \union {msg'}
        BY <3>1, <3>3, Written DEF Shows, TypeInv
      <3> QED BY <2>3, <3>2, <3>4
    <2>9. CASE Forwards
      <3>1. \A r \in Shown : out'[r] = out[r]
        BY <2>4, <2>9, Written DEF Forwards, Shown, Sinks, TypeInv
      <3> QED BY <2>3, <2>9, <3>1 DEF Forwards
    <2> QED BY <2>1, <2>6, <2>7, <2>8, <2>9
  <1> QED BY <1>1, <1>2

\* Terminal, file and database show a filtered event: no replaced or removed key is left but
\* the timestamp of the text, no renamed value is missing, all required keys are there.
THEOREM FilteredIsClean == LogSpec => []FilterReachesSinks
  <1>1. TypeInv /\ FilterInv => FilterReachesSinks
    <2> SUFFICES ASSUME TypeInv, FilterInv, OnePass, config.filter, event.kind = "dict",
                        NEW s \in Shown, NEW m \in Range(out[s])
                 PROVE  /\ \A c \in Range(config.change) :
                              /\ c.old \notin DOMAIN m.body \ {"timestamp"}
                              /\ c.old \in DOMAIN event.body =>
                                    c.new \in DOMAIN m.body \union config.remove
                        /\ config.remove \intersect DOMAIN m.body \subseteq {"timestamp"}
                        /\ config.contains \subseteq DOMAIN m.body
      BY DEF FilterReachesSinks, Entries, Shown
    <2>1. ConfigType(config)
      BY PipelineAssumption DEF TypeInv
    <2>2. Clean(config, event, m)
      BY <2>1, OnePassFacts DEF FilterInv
    <2>3. Range(config.change) = {config.change[i] : i \in 1 .. Len(config.change)}
      BY <2>1, ChangeFacts
    <2>4. \A c \in Range(config.change) : \E i \in 1 .. Len(config.change) : c = config.change[i]
      BY <2>3
    <2> QED BY <2>2, <2>4 DEF Clean
  <1> QED BY <1>1, FilterInvInit, FilterInvStep, TypeInvHolds, PTL DEF LogSpec

-------------------------------------------------------------------------------
(* The file and the terminal *)

\* Dumped so often when the file's handler gets it.
Screens == IF Handles("print") THEN 2 ELSE 1

FileInv ==
    Once(config) /\ {"terminal", "file"} \subseteq config.logs =>
        /\ step \in {"sqlite", "terminal"} => ~IsText(msg) /\ Range(out["file"]) = {}
        /\ IsText(msg) => Flat(msg) /\ \E t \in Range(out["stdout"]) : msg.body = t.body
        /\ step \notin {"sqlite", "terminal"} => IsText(msg) \/ Dropped(config, msg)
        /\ step = "print" /\ IsText(msg) => msg.layers = 1
        /\ step = "file" /\ IsText(msg) => msg.layers = Screens \/ Dropped(config, msg)
        /\ \A m \in Range(out["file"]) :
              m.layers = Dumps /\ \E t \in Range(out["stdout"]) : m.body = t.body

LEMMA FileInvStep == TypeInv /\ FileInv /\ [LogNext]_logVars => FileInv'
  <1> SUFFICES ASSUME TypeInv, FileInv, [LogNext]_logVars PROVE FileInv'
    OBVIOUS
  <1> DEFINE Inv(m, s, o) ==
               /\ s \in {"sqlite", "terminal"} => ~IsText(m) /\ Range(o["file"]) = {}
               /\ IsText(m) => Flat(m) /\ \E t \in Range(o["stdout"]) : m.body = t.body
               /\ s \notin {"sqlite", "terminal"} => IsText(m) \/ Dropped(config, m)
               /\ s = "print" /\ IsText(m) => m.layers = 1
               /\ s = "file" /\ IsText(m) => m.layers = Screens \/ Dropped(config, m)
               /\ \A x \in Range(o["file"]) :
                     x.layers = Dumps /\ \E t \in Range(o["stdout"]) : x.body = t.body
  <1>1. FileInv <=> (Once(config) /\ {"terminal", "file"} \subseteq config.logs => Inv(msg, step, out))
    BY DEF FileInv
  <1>2. config' = config =>
          (FileInv' <=> (Once(config) /\ {"terminal", "file"} \subseteq config.logs
                           => Inv(msg', step', out')))
    BY DEF FileInv, IsText, Flat, Dumps, Screens, Handles, Wants, Dropped
  <1>3. CASE UNCHANGED logVars
    BY <1>1, <1>2, <1>3 DEF logVars
  <1>4. CASE LogNext
    <2>1. config' = config
      BY <1>4, WhatHandlersDo
    <2>2. SUFFICES ASSUME Once(config), {"terminal", "file"} \subseteq config.logs
                   PROVE  Inv(msg', step', out')
      BY <1>2, <2>1
    <2>3. Inv(msg, step, out)
      BY <1>1, <2>2
    <2>4. /\ ConfigType(config) /\ msg \in Msg /\ Handles("terminal") /\ Handles("file")
          /\ out \in [Sinks -> Seq(Msg)] /\ {"stdout", "file", "sqlite", "syslog"} \subseteq Sinks
      BY <2>2, PipelineAssumption, HandlesFacts DEF TypeInv, Sinks
    <2> DEFINE n == Changed(config, msg)
    <2>5. /\ n \in Msg /\ n.layers = msg.layers /\ Json(n) \in Msg
          /\ IsText(Json(n)) /\ Flat(Json(n))
          /\ IsText(msg) => n = msg /\ (Flat(msg) => Json(msg).body = msg.body)
          /\ Dropped(config, msg) => Dropped(config, n)
      BY <2>2, <2>4, ChangedFacts, JsonFacts, TextPass, StaysDropped
    <2>6. IsText(n) <=> IsText(msg)
      BY <2>5 DEF IsText
    <2>12. /\ Json(n).layers = msg.layers + 1 /\ msg.layers \in Nat /\ n.layers = msg.layers
           /\ ~IsText(msg) => msg.layers = 0
      <3>1. msg.layers \in Nat
        BY <2>4 DEF Msg
      <3>2. Json(n).layers = n.layers + 1
        BY <2>5, JsonFacts
      <3> HIDE DEF n
      <3> QED BY <2>5, <3>1, <3>2 DEF IsText
    <2> HIDE DEF n
    <2>7. CASE SqliteBranch \/ SqliteLocked
      <3>1. step = "sqlite" /\ step' = "terminal" /\ (msg' = msg \/ msg' = n)
        BY <2>7 DEF SqliteBranch, SqliteLocked, Goto, n
      <3>2. out' = out \/ Write("sqlite", msg')
        BY <2>7 DEF SqliteBranch, SqliteLocked
      <3>3. out'["file"] = out["file"]
        BY <2>4, <2>5, <3>1, <3>2, Written
      <3> QED BY <2>3, <2>6, <3>1, <3>3
    <2>8. CASE TerminalBranch
      <3>1. step = "terminal" /\ step' = "print"
        BY <2>8 DEF TerminalBranch, Goto
      <3>2. CASE Dropped(config, msg)
        <4>1. msg' = n /\ out' = out
          BY <2>4, <2>8, <3>2 DEF TerminalBranch, ToStdout, n
        <4> QED BY <2>3, <2>5, <2>6, <3>1, <3>2, <4>1
      <3>3. CASE ~Dropped(config, msg)
        <4>1. msg' = Json(n) /\ Write("stdout", msg')
          BY <2>4, <2>8, <3>3 DEF TerminalBranch, ToStdout, n
        <4>2. /\ out'["file"] = out["file"]
              /\ Range(out'["stdout"]) = Range(out["stdout"]) \union {msg'}
          BY <2>4, <2>5, <4>1, Written
        <4>3. msg'.layers = 1
          BY <2>3, <2>12, <3>1, <4>1
        <4> QED BY <2>3, <2>5, <3>1, <4>1, <4>2, <4>3
      <3> QED BY <3>2, <3>3
    <2>9. CASE SyslogBranch
      <3>1. step = "print" /\ step' = "file"
        BY <2>9 DEF SyslogBranch, Goto
      <3>2. CASE ~Handles("print")
        <4>1. msg' = msg /\ out' = out
          BY <2>9, <3>2 DEF SyslogBranch, ToStdout
        <4> QED BY <2>3, <3>1, <3>2, <4>1 DEF Screens
      <3>3. CASE Dropped(config, msg) /\ Handles("print")
        <4>1. msg' = n /\ out' = out
          BY <2>9, <3>3 DEF SyslogBranch, ToStdout, n
        <4> QED BY <2>3, <2>5, <2>6, <3>1, <3>3, <4>1
      <3>4. CASE ~Dropped(config, msg) /\ Handles("print")
        <4>1. msg' = Json(n) /\ Write("stdout", msg')
          BY <2>9, <3>4 DEF SyslogBranch, ToStdout, n
        <4>2. /\ out'["file"] = out["file"]
              /\ Range(out'["stdout"]) = Range(out["stdout"]) \union {msg'}
          BY <2>4, <2>5, <4>1, Written
        <4>3. msg'.layers = Screens
          BY <2>3, <2>12, <3>1, <3>4, <4>1 DEF Screens
        <4> QED BY <2>3, <2>5, <3>1, <4>1, <4>2, <4>3
      <3> QED BY <3>2, <3>3, <3>4
    <2>10. CASE FileHandler
      <3>1. step = "file" /\ step' = "syslog"
        BY <2>10 DEF FileHandler, Goto
      <3>2. CASE Dropped(config, msg)
        <4>1. msg' = n /\ out' = out
          BY <2>4, <2>10, <3>2 DEF FileHandler, n
        <4> QED BY <2>3, <2>5, <2>6, <3>1, <3>2, <4>1
      <3>3. CASE ~Dropped(config, msg)
        <4>1. /\ msg' = IF Wants(config, "dump_json_to_file") THEN Json(n) ELSE n
              /\ Write("file", msg')
          BY <2>4, <2>10, <3>3 DEF FileHandler, n
        <4>2. IsText(msg) /\ n = msg /\ Flat(msg) /\ \E t \in Range(out["stdout"]) : msg.body = t.body
          BY <2>3, <2>5, <3>1, <3>3
        <4>3. IsText(msg') /\ Flat(msg') /\ msg'.body = msg.body
          BY <2>5, <4>1, <4>2
        <4>4. /\ out'["stdout"] = out["stdout"]
              /\ Range(out'["file"]) = Range(out["file"]) \union {msg'}
          BY <2>4, <2>5, <4>1, Written
        <4>5. msg'.layers = Dumps
          BY <2>3, <2>12, <3>1, <3>3, <4>1, <4>2 DEF Dumps, Screens
        <4> QED BY <2>3, <3>1, <4>2, <4>3, <4>4, <4>5
      <3> QED BY <3>2, <3>3
    <2>11. CASE SyslogHandler
      <3>1. step = "syslog" /\ step' = "done" /\ msg' = msg
        BY <2>11 DEF SyslogHandler, Goto
      <3>2. out' = out \/ Write("syslog", msg)
        BY <2>11 DEF SyslogHandler
      <3>3. out'["file"] = out["file"] /\ out'["stdout"] = out["stdout"]
        BY <2>4, <3>2, Written
      <3> QED BY <2>3, <3>1, <3>3
    <2> QED BY <1>4, <2>7, <2>8, <2>9, <2>10, <2>11 DEF LogNext
  <1> QED BY <1>3, <1>4

\* With a terminal, every entry of the log file is one JSON text, the one the terminal
\* showed, although the file handler makes none on its own.
THEOREM FileShowsTerminal == LogSpec => []FileIsTerminal
  <1>1. LogInit => FileInv
    BY DEF LogInit, FileInv, IsText, Range, Sinks
  <1>2. TypeInv /\ FileInv => FileIsTerminal
    <2>1. TypeInv => ConfigType(config)
      BY PipelineAssumption DEF TypeInv
    <2> QED BY <2>1, OnePassFacts DEF FileInv, FileIsTerminal, Entries, IsText
  <1> QED BY <1>1, <1>2, FileInvStep, TypeInvHolds, PTL DEF LogSpec

-------------------------------------------------------------------------------
(* What is not dropped is shown everywhere *)

\* The record is dropped by no handler but as a text that holds the word, and then it is the
\* text that was shown.
ReachInv ==
    Passes(config) /\ ~Dropped(config, Original) =>
        /\ ~IsText(msg) => ~Dropped(config, msg)
        /\ step \in {"sqlite", "terminal"} => ~IsText(msg) /\ Range(out["stdout"]) = {}
        /\ step \in {"print", "file"} /\ IsText(msg) => Range(out["stdout"]) # {}
        /\ Range(out["stdout"]) # {} => IsText(msg) /\ Flat(msg)
        /\ \A t \in Range(out["stdout"]) : IsText(t) /\ t.body = msg.body
        /\ "terminal" \in config.logs /\ step \in {"print", "file", "syslog", "done"}
              => out["stdout"] # <<>>
        /\ step \in {"sqlite", "terminal", "print", "file"} => out["file"] = <<>>
        /\ "file" \in config.logs /\ step \in {"syslog", "done"} =>
              (out["file"] = <<>> <=>
                 Wants(config, "remove_errors") /\ \E t \in Range(out["stdout"]) : HasError(t))
        /\ "syslog" \in config.logs /\ config.address /\ step = "done" => out["syslog"] # <<>>

LEMMA ReachInvStep == TypeInv /\ ReachInv /\ [LogNext]_logVars => ReachInv'
  <1> SUFFICES ASSUME TypeInv, ReachInv, [LogNext]_logVars PROVE ReachInv'
    OBVIOUS
  <1> DEFINE o == OriginalOf(event)
             Lost(w) == Wants(config, "remove_errors") /\ \E t \in Range(w["stdout"]) : HasError(t)
             Inv(m, s, w) ==
               /\ ~IsText(m) => ~Dropped(config, m)
               /\ s \in {"sqlite", "terminal"} => ~IsText(m) /\ Range(w["stdout"]) = {}
               /\ s \in {"print", "file"} /\ IsText(m) => Range(w["stdout"]) # {}
               /\ Range(w["stdout"]) # {} => IsText(m) /\ Flat(m)
               /\ \A t \in Range(w["stdout"]) : IsText(t) /\ t.body = m.body
               /\ "terminal" \in config.logs /\ s \in {"print", "file", "syslog", "done"}
                     => w["stdout"] # <<>>
               /\ s \in {"sqlite", "terminal", "print", "file"} => w["file"] = <<>>
               /\ "file" \in config.logs /\ s \in {"syslog", "done"} => (w["file"] = <<>> <=> Lost(w))
               /\ "syslog" \in config.logs /\ config.address /\ s = "done" => w["syslog"] # <<>>
  <1>1. /\ ReachInv <=> (Passes(config) /\ ~Dropped(config, o) => Inv(msg, step, out))
        /\ config' = config /\ event' = event =>
             (ReachInv' <=> (Passes(config) /\ ~Dropped(config, o) => Inv(msg', step', out')))
    BY DEF ReachInv, Original, OriginalOf, Wants, IsText, Flat, HasError
  <1> HIDE DEF o, Lost
  <1>2. CASE UNCHANGED logVars
    BY <1>1, <1>2 DEF logVars, Lost
  <1>3. CASE LogNext
    <2>1. config' = config /\ event' = event
      BY <1>3, WhatHandlersDo
    <2>2. SUFFICES ASSUME Passes(config), ~Dropped(config, o) PROVE Inv(msg', step', out')
      BY <1>1, <2>1
    <2>3. Inv(msg, step, out)
      BY <1>1, <2>2
    <2>4. /\ ConfigType(config) /\ msg \in Msg
          /\ out \in [Sinks -> Seq(Msg)] /\ {"stdout", "file", "sqlite", "syslog"} \subseteq Sinks
      BY PipelineAssumption DEF TypeInv, Sinks
    <2> DEFINE n == Changed(config, msg)
    <2>5. /\ n \in Msg /\ Json(n) \in Msg /\ (~IsText(n) => ~Dropped(config, n))
          /\ IsText(Json(n)) /\ Flat(Json(n)) /\ (IsText(n) <=> IsText(msg))
          /\ IsText(msg) => n = msg /\ (Flat(msg) => Json(n).body = msg.body)
      <3>1. n \in Msg /\ n.layers = msg.layers
        BY <2>4, ChangedFacts
      <3>2. IsText(n) <=> IsText(msg)
        BY <3>1 DEF IsText
      <3>3. ~IsText(msg) => ~Dropped(config, n)
        BY <2>2, <2>3, <2>4, StaysKept
      <3>4. IsText(msg) => n = msg
        BY <2>4, TextPass
      <3> HIDE DEF n
      <3> QED BY <3>1, <3>2, <3>3, <3>4, JsonFacts
    <2>11. IsText(msg) => (Dropped(config, msg) <=> Wants(config, "remove_errors") /\ HasError(msg))
      BY TextIsAsked
    <2> HIDE DEF n
    <2>6. CASE SqliteBranch \/ SqliteLocked
      <3>1. step = "sqlite" /\ step' = "terminal" /\ (msg' = msg \/ msg' = n)
        BY <2>6 DEF SqliteBranch, SqliteLocked, Goto, n
      <3>2. out' = out \/ Write("sqlite", msg')
        BY <2>6 DEF SqliteBranch, SqliteLocked
      <3>3. out'["file"] = out["file"] /\ out'["stdout"] = out["stdout"]
        BY <2>4, <2>5, <3>1, <3>2, Written
      <3> QED BY <2>3, <2>5, <3>1, <3>3
    <2>7. ASSUME NEW s \in {"terminal", "print"}, step = s, ToStdout(s),
                 step' = IF s = "terminal" THEN "print" ELSE "file"
          PROVE  Inv(msg', step', out') \/ (s = "terminal" /\ ~Handles(s) /\ "terminal" \in config.logs)
      <3>1. CASE ~Handles(s)
        <4>1. msg' = msg /\ out' = out
          BY <2>7, <3>1 DEF ToStdout
        <4> QED BY <2>3, <2>7, <3>1, <4>1
      <3>2. CASE Dropped(config, msg) /\ Handles(s)
        <4>1. msg' = n /\ out' = out
          BY <2>7, <3>2 DEF ToStdout, n
        <4> QED BY <2>3, <2>5, <2>7, <3>2, <4>1
      <3>3. CASE ~Dropped(config, msg) /\ Handles(s)
        <4>1. msg' = Json(n) /\ Write("stdout", msg')
          BY <2>7, <3>3 DEF ToStdout, n
        <4>2. /\ out'["file"] = out["file"] /\ out'["stdout"] # <<>>
              /\ Range(out'["stdout"]) = Range(out["stdout"]) \union {msg'}
          BY <2>4, <2>5, <4>1, Written
        <4>3. \A t \in Range(out["stdout"]) : IsText(t) /\ t.body = msg'.body
          BY <2>3, <2>5, <4>1
        <4> QED BY <2>3, <2>5, <2>7, <4>1, <4>2, <4>3
      <3> QED BY <3>1, <3>2, <3>3
    <2>8. CASE TerminalBranch \/ SyslogBranch
      BY <2>7, <2>8, HandlesFacts DEF TerminalBranch, SyslogBranch, Goto
    <2>9. CASE FileHandler
      <3>1. step = "file" /\ step' = "syslog"
        BY <2>9 DEF FileHandler, Goto
      <3>2. CASE "file" \notin config.logs
        <4>1. msg' = msg /\ out' = out
          BY <2>9, <3>2, HandlesFacts DEF FileHandler
        <4> QED BY <2>3, <3>1, <3>2, <4>1
      <3>3. CASE "file" \in config.logs /\ Dropped(config, msg)
        <4>1. msg' = n /\ out' = out
          BY <2>9, <3>3, HandlesFacts DEF FileHandler, n
        <4>2. IsText(msg) /\ Wants(config, "remove_errors") /\ HasError(msg)
          BY <2>3, <2>11, <3>3
        <4>3. PICK t \in Range(out["stdout"]) : IsText(t) /\ t.body = msg.body
          BY <2>3, <3>1, <4>2
        <4>4. HasError(t)
          BY <4>2, <4>3 DEF HasError
        <4>5. Lost(out')
          BY <4>1, <4>2, <4>4 DEF Lost
        <4> QED BY <2>3, <2>5, <3>1, <4>1, <4>2, <4>5
      <3>4. CASE "file" \in config.logs /\ ~Dropped(config, msg)
        <4>1. msg' \in {n, Json(n)} /\ Write("file", msg')
          BY <2>9, <3>4, HandlesFacts DEF FileHandler, n
        <4>2. out'["file"] # <<>> /\ out'["stdout"] = out["stdout"]
          BY <2>4, <2>5, <4>1, Written
        <4>3. ~Lost(out')
          <5>1. ASSUME NEW t \in Range(out["stdout"]), HasError(t), Wants(config, "remove_errors")
                PROVE  FALSE
            <6>1. IsText(msg) /\ IsText(t) /\ t.body = msg.body
              BY <2>3, <5>1
            <6>2. HasError(msg)
              BY <5>1, <6>1 DEF HasError
            <6> QED BY <2>11, <3>4, <5>1, <6>1, <6>2
          <5> QED BY <4>2, <5>1 DEF Lost
        <4>4. Range(out["stdout"]) # {} =>
                 IsText(msg') /\ Flat(msg') /\ msg'.body = msg.body
          BY <2>3, <2>5, <4>1
        <4>5. ~IsText(msg') => ~Dropped(config, msg')
          BY <2>5, <4>1
        <4> QED BY <2>3, <3>1, <4>2, <4>3, <4>4, <4>5
      <3> QED BY <3>2, <3>3, <3>4
    <2>10. CASE SyslogHandler
      <3>1. step = "syslog" /\ step' = "done" /\ msg' = msg
        BY <2>10 DEF SyslogHandler, Goto
      <3>2. CASE ~("syslog" \in config.logs /\ config.address)
        <4>1. out' = out
          BY <2>10, <3>2, HandlesFacts DEF SyslogHandler
        <4> QED BY <2>3, <3>1, <3>2, <4>1
      <3>3. CASE "syslog" \in config.logs /\ config.address
        <4>1. Write("syslog", msg)
          BY <2>10, <3>3, HandlesFacts DEF SyslogHandler
        <4>2. /\ out'["syslog"] # <<>> /\ out'["stdout"] = out["stdout"]
              /\ out'["file"] = out["file"]
          BY <2>4, <4>1, Written
        <4>3. Lost(out') <=> Lost(out)
          BY <4>2 DEF Lost
        <4> QED BY <2>3, <3>1, <4>2, <4>3
      <3> QED BY <3>2, <3>3
    <2> QED BY <1>3, <2>6, <2>8, <2>9, <2>10 DEF LogNext
  <1> QED BY <1>2, <1>3

\* An event that is not dropped at first gets to every configured terminal, file and syslog,
\* but the file misses it exactly when remove_errors finds its word in the text that was shown.
THEOREM KeptIsShown == LogSpec => []ReachesSinks
  <1>1. LogInit => ReachInv
    BY DEF LogInit, ReachInv, Original, IsText, Range, Sinks
  <1>2. TypeInv /\ ReachInv => ReachesSinks
    <2>1. TypeInv => ConfigType(config)
      BY PipelineAssumption DEF TypeInv
    <2> QED BY <2>1, OnePassFacts DEF ReachInv, ReachesSinks, Entries
  <1> QED BY <1>1, <1>2, ReachInvStep, TypeInvHolds, PTL DEF LogSpec
===============================================================================
