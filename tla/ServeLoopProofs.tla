-------------------------- MODULE ServeLoopProofs --------------------------
(***************************************************************************)
(* Theorems about the driver, for any number of requests and slots, any    *)
(* batch, and every combination of its overlaps.                           *)
(***************************************************************************)
EXTENDS ServeLoop, SequenceTheorems, FunctionTheorems, FiniteSetTheorems, WellFoundedInduction,
        TLAPS

-----------------------------------------------------------------------------
(* The inductive invariant.                                                *)

Once(s) == \A i, j \in DOMAIN s : s[i] = s[j] => i = j
OneEach(s) == \A i, j \in DOMAIN s : s[i].tag = s[j].tag => i = j

\* The type invariant by the parts that an action touches together.  (A list of
\* prefills is no longer than the rows because of ListsOK.)
LoopTyped ==
  /\ mode \in Modes /\ running \in BOOLEAN /\ queue \subseteq Requests
  /\ at \in Places /\ early \in BOOLEAN /\ admits \in Nat /\ rr \in 0..mode.capacity
RowsTyped ==
  /\ rows \in Seq(Row) /\ Len(rows) <= mode.capacity
  /\ prepq \in Seq(Requests) /\ building \subseteq Requests /\ built \in Seq([tag : Requests, ok : BOOLEAN])
DeviceTyped ==
  /\ ahead \subseteq Requests /\ IsFiniteSet(ahead) /\ Cardinality(ahead) <= mode.batch
  /\ gang \in [Requests -> 0..mode.frames] /\ Cardinality(Ganged) <= mode.batch
Sound == [made : 0..mode.frames, charged : 0..mode.frames, sent : 0..mode.frames, more : BOOLEAN]
AudioTyped ==
  /\ audio \in [Requests -> Sound]
  /\ outcome \in [Requests -> {"none", "OK", "FAILED", "CANCELLED", "twice"}]

\* A request has one row; it is in one list at most, and in it once; whatever
\* the device or a helper works on has a row.
ListsOK ==
  /\ OneEach(rows) /\ OneEach(built) /\ Once(prepq)
  /\ building \cap Tags(built) = {}
  /\ Range(prepq) \cup building \cup Tags(built) \cup ahead \cup Ganged \subseteq Tags(rows)

\* What the driver decodes for a row keeps the row; the sound of a healthy
\* stream is accounted for, and all of it is charged by the time it ends.
RowSound(row) ==
  /\ gang[row.tag] > 0 => row.held
  /\ ~row.failed /\ ~row.cancelled /\ row.tag \notin Offline =>
       /\ audio[row.tag].sent + gang[row.tag] = audio[row.tag].charged
       /\ row.st = "ended" => audio[row.tag].charged = audio[row.tag].made
RowOK(row) ==
  /\ outcome[row.tag] = "none" /\ row.tag \notin queue
  /\ row.cancelled => row.st = "ended"
  /\ row.st = "preparing" <=> row.tag \in Range(prepq)
  /\ row.st = "starting" <=> row.tag \in building \cup Tags(built)
  /\ RowSound(row)
RowsOK == \A row \in Range(rows) : RowOK(row)

RequestOK(r) ==
  /\ audio[r].sent + gang[r] <= audio[r].charged /\ audio[r].charged <= audio[r].made
  /\ outcome[r] = "none" /\ r \notin Tags(rows) => audio[r].made = 0
  /\ r \in queue => outcome[r] = "none"
  /\ outcome[r] = "OK" /\ r \notin Offline => audio[r].sent = audio[r].made
  /\ outcome[r] # "twice"
RequestsOK == \A r \in Requests : RequestOK(r)

\* No decode is in flight where a step would start another, and the driver looks
\* at its rows only where there are some.
PlaceOK ==
  /\ Ganged # {} => /\ mode.decode /\ at \notin {"step", "returned"}
                    /\ at \in {"prefill", "late", "later", "again", "launch", "retire"} => early
  /\ rows = <<>> => \/ at \in {"admit", "returned"}
                    \/ mode.decode /\ early /\ at \in {"prefill", "late", "later", "again", "launch"}

DriverInv ==
  /\ LoopTyped /\ RowsTyped /\ DeviceTyped /\ AudioTyped
  /\ ListsOK /\ PlaceOK /\ RowsOK /\ RequestsOK

-----------------------------------------------------------------------------
(* Recursive functions over an initial segment of the naturals.            *)

\* Induction, for a set.
LEMMA NatSetInduction ==
  ASSUME NEW S, 0 \in S, \A n \in Nat : n \in S => n + 1 \in S
  PROVE  \A n \in Nat : n \in S
<1> DEFINE T == Nat \ S
<1>1. SUFFICES ASSUME T # {} PROVE FALSE
  OBVIOUS
<1> DEFINE R == OpToRel(<, Nat)
<1>2. IsWellFoundedOn(R, Nat)
  BY NatLessThanWellFounded
<1>3. \A x, y \in Nat : x < y => <<x, y>> \in R
  BY DEF OpToRel
<1> HIDE DEF R
<1>4. PICK x \in T : \A y \in T : ~(<<y, x>> \in R)
  BY <1>1, <1>2, WFMin
<1>5. x # 0 /\ x \in Nat
  OBVIOUS
<1>6. x - 1 \in Nat /\ x - 1 < x
  BY <1>5
<1>7. <<x - 1, x>> \in R
  BY <1>3, <1>5, <1>6
<1>8. x - 1 \in S
  BY <1>4, <1>6, <1>7
<1> QED  BY <1>5, <1>6, <1>8

\* Steps taken one after another have a run.
Steps(X, n) == [1..n -> [X -> X]]
Runs(X, x0, n, step) == {f \in [0..n -> X] : f[0] = x0 /\ \A k \in 1..n : f[k] = step[k][f[k - 1]]}
LEMMA RunExists ==
  ASSUME NEW X, NEW x0 \in X, NEW n \in Nat, NEW step \in Steps(X, n)
  PROVE  \E f \in Runs(X, x0, n, step) : TRUE
<1> USE DEF Steps
<1> DEFINE S == {m \in Nat : m <= n =>
                   \E f \in [0..m -> X] : f[0] = x0 /\ \A k \in 1..m : f[k] = step[k][f[k - 1]]}
<1>1. 0 \in S
  <2> DEFINE f == [i \in 0..0 |-> x0]
  <2>1. f \in [0..0 -> X] /\ f[0] = x0
    OBVIOUS
  <2>2. \A k \in 1..0 : f[k] = step[k][f[k - 1]]
    OBVIOUS
  <2> QED  BY <2>1, <2>2
<1>2. ASSUME NEW m \in Nat, m \in S, m + 1 <= n PROVE m + 1 \in S
  <2>1. PICK f \in [0..m -> X] : f[0] = x0 /\ \A k \in 1..m : f[k] = step[k][f[k - 1]]
    BY <1>2
  <2>2. f[m] \in X /\ step[m + 1] \in [X -> X]
    BY <1>2, <2>1
  <2> DEFINE x == step[m + 1][f[m]]
             g == [i \in 0..(m + 1) |-> IF i = m + 1 THEN x ELSE f[i]]
  <2>3. x \in X
    BY <2>2
  <2>4. g[m + 1] = x /\ g[m] = f[m] /\ g[0] = x0
    BY <2>1
  <2> HIDE DEF x
  <2>5. g \in [0..(m + 1) -> X]
    BY <2>1, <2>3
  <2>6. ASSUME NEW k \in 1..m PROVE g[k] = step[k][g[k - 1]]
    <3>1. g[k] = f[k] /\ g[k - 1] = f[k - 1]
      OBVIOUS
    <3> QED  BY <2>1, <3>1
  <2>7. \A k \in 1..(m + 1) : g[k] = step[k][g[k - 1]]
    <3> HIDE DEF g
    <3> QED  BY <2>4, <2>6 DEF x
  <2> HIDE DEF g
  <2> QED  BY <2>4, <2>5, <2>7
<1>3. \A m \in Nat : m \in S
  <2>1. \A m \in Nat : m \in S => m + 1 \in S
    BY <1>2
  <2> HIDE DEF S
  <2> QED  BY <1>1, <2>1, NatSetInduction
<1> QED  BY <1>3 DEF Runs
-----------------------------------------------------------------------------
(* Lists.                                                                  *)

LEMMA SeqDomain ==
  ASSUME NEW S, NEW s \in Seq(S)
  PROVE  /\ Len(s) \in Nat /\ DOMAIN s = 1..Len(s) /\ \A i \in DOMAIN s : s[i] \in S
         /\ Range(s) = {s[i] : i \in 1..Len(s)} /\ (s = <<>> <=> Len(s) = 0)
<1>1. Len(s) \in Nat /\ DOMAIN s = 1..Len(s) /\ \A i \in DOMAIN s : s[i] \in S
  BY LenProperties, ElementOfSeq
<1> QED  BY <1>1, EmptySeq DEF Range

LEMMA AppendFacts ==
  ASSUME NEW S, NEW s \in Seq(S), NEW x \in S
  PROVE  /\ Append(s, x) \in Seq(S) /\ Len(Append(s, x)) = Len(s) + 1
         /\ DOMAIN Append(s, x) = 1..(Len(s) + 1)
         /\ \A i \in 1..Len(s) : Append(s, x)[i] = s[i]
         /\ Append(s, x)[Len(s) + 1] = x
         /\ Range(Append(s, x)) = Range(s) \cup {x}
<1>1. /\ Append(s, x) \in Seq(S) /\ Len(Append(s, x)) = Len(s) + 1
      /\ \A i \in 1..Len(s) : Append(s, x)[i] = s[i]
      /\ Append(s, x)[Len(s) + 1] = x
  BY AppendProperties
<1>2. Len(s) \in Nat /\ DOMAIN s = 1..Len(s)
  BY SeqDomain
<1>3. DOMAIN Append(s, x) = 1..(Len(s) + 1)
  BY <1>1, SeqDomain
<1>4. 1..(Len(s) + 1) = 1..Len(s) \cup {Len(s) + 1}
  BY <1>2
<1>5. Range(Append(s, x)) \subseteq Range(s) \cup {x}
  BY <1>1, <1>2, <1>3, <1>4 DEF Range
<1>6. Range(s) \subseteq Range(Append(s, x))
  BY <1>1, <1>2, <1>3, <1>4 DEF Range
<1>7. x \in Range(Append(s, x))
  <2>1. Len(s) + 1 \in DOMAIN Append(s, x)
    BY <1>2, <1>3
  <2> QED  BY <1>1, <2>1 DEF Range
<1> QED  BY <1>1, <1>3, <1>5, <1>6, <1>7

LEMMA AppendOnce ==
  ASSUME NEW S, NEW s \in Seq(S), NEW x \in S, Once(s), x \notin Range(s)
  PROVE  Once(Append(s, x))
<1>1. /\ DOMAIN Append(s, x) = 1..(Len(s) + 1) /\ Append(s, x)[Len(s) + 1] = x
      /\ \A i \in 1..Len(s) : Append(s, x)[i] = s[i]
  BY AppendFacts
<1>2. Len(s) \in Nat /\ DOMAIN s = 1..Len(s) /\ \A i \in DOMAIN s : s[i] # x
  BY SeqDomain DEF Range
<1>3. ASSUME NEW i \in 1..(Len(s) + 1), NEW j \in 1..(Len(s) + 1), Append(s, x)[i] = Append(s, x)[j]
      PROVE  i = j
  <2>1. CASE i \in 1..Len(s) /\ j \in 1..Len(s)
    BY <1>1, <1>2, <1>3, <2>1 DEF Once
  <2>2. CASE i = Len(s) + 1 /\ j \in 1..Len(s)
    BY <1>1, <1>2, <1>3, <2>2
  <2>3. CASE i \in 1..Len(s) /\ j = Len(s) + 1
    BY <1>1, <1>2, <1>3, <2>3
  <2> QED  BY <1>2, <2>1, <2>2, <2>3
<1> QED  BY <1>1, <1>3 DEF Once

LEMMA ConcatFacts ==
  ASSUME NEW S, NEW s \in Seq(S), NEW t \in Seq(S)
  PROVE  /\ s \o t \in Seq(S) /\ Range(s \o t) = Range(s) \cup Range(t)
         /\ Once(s) /\ Once(t) /\ Range(s) \cap Range(t) = {} => Once(s \o t)
<1> DEFINE m == Len(s)
           n == Len(t)
<1>1. /\ s \o t \in Seq(S) /\ Len(s \o t) = m + n
      /\ \A i \in 1..(m + n) : (s \o t)[i] = IF i <= m THEN s[i] ELSE t[i - m]
  BY ConcatProperties
<1>2. m \in Nat /\ n \in Nat /\ DOMAIN s = 1..m /\ DOMAIN t = 1..n
  BY SeqDomain
<1>3. DOMAIN (s \o t) = 1..(m + n)
  BY <1>1, SeqDomain
<1> HIDE DEF m, n
<1>4. \A i \in 1..m : i \in 1..(m + n) /\ (s \o t)[i] = s[i]
  BY <1>1, <1>2
<1>5. \A i \in 1..n : m + i \in 1..(m + n) /\ (s \o t)[m + i] = t[i]
  BY <1>1, <1>2
<1>6. \A i \in 1..(m + n) : i \in 1..m \/ (i - m \in 1..n /\ i = m + (i - m))
  BY <1>2
<1>7. Range(s \o t) \subseteq Range(s) \cup Range(t)
  <2> SUFFICES ASSUME NEW i \in 1..(m + n) PROVE (s \o t)[i] \in Range(s) \cup Range(t)
    BY <1>3 DEF Range
  <2>1. CASE i \in 1..m
    BY <1>2, <1>4, <2>1 DEF Range
  <2>2. CASE i - m \in 1..n /\ i = m + (i - m)
    BY <1>2, <1>5, <2>2 DEF Range
  <2> QED  BY <1>6, <2>1, <2>2
<1>8. Range(s) \subseteq Range(s \o t) /\ Range(t) \subseteq Range(s \o t)
  BY <1>2, <1>3, <1>4, <1>5 DEF Range
<1>9. ASSUME Once(s), Once(t), Range(s) \cap Range(t) = {}, NEW i \in 1..(m + n), NEW j \in 1..(m + n),
             (s \o t)[i] = (s \o t)[j]
      PROVE  i = j
  <2>1. CASE i \in 1..m /\ j \in 1..m
    BY <1>2, <1>4, <1>9, <2>1 DEF Once
  <2>2. CASE i - m \in 1..n /\ i = m + (i - m) /\ j - m \in 1..n /\ j = m + (j - m)
    <3>1. t[i - m] = t[j - m]
      BY <1>5, <1>9, <2>2
    <3>2. i - m = j - m
      BY <1>2, <1>9, <2>2, <3>1 DEF Once
    <3> QED  BY <2>2, <3>2
  <2>3. ASSUME NEW a \in 1..m, NEW b \in 1..n PROVE s[a] # t[b]
    BY <1>2, <1>9, <2>3 DEF Range
  <2>4. CASE i \in 1..m /\ j - m \in 1..n /\ j = m + (j - m)
    <3>1. (s \o t)[i] = s[i] /\ (s \o t)[j] = t[j - m]
      BY <1>4, <1>5, <2>4
    <3> QED  BY <1>9, <2>3, <2>4, <3>1
  <2>5. CASE j \in 1..m /\ i - m \in 1..n /\ i = m + (i - m)
    <3>1. (s \o t)[j] = s[j] /\ (s \o t)[i] = t[i - m]
      BY <1>4, <1>5, <2>5
    <3> QED  BY <1>9, <2>3, <2>5, <3>1
  <2> QED  BY <1>6, <2>1, <2>2, <2>4, <2>5
<1>10. Once(s) /\ Once(t) /\ Range(s) \cap Range(t) = {} => Once(s \o t)
  BY <1>3, <1>9 DEF Once
<1> QED  BY <1>1, <1>7, <1>8, <1>10

\* Keep() is a filter: the members that are in the set, once each if they were.
LEMMA KeepFacts ==
  ASSUME NEW T, NEW s \in Seq(T), NEW S
  PROVE  /\ Keep(s, S) \in Seq(T) /\ Range(Keep(s, S)) = Range(s) \cap S
         /\ Once(s) => Once(Keep(s, S))
<1> DEFINE n == Len(s)
           f == Kept(s, S)
<1>1. n \in Nat /\ DOMAIN s = 1..n /\ (\A i \in 1..n : s[i] \in T) /\ Range(s) = {s[i] : i \in 1..n}
  BY SeqDomain
<1>2. f = [k \in 0..n |-> IF k = 0 THEN <<>> ELSE IF s[k] \in S THEN Append(f[k - 1], s[k]) ELSE f[k - 1]]
  <2> DEFINE step == [k \in 1..n |-> [t \in Seq(T) |-> IF s[k] \in S THEN Append(t, s[k]) ELSE t]]
  <2>1. step \in [1..n -> [Seq(T) -> Seq(T)]]
    BY <1>1, AppendFacts
  <2>2. <<>> \in Seq(T)
    OBVIOUS
  <2>3. PICK g \in [0..n -> Seq(T)] : g[0] = <<>> /\ \A k \in 1..n : g[k] = step[k][g[k - 1]]
    <3> HIDE DEF step, n
    <3> DEFINE X == Seq(T)
               e == <<>>
    <3>1. n \in Nat
      BY <1>1
    <3>2. e \in X
      BY <2>2
    <3>3. step \in Steps(X, n)
      BY <2>1 DEF Steps
    <3> HIDE DEF X, e
    <3>4. PICK g \in Runs(X, e, n, step) : TRUE
      BY <3>1, <3>2, <3>3, RunExists, Zenon
    <3> QED  BY <3>4 DEF Runs, X, e
  <2>4. ASSUME NEW k \in 1..n PROVE g[k] = IF s[k] \in S THEN Append(g[k - 1], s[k]) ELSE g[k - 1]
    <3>1. k - 1 \in 0..n
      <4> HIDE DEF n
      <4> QED  BY <1>1
    <3>2. g[k - 1] \in Seq(T)
      <4> DEFINE X == Seq(T)
                 D == 0..n
      <4> HIDE DEF n, step, X, D
      <4>1. g \in [D -> X] /\ k - 1 \in D
        BY <2>3, <3>1 DEF D, X
      <4>2. g[k - 1] \in X
        BY <4>1
      <4> QED  BY <4>2 DEF X
    <3> QED  BY <2>3, <3>2
  <2>5. g = [k \in 0..n |-> IF k = 0 THEN <<>> ELSE IF s[k] \in S THEN Append(g[k - 1], s[k]) ELSE g[k - 1]]
    <3>1. \A k \in 0..n : k = 0 \/ k \in 1..n
      BY <1>1
    <3> HIDE DEF n, step
    <3> QED  BY <2>3, <2>4, <3>1
  <2>6. f = CHOOSE h : h = [k \in 0..n |-> IF k = 0 THEN <<>>
                                           ELSE IF s[k] \in S THEN Append(h[k - 1], s[k]) ELSE h[k - 1]]
    BY Zenon DEF Kept
  <2> HIDE DEF f
  <2> QED  BY <2>5, <2>6
<1> HIDE DEF f, n
<1> DEFINE P(k) == /\ f[k] \in Seq(T) /\ Range(f[k]) = {s[i] : i \in 1..k} \cap S
                   /\ Once(s) => Once(f[k])
           Ps == {k \in Nat : k <= n => P(k)}
<1>3. 0 \in Ps
  <2>1. f[0] = <<>>
    BY <1>1, <1>2
  <2>2. Range(<<>>) = {} /\ Once(<<>>) /\ <<>> \in Seq(T) /\ 1..0 = {}
    BY DEF Range, Once
  <2> QED  BY <2>1, <2>2
<1>4. ASSUME NEW k \in Nat, k \in Ps, k + 1 <= n PROVE P(k + 1)
  <2>1. P(k) /\ k + 1 \in 1..n /\ k + 1 \in 0..n
    BY <1>1, <1>4
  <2>2. f[k + 1] = IF s[k + 1] \in S THEN Append(f[k], s[k + 1]) ELSE f[k]
    <3>1. k + 1 # 0 /\ (k + 1) - 1 = k
      OBVIOUS
    <3>2. f[k + 1] = IF s[k + 1] \in S THEN Append(f[(k + 1) - 1], s[k + 1]) ELSE f[(k + 1) - 1]
      BY <1>2, <2>1, <3>1, Zenon
    <3> QED  BY <3>1, <3>2
  <2>3. {s[i] : i \in 1..(k + 1)} = {s[i] : i \in 1..k} \cup {s[k + 1]}
    <3>1. 1..(k + 1) = 1..k \cup {k + 1}
      OBVIOUS
    <3> QED  BY <3>1, Zenon
  <2>4. s[k + 1] \in T
    BY <1>1, <2>1
  <2>5. CASE s[k + 1] \notin S
    BY <2>1, <2>2, <2>3, <2>5
  <2>6. CASE s[k + 1] \in S
    <3>1. Range(f[k + 1]) = Range(f[k]) \cup {s[k + 1]} /\ f[k + 1] \in Seq(T)
      BY <2>1, <2>2, <2>4, <2>6, AppendFacts
    <3>2. Once(s) => s[k + 1] \notin Range(f[k])
      <4>1. \A i \in 1..k : i \in 1..n /\ i # k + 1
        BY <1>4, <1>1
      <4>2. Once(s) => \A i \in 1..k : s[i] # s[k + 1]
        BY <1>1, <2>1, <4>1 DEF Once
      <4> QED  BY <2>1, <4>2
    <3>3. Once(s) => Once(f[k + 1])
      BY <2>1, <2>2, <2>4, <2>6, <3>2, AppendOnce
    <3>4. Range(f[k + 1]) = {s[i] : i \in 1..(k + 1)} \cap S
      BY <2>1, <2>3, <2>6, <3>1
    <3> QED  BY <3>1, <3>3, <3>4
  <2> QED  BY <2>5, <2>6
<1>5. \A k \in Nat : k \in Ps
  <2>1. \A k \in Nat : k \in Ps => k + 1 \in Ps
    <3> HIDE DEF P
    <3> QED  BY <1>4
  <2> HIDE DEF Ps
  <2> QED  BY <1>3, <2>1, NatSetInduction
<1>6. P(n)
  <2> HIDE DEF P
  <2> QED  BY <1>1, <1>5
<1>7. Keep(s, S) = f[n]
  BY DEF Keep, f, n
<1> QED  BY <1>1, <1>6, <1>7

LEMMA LeastExists ==
  ASSUME NEW S, S \subseteq Nat, S # {}
  PROVE  \E i \in S : \A k \in S : i <= k
<1> DEFINE R == OpToRel(<, Nat)
<1>1. IsWellFoundedOn(R, Nat)
  BY NatLessThanWellFounded
<1>2. \A x, y \in Nat : x < y => <<x, y>> \in R
  BY DEF OpToRel
<1> HIDE DEF R
<1>3. PICK i \in S : \A k \in S : ~(<<k, i>> \in R)
  BY <1>1, WFMin
<1>4. \A k \in S : ~(k < i)
  BY <1>2, <1>3
<1> QED  BY <1>3, <1>4

\* The rows that stay are the rows of the others, each once.
LEMMA RemoveFirstFacts ==
  ASSUME NEW rs \in Seq(Row), OneEach(rs), NEW gone
  PROVE  LET left == RemoveFirst(rs, gone)
             goes == {i \in DOMAIN rs : rs[i].tag \in gone} IN
         /\ left \in Seq(Row) /\ OneEach(left) /\ Range(left) \subseteq Range(rs)
         /\ \A row \in Range(rs) : row.tag \notin gone => row \in Range(left)
         /\ goes = {} => left = rs
         /\ goes # {} => Len(left) = Len(rs) - 1
<1> DEFINE left == RemoveFirst(rs, gone)
           goes == {i \in DOMAIN rs : rs[i].tag \in gone}
           n == Len(rs)
           first == CHOOSE i \in goes : \A k \in goes : i <= k
<1>1. n \in Nat /\ DOMAIN rs = 1..n /\ \A i \in 1..n : rs[i] \in Row
  BY SeqDomain
<1>2. CASE goes = {}
  <2>1. left = rs
    BY <1>2 DEF RemoveFirst
  <2> QED  BY <1>2, <2>1
<1>3. CASE goes # {}
  <2>1. \E i \in goes : \A k \in goes : i <= k
    <3>1. goes \subseteq Nat
      BY <1>1
    <3> HIDE DEF goes
    <3> QED  BY <1>3, <3>1, LeastExists
  <2>2. first \in goes
    <3> HIDE DEF goes
    <3> QED  BY <2>1
  <2>3. first \in 1..n /\ rs[first].tag \in gone
    BY <1>1, <2>2
  <2>4. left = [i \in 1..(n - 1) |-> IF i = first THEN rs[n] ELSE rs[i]]
    BY <1>3, Zenon DEF RemoveFirst
  <2> HIDE DEF first, left, goes, n
  <2>5. n - 1 \in Nat /\ n \in 1..n /\ \A i \in 1..(n - 1) : i \in 1..n /\ i # n
    BY <1>1, <2>3
  <2>6. left \in Seq(Row) /\ Len(left) = n - 1 /\ DOMAIN left = 1..(n - 1)
    <3>1. \A i \in 1..(n - 1) : (IF i = first THEN rs[n] ELSE rs[i]) \in Row
      BY <1>1, <2>5
    <3>2. left \in [1..(n - 1) -> Row]
      BY <2>4, <3>1
    <3> QED  BY <2>5, <3>2
  <2>7. \A i \in 1..(n - 1) : left[i] = IF i = first THEN rs[n] ELSE rs[i]
    BY <2>4
  <2>8. ASSUME NEW i \in 1..(n - 1), NEW j \in 1..(n - 1), left[i].tag = left[j].tag PROVE i = j
    <3>1. CASE i = first /\ j # first
      <4>1. rs[n].tag = rs[j].tag
        BY <2>7, <2>8, <3>1
      <4>2. n = j
        BY <1>1, <2>5, <4>1 DEF OneEach
      <4> QED  BY <2>5, <4>2
    <3>2. CASE j = first /\ i # first
      <4>1. rs[n].tag = rs[i].tag
        BY <2>7, <2>8, <3>2
      <4>2. n = i
        BY <1>1, <2>5, <4>1 DEF OneEach
      <4> QED  BY <2>5, <4>2
    <3>3. CASE i # first /\ j # first
      <4>1. rs[i].tag = rs[j].tag
        BY <2>7, <2>8, <3>3
      <4> QED  BY <1>1, <2>5, <4>1 DEF OneEach
    <3> QED  BY <3>1, <3>2, <3>3
  <2>9. Range(left) \subseteq Range(rs)
    BY <1>1, <2>5, <2>6, <2>7 DEF Range
  <2>10. ASSUME NEW i \in 1..n, rs[i].tag \notin gone PROVE rs[i] \in Range(left)
    <3>1. i # first
      BY <2>3, <2>10
    <3>2. CASE i # n
      <4>1. i \in 1..(n - 1)
        BY <1>1, <3>2
      <4>2. left[i] = rs[i]
        BY <2>7, <3>1, <4>1
      <4> QED  BY <2>6, <4>1, <4>2 DEF Range
    <3>3. CASE i = n
      <4>1. first \in 1..(n - 1)
        BY <1>1, <2>3, <3>1, <3>3
      <4>2. left[first] = rs[n]
        BY <2>7, <4>1
      <4> QED  BY <2>6, <3>3, <4>1, <4>2 DEF Range
    <3> QED  BY <3>2, <3>3
  <2>11. \A row \in Range(rs) : row.tag \notin gone => row \in Range(left)
    BY <1>1, <2>10 DEF Range
  <2>12. OneEach(left)
    BY <2>6, <2>8 DEF OneEach
  <2> QED  BY <1>3, <2>6, <2>9, <2>11, <2>12 DEF left, goes, n
<1> QED  BY <1>2, <1>3

LEMMA SwapRemoveFacts ==
  ASSUME NEW rs \in Seq(Row), OneEach(rs), NEW gone
  PROVE  LET left == SwapRemove(rs, gone) IN
         /\ left \in Seq(Row) /\ OneEach(left) /\ Len(left) <= Len(rs)
         /\ Range(left) = {row \in Range(rs) : row.tag \notin gone}
<1> DEFINE n == Len(rs)
           f == Removals(rs, gone)
           X == {s \in Seq(Row) : OneEach(s)}
<1>1. n \in Nat /\ DOMAIN rs = 1..n /\ rs \in X
  BY SeqDomain
<1>2. \A s \in X : RemoveFirst(s, gone) \in X
  BY RemoveFirstFacts
<1>3. f = [k \in 0..n |-> IF k = 0 THEN rs ELSE RemoveFirst(f[k - 1], gone)]
  <2> DEFINE step == [k \in 1..n |-> [s \in X |-> RemoveFirst(s, gone)]]
  <2>1. step \in [1..n -> [X -> X]]
    <3> HIDE DEF X
    <3> QED  BY <1>2
  <2>2. PICK g \in [0..n -> X] : g[0] = rs /\ \A k \in 1..n : g[k] = step[k][g[k - 1]]
    <3> HIDE DEF step, n, X
    <3>1. n \in Nat
      BY <1>1
    <3>2. rs \in X
      BY <1>1
    <3>3. step \in Steps(X, n)
      BY <2>1 DEF Steps
    <3>4. PICK g \in Runs(X, rs, n, step) : TRUE
      BY <3>1, <3>2, <3>3, RunExists, Zenon
    <3> QED  BY <3>4 DEF Runs
  <2> HIDE DEF X
  <2>3. ASSUME NEW k \in 1..n PROVE g[k] = RemoveFirst(g[k - 1], gone)
    <3>1. g[k - 1] \in X
      BY <1>1, <2>2
    <3> QED  BY <2>2, <3>1
  <2>4. g = [k \in 0..n |-> IF k = 0 THEN rs ELSE RemoveFirst(g[k - 1], gone)]
    <3>1. \A k \in 0..n : k = 0 \/ k \in 1..n
      BY <1>1
    <3> HIDE DEF n, step
    <3> QED  BY <2>2, <2>3, <3>1
  <2>5. f = CHOOSE h : h = [k \in 0..n |-> IF k = 0 THEN rs ELSE RemoveFirst(h[k - 1], gone)]
    BY Zenon DEF Removals
  <2> HIDE DEF f, n
  <2> QED  BY <2>4, <2>5
<1> HIDE DEF f, n
<1> DEFINE Goes(s) == {i \in DOMAIN s : s[i].tag \in gone}
           P(k) == /\ f[k] \in Seq(Row) /\ OneEach(f[k]) /\ Len(f[k]) <= n /\ Range(f[k]) \subseteq Range(rs)
                   /\ \A row \in Range(rs) : row.tag \notin gone => row \in Range(f[k])
                   /\ Goes(f[k]) = {} \/ Len(f[k]) = n - k
           Ps == {k \in Nat : k <= n => P(k)}
<1>4. 0 \in Ps
  <2>1. f[0] = rs
    BY <1>1, <1>3
  <2> QED  BY <1>1, <2>1 DEF n
<1>5. ASSUME NEW k \in Nat, k \in Ps, k + 1 <= n PROVE P(k + 1)
  <2>1. P(k) /\ k + 1 \in 0..n /\ k + 1 # 0 /\ (k + 1) - 1 = k
    BY <1>1, <1>5
  <2>2. f[k + 1] = RemoveFirst(f[(k + 1) - 1], gone)
    BY <1>3, <2>1, Zenon
  <2>3. f[k + 1] = RemoveFirst(f[k], gone)
    BY <2>1, <2>2
  <2> DEFINE s == f[k]
             t == f[k + 1]
  <2>4. s \in Seq(Row) /\ OneEach(s) /\ Len(s) \in Nat
    BY <2>1, SeqDomain
  <2>5. /\ t \in Seq(Row) /\ OneEach(t) /\ Range(t) \subseteq Range(s)
        /\ \A row \in Range(s) : row.tag \notin gone => row \in Range(t)
        /\ Goes(s) = {} => t = s
        /\ Goes(s) # {} => Len(t) = Len(s) - 1
    BY <2>3, <2>4, RemoveFirstFacts, Zenon
  <2>6. Len(t) \in Nat
    BY <2>5, SeqDomain
  <2> HIDE DEF s, t, Goes
  <2>7. CASE Goes(s) = {}
    BY <2>1, <2>5, <2>7 DEF s, t
  <2>8. CASE Goes(s) # {}
    <3>1. Len(s) = n - k
      BY <2>1, <2>8 DEF s
    <3>2. Len(t) = n - (k + 1) /\ Len(t) <= n
      BY <1>1, <2>5, <2>8, <3>1
    <3> QED  BY <2>1, <2>5, <3>2 DEF s, t
  <2> QED  BY <2>7, <2>8
<1>6. \A k \in Nat : k \in Ps
  <2>1. \A k \in Nat : k \in Ps => k + 1 \in Ps
    <3> HIDE DEF P
    <3> QED  BY <1>5
  <2> HIDE DEF Ps
  <2> QED  BY <1>4, <2>1, NatSetInduction
<1>7. P(n)
  <2> HIDE DEF P
  <2> QED  BY <1>1, <1>6
<1>8. SwapRemove(rs, gone) = f[n]
  BY Zenon DEF SwapRemove, f, n
<1>9. Goes(f[n]) = {}
  <2>1. CASE Len(f[n]) = n - n
    <3>1. DOMAIN f[n] = 1..0
      BY <1>1, <1>7, <2>1, SeqDomain
    <3> QED  BY <3>1
  <2> QED  BY <1>7, <2>1
<1>10. \A row \in Range(f[n]) : row.tag \notin gone
  BY <1>9 DEF Range
<1>11. Range(f[n]) = {row \in Range(rs) : row.tag \notin gone}
  BY <1>7, <1>10
<1> QED  BY <1>7, <1>8, <1>11 DEF n

\* The walk of Turn() for a batch of some size.
LEMMA WalkFacts ==
  ASSUME NEW rs \in Seq(Row), NEW from \in Nat, NEW b \in Nat
  PROVE  \E f : /\ f = [k \in 0..Len(rs) |->
                         IF k = 0 THEN [who |-> {}, next |-> from]
                         ELSE IF /\ Cardinality(f[k - 1].who) < b
                                 /\ rs[((from + k - 1) % Len(rs)) + 1].st = "active"
                              THEN [who |-> f[k - 1].who \cup {rs[((from + k - 1) % Len(rs)) + 1].tag},
                                    next |-> (((from + k - 1) % Len(rs)) + 1) % Len(rs)]
                              ELSE f[k - 1]]
<1> DEFINE n == Len(rs)
           active == {rs[i].tag : i \in {k \in DOMAIN rs : rs[k].st = "active"}}
           X == [who : SUBSET active, next : 0..n \cup {from}]
           place(k) == (from + k - 1) % n
           Takes(k, w) == Cardinality(w.who) < b /\ rs[place(k) + 1].st = "active"
           take(k, w) == [who |-> w.who \cup {rs[place(k) + 1].tag}, next |-> (place(k) + 1) % n]
           none == [who |-> {}, next |-> from]
<1>1. n \in Nat /\ DOMAIN rs = 1..n /\ none \in X
  BY SeqDomain
<1>2. ASSUME NEW k \in 1..n PROVE place(k) \in 0..(n - 1) /\ place(k) + 1 \in 1..n /\ (place(k) + 1) % n \in 0..n
  <2>1. n \in Nat \ {0} /\ from + k - 1 \in Nat
    BY <1>1
  <2> HIDE DEF n
  <2>2. place(k) \in 0..(n - 1)
    BY <2>1
  <2> HIDE DEF place
  <2>3. place(k) + 1 \in Nat /\ place(k) + 1 \in 1..n
    BY <2>1, <2>2
  <2> QED  BY <2>1, <2>2, <2>3
<1>3. ASSUME NEW k \in 1..n, NEW w \in X, Takes(k, w) PROVE take(k, w) \in X
  <2>1. rs[place(k) + 1].tag \in active
    BY <1>1, <1>2, <1>3
  <2>2. w.who \in SUBSET active
    BY <1>3
  <2> HIDE DEF active, place, n
  <2> QED  BY <1>2, <2>1, <2>2
<1>4. \E f : f = [k \in 0..n |-> IF k = 0 THEN none ELSE IF Takes(k, f[k - 1]) THEN take(k, f[k - 1]) ELSE f[k - 1]]
  <2> DEFINE step == [k \in 1..n |-> [w \in X |-> IF Takes(k, w) THEN take(k, w) ELSE w]]
  <2>1. step \in [1..n -> [X -> X]]
    <3> HIDE DEF X, n, take, Takes
    <3> QED  BY <1>3
  <2>2. PICK g \in [0..n -> X] : g[0] = none /\ \A k \in 1..n : g[k] = step[k][g[k - 1]]
    <3> HIDE DEF step, n, X, none
    <3>1. n \in Nat
      BY <1>1
    <3>2. none \in X
      BY <1>1
    <3>3. step \in Steps(X, n)
      BY <2>1 DEF Steps
    <3>4. PICK g \in Runs(X, none, n, step) : TRUE
      BY <3>1, <3>2, <3>3, RunExists, Zenon
    <3> QED  BY <3>4 DEF Runs
  <2>3. ASSUME NEW k \in 1..n PROVE g[k] = IF Takes(k, g[k - 1]) THEN take(k, g[k - 1]) ELSE g[k - 1]
    <3> HIDE DEF X, take, Takes
    <3>1. g[k - 1] \in X
      BY <1>1, <2>2
    <3> QED  BY <2>2, <3>1
  <2>4. g = [k \in 0..n |-> IF k = 0 THEN none ELSE IF Takes(k, g[k - 1]) THEN take(k, g[k - 1]) ELSE g[k - 1]]
    <3>1. \A k \in 0..n : k = 0 \/ k \in 1..n
      BY <1>1
    <3> HIDE DEF n, step, X, take, Takes, none
    <3> QED  BY <2>2, <2>3, <3>1
  <2> QED  BY <2>4
<1> QED  BY <1>4

\* A turn takes active rows, no more than a batch holds.
LEMMA TurnFacts ==
  ASSUME NEW rs \in Seq(Row), NEW from \in Nat, mode.batch \in Nat
  PROVE  LET turn == Turn(rs, from) IN
         /\ turn.who \subseteq {rs[i].tag : i \in {k \in DOMAIN rs : rs[k].st = "active"}}
         /\ IsFiniteSet(turn.who) /\ Cardinality(turn.who) <= mode.batch
         /\ turn.next \in 0..Len(rs) \cup {from}
<1> DEFINE n == Len(rs)
           f == Walk(rs, from)
           active == {rs[i].tag : i \in {k \in DOMAIN rs : rs[k].st = "active"}}
           X == [who : SUBSET active, next : 0..n \cup {from}]
           place(k) == (from + k - 1) % n
           Takes(k, w) == Cardinality(w.who) < mode.batch /\ rs[place(k) + 1].st = "active"
           take(k, w) == [who |-> w.who \cup {rs[place(k) + 1].tag}, next |-> (place(k) + 1) % n]
           none == [who |-> {}, next |-> from]
<1>1. n \in Nat /\ DOMAIN rs = 1..n /\ none \in X
  BY SeqDomain
<1>2. ASSUME NEW k \in 1..n PROVE place(k) \in 0..(n - 1) /\ place(k) + 1 \in 1..n /\ (place(k) + 1) % n \in 0..n
  <2>1. n \in Nat \ {0} /\ from + k - 1 \in Nat
    BY <1>1
  <2> HIDE DEF n
  <2>2. place(k) \in 0..(n - 1)
    BY <2>1
  <2> HIDE DEF place
  <2>3. place(k) + 1 \in Nat /\ place(k) + 1 \in 1..n
    BY <2>1, <2>2
  <2> QED  BY <2>1, <2>2, <2>3
<1>3. ASSUME NEW k \in 1..n, NEW w \in X, Takes(k, w) PROVE take(k, w) \in X
  <2>1. rs[place(k) + 1].tag \in active
    BY <1>1, <1>2, <1>3
  <2>2. w.who \in SUBSET active
    BY <1>3
  <2> HIDE DEF active, place, n
  <2> QED  BY <1>2, <2>1, <2>2
<1>4. f = [k \in 0..n |-> IF k = 0 THEN none ELSE IF Takes(k, f[k - 1]) THEN take(k, f[k - 1]) ELSE f[k - 1]]
  <2>1. \E h : h = [k \in 0..n |-> IF k = 0 THEN none
                                  ELSE IF Takes(k, h[k - 1]) THEN take(k, h[k - 1]) ELSE h[k - 1]]
    BY WalkFacts, Zenon
  <2>2. f = CHOOSE h : h = [k \in 0..n |-> IF k = 0 THEN none
                                          ELSE IF Takes(k, h[k - 1]) THEN take(k, h[k - 1]) ELSE h[k - 1]]
    BY Zenon DEF Walk
  <2> HIDE DEF f, n, take, Takes, none
  <2> QED  BY <2>1, <2>2
<1> HIDE DEF f, n
<1> DEFINE P(k) == f[k] \in X /\ IsFiniteSet(f[k].who) /\ Cardinality(f[k].who) <= mode.batch
           Ps == {k \in Nat : k <= n => P(k)}
<1>5. 0 \in Ps
  <2>1. f[0] = none
    BY <1>1, <1>4
  <2>2. IsFiniteSet({}) /\ Cardinality({}) = 0
    BY FS_EmptySet
  <2>3. f[0].who = {} /\ 0 <= mode.batch
    BY <2>1
  <2>4. f[0] \in X
    BY <1>1, <2>1
  <2> HIDE DEF X, none
  <2>5. P(0)
    BY <2>2, <2>3, <2>4
  <2> QED  BY <2>5
<1>6. ASSUME NEW k \in Nat, k \in Ps, k + 1 <= n PROVE P(k + 1)
  <2>1. P(k) /\ k + 1 \in 1..n /\ k + 1 \in 0..n /\ k + 1 # 0 /\ (k + 1) - 1 = k
    BY <1>1, <1>6
  <2> DEFINE w == f[k]
  <2>2. f[k + 1] = IF Takes(k + 1, w) THEN take(k + 1, w) ELSE w
    <3> HIDE DEF Takes, take
    <3>1. f[k + 1] = IF Takes(k + 1, f[(k + 1) - 1]) THEN take(k + 1, f[(k + 1) - 1]) ELSE f[(k + 1) - 1]
      BY <1>4, <2>1, Zenon
    <3> QED  BY <2>1, <3>1
  <2> HIDE DEF w, X
  <2>3. CASE ~Takes(k + 1, w)
    BY <2>1, <2>2, <2>3 DEF w
  <2>4. CASE Takes(k + 1, w)
    <3>1. f[k + 1] = take(k + 1, w) /\ take(k + 1, w) \in X
      BY <1>3, <2>1, <2>2, <2>4 DEF w
    <3> DEFINE t == rs[place(k + 1) + 1].tag
    <3>2. f[k + 1].who = w.who \cup {t}
      BY <3>1
    <3>3. IsFiniteSet(w.who) /\ Cardinality(w.who) < mode.batch
      BY <2>1, <2>4 DEF w
    <3> HIDE DEF t
    <3>4. IsFiniteSet(w.who \cup {t}) /\ Cardinality(w.who \cup {t}) <= Cardinality(w.who) + 1
      <4>1. Cardinality(w.who) \in Nat
        BY <3>3, FS_CardinalityType
      <4>2. /\ IsFiniteSet(w.who \cup {t})
            /\ Cardinality(w.who \cup {t}) = IF t \in w.who THEN Cardinality(w.who) ELSE Cardinality(w.who) + 1
        BY <3>3, FS_AddElement
      <4> QED  BY <4>1, <4>2
    <3>5. Cardinality(w.who) \in Nat /\ Cardinality(w.who \cup {t}) \in Nat
      BY <3>3, <3>4, FS_CardinalityType
    <3>6. Cardinality(w.who \cup {t}) <= mode.batch
      BY <3>3, <3>4, <3>5
    <3> QED  BY <3>1, <3>2, <3>4, <3>6
  <2> QED  BY <2>3, <2>4
<1>7. \A k \in Nat : k \in Ps
  <2>1. \A k \in Nat : k \in Ps => k + 1 \in Ps
    <3> HIDE DEF P
    <3> QED  BY <1>6
  <2> HIDE DEF Ps
  <2> QED  BY <1>5, <2>1, NatSetInduction
<1>8. P(n)
  <2> HIDE DEF P
  <2> QED  BY <1>1, <1>7
<1>9. Turn(rs, from) = f[n]
  BY Zenon DEF Turn, f, n
<1>10. f[n].who \in SUBSET active /\ f[n].next \in 0..n \cup {from}
  BY <1>8
<1> QED  BY <1>8, <1>9, <1>10 DEF n

LEMMA OnceIsCounted ==
  ASSUME NEW S, NEW s \in Seq(S), Once(s)
  PROVE  IsFiniteSet(Range(s)) /\ Cardinality(Range(s)) = Len(s)
<1>1. Len(s) \in Nat /\ DOMAIN s = 1..Len(s) /\ s \in [1..Len(s) -> Range(s)]
  BY SeqDomain DEF Range
<1>2. (\A i, j \in 1..Len(s) : s[i] = s[j] => i = j) /\ \A x \in Range(s) : \E i \in 1..Len(s) : s[i] = x
  BY <1>1 DEF Once, Range
<1>3. s \in Bijection(1..Len(s), Range(s))
  BY <1>1, <1>2, Fun_IsBij
<1>4. ExistsBijection(1..Len(s), Range(s))
  BY <1>3 DEF ExistsBijection
<1>5. \E n \in Nat : ExistsBijection(1..n, Range(s))
  BY <1>1, <1>4
<1> QED  BY <1>1, <1>4, <1>5, FS_NatBijection, FS_CountingElements

\* Rows and results by their requests.
LEMMA TagFacts ==
  ASSUME NEW S, \A x \in S : x.tag \in Requests, NEW s \in Seq(S)
  PROVE  /\ TagsOf(s) \in Seq(Requests) /\ Len(TagsOf(s)) = Len(s)
         /\ Range(TagsOf(s)) = Tags(s) /\ Tags(s) = {x.tag : x \in Range(s)}
         /\ OneEach(s) <=> Once(TagsOf(s))
<1>1. Len(s) \in Nat /\ DOMAIN s = 1..Len(s) /\ \A i \in 1..Len(s) : s[i] \in S
  BY SeqDomain
<1>2. TagsOf(s) = [i \in 1..Len(s) |-> s[i].tag]
  BY <1>1 DEF TagsOf
<1>3. TagsOf(s) \in [1..Len(s) -> Requests]
  BY <1>1, <1>2
<1>4. TagsOf(s) \in Seq(Requests) /\ Len(TagsOf(s)) = Len(s) /\ DOMAIN TagsOf(s) = 1..Len(s)
  BY <1>1, <1>3
<1>5. Range(TagsOf(s)) = Tags(s)
  BY <1>1, <1>2, <1>4 DEF Range, Tags
<1>6. Tags(s) = {x.tag : x \in Range(s)}
  BY <1>1 DEF Range, Tags
<1>7. OneEach(s) <=> Once(TagsOf(s))
  BY <1>1, <1>2, <1>4 DEF OneEach, Once
<1> QED  BY <1>4, <1>5, <1>6, <1>7

LEMMA AppendEach ==
  ASSUME NEW S, NEW s \in Seq(S), NEW x \in S
  PROVE  /\ Tags(Append(s, x)) = Tags(s) \cup {x.tag}
         /\ OneEach(s) /\ x.tag \notin Tags(s) => OneEach(Append(s, x))
<1>1. /\ DOMAIN Append(s, x) = 1..(Len(s) + 1) /\ Append(s, x)[Len(s) + 1] = x
      /\ \A i \in 1..Len(s) : Append(s, x)[i] = s[i]
  BY AppendFacts
<1>2. Len(s) \in Nat /\ DOMAIN s = 1..Len(s)
  BY SeqDomain
<1>3. \A i \in 1..(Len(s) + 1) : i \in 1..Len(s) \/ i = Len(s) + 1
  BY <1>2
<1>4. 1..Len(s) \subseteq 1..(Len(s) + 1) /\ Len(s) + 1 \in 1..(Len(s) + 1)
  BY <1>2
<1>5. Tags(Append(s, x)) \subseteq Tags(s) \cup {x.tag}
  BY <1>1, <1>2, <1>3 DEF Tags
<1>6. Tags(s) \subseteq Tags(Append(s, x))
  BY <1>1, <1>2, <1>4 DEF Tags
<1>7. x.tag \in Tags(Append(s, x))
  BY <1>1, <1>4 DEF Tags
<1>8. ASSUME OneEach(s), x.tag \notin Tags(s), NEW i \in 1..(Len(s) + 1), NEW j \in 1..(Len(s) + 1),
             Append(s, x)[i].tag = Append(s, x)[j].tag
      PROVE  i = j
  <2>1. \A k \in 1..Len(s) : s[k].tag # x.tag
    BY <1>2, <1>8 DEF Tags
  <2>2. CASE i \in 1..Len(s) /\ j \in 1..Len(s)
    BY <1>1, <1>2, <1>8, <2>2 DEF OneEach
  <2>3. CASE i = Len(s) + 1 /\ j \in 1..Len(s)
    BY <1>1, <1>8, <2>1, <2>3
  <2>4. CASE i \in 1..Len(s) /\ j = Len(s) + 1
    BY <1>1, <1>8, <2>1, <2>4
  <2> QED  BY <1>3, <2>2, <2>3, <2>4
<1>9. OneEach(s) /\ x.tag \notin Tags(s) => OneEach(Append(s, x))
  BY <1>1, <1>8 DEF OneEach
<1> QED  BY <1>5, <1>6, <1>7, <1>9

LEMMA RowTags ==
  ASSUME NEW rs \in Seq(Row)
  PROVE  /\ Tags(rs) = {row.tag : row \in Range(rs)} /\ Tags(rs) \subseteq Requests
         /\ Range(rs) \subseteq Row
         /\ OneEach(rs) => \A a, b \in Range(rs) : a.tag = b.tag => a = b
         /\ OneEach(rs) => Cardinality(Tags(rs)) = Len(rs) /\ IsFiniteSet(Tags(rs))
<1>1. \A x \in Row : x.tag \in Requests
  BY DEF Row
<1>2. /\ TagsOf(rs) \in Seq(Requests) /\ Len(TagsOf(rs)) = Len(rs) /\ Range(TagsOf(rs)) = Tags(rs)
      /\ Tags(rs) = {row.tag : row \in Range(rs)}
      /\ OneEach(rs) <=> Once(TagsOf(rs))
  BY <1>1, TagFacts
<1>3. Range(rs) \subseteq Row
  BY SeqDomain
<1>4. Tags(rs) \subseteq Requests
  BY <1>1, <1>2, <1>3
<1>5. OneEach(rs) => \A a, b \in Range(rs) : a.tag = b.tag => a = b
  BY DEF OneEach, Range
<1>6. OneEach(rs) => Cardinality(Tags(rs)) = Len(rs) /\ IsFiniteSet(Tags(rs))
  BY <1>2, OnceIsCounted
<1> QED  BY <1>2, <1>3, <1>4, <1>5, <1>6

\* Rows that are changed in place.
LEMMA InPlace ==
  ASSUME NEW rs \in Seq(Row), NEW ss, DOMAIN ss = DOMAIN rs, ss = [i \in DOMAIN rs |-> ss[i]],
         \A i \in DOMAIN rs : ss[i] \in Row /\ ss[i].tag = rs[i].tag
  PROVE  /\ ss \in Seq(Row) /\ Len(ss) = Len(rs) /\ Tags(ss) = Tags(rs)
         /\ OneEach(rs) => OneEach(ss)
         /\ ss = <<>> <=> rs = <<>>
         /\ \A new \in Range(ss) : \E i \in DOMAIN rs : rs[i] \in Range(rs) /\ rs[i] \in Row /\ new = ss[i]
<1>1. Len(rs) \in Nat /\ DOMAIN rs = 1..Len(rs) /\ \A i \in DOMAIN rs : rs[i] \in Row
  BY SeqDomain
<1>2. ss \in [1..Len(rs) -> Row]
  BY <1>1
<1>3. ss \in Seq(Row) /\ Len(ss) = Len(rs)
  BY <1>1, <1>2
<1>4. Tags(ss) = Tags(rs)
  BY DEF Tags
<1>5. OneEach(rs) => OneEach(ss)
  BY DEF OneEach
<1>6. ss = <<>> <=> rs = <<>>
  BY <1>3, SeqDomain
<1>7. \A new \in Range(ss) : \E i \in DOMAIN rs : rs[i] \in Range(rs) /\ rs[i] \in Row /\ new = ss[i]
  BY <1>1 DEF Range
<1> QED  BY <1>3, <1>4, <1>5, <1>6, <1>7
-----------------------------------------------------------------------------
(* What the invariant gives.                                               *)

LEMMA ModeFacts ==
  ASSUME mode \in Modes
  PROVE  /\ mode.capacity \in Nat \ {0} /\ mode.batch \in Nat \ {0} /\ mode.emit \in Nat \ {0}
         /\ mode.batch <= mode.capacity /\ mode.frames \in Nat /\ mode.inline \in Nat
         /\ mode.overlap \in BOOLEAN /\ mode.decode \in BOOLEAN /\ (mode.decode => mode.overlap)
         /\ mode.offers \subseteq Requests
BY ServeAssumption

LEMMA InvImpliesTypes ==
  ASSUME DriverInv
  PROVE  TypeOK
<1>1. rows \in Seq(Row) /\ prepq \in Seq(Requests) /\ OneEach(rows) /\ Once(prepq)
      /\ Range(prepq) \subseteq Tags(rows)
  BY DEF DriverInv, RowsTyped, ListsOK
<1>2. /\ IsFiniteSet(Range(prepq)) /\ Cardinality(Range(prepq)) = Len(prepq)
      /\ IsFiniteSet(Tags(rows)) /\ Cardinality(Tags(rows)) = Len(rows)
  BY <1>1, OnceIsCounted, RowTags
<1>3. Len(prepq) <= Len(rows)
  BY <1>1, <1>2, FS_Subset
<1> QED  BY <1>3 DEF DriverInv, TypeOK, LoopTyped, RowsTyped, DeviceTyped, AudioTyped, Sound

LEMMA InvImpliesResident ==
  ASSUME DriverInv
  PROVE  InFlightIsResident
<1>1. rows \in Seq(Row) /\ OneEach(rows) /\ ahead \cup Ganged \cup building \cup Tags(built) \subseteq Tags(rows)
  BY DEF DriverInv, RowsTyped, ListsOK
<1>2. ASSUME NEW r \in Tags(rows) PROVE Resident(r)
  <2>1. PICK i \in DOMAIN rows : rows[i].tag = r
    BY DEF Tags
  <2>2. {k \in DOMAIN rows : rows[k].tag = r} = {i}
    BY <1>1, <2>1 DEF OneEach
  <2>3. Cardinality({i}) = 1
    BY FS_Singleton
  <2>4. RowOK(rows[i])
    BY <2>1 DEF DriverInv, RowsOK, Range
  <2> QED  BY <2>1, <2>2, <2>3, <2>4 DEF Resident, RowOK, RowSound
<1> QED  BY <1>1, <1>2, InvImpliesTypes DEF InFlightIsResident

LEMMA InvImpliesWhole ==
  ASSUME DriverInv
  PROVE  SoundIsWhole
<1> SUFFICES ASSUME NEW r \in Requests \ Offline
             PROVE  /\ Alive(rows, r) => audio[r].sent + gang[r] = audio[r].charged /\ audio[r].charged <= audio[r].made
                    /\ outcome[r] = "OK" => audio[r].sent = audio[r].made
  BY DEF SoundIsWhole
<1>1. RequestOK(r)
  BY DEF DriverInv, RequestsOK
<1>2. ASSUME Alive(rows, r) PROVE audio[r].sent + gang[r] = audio[r].charged
  <2>1. PICK i \in DOMAIN rows : rows[i].tag = r /\ ~rows[i].failed /\ ~rows[i].cancelled
    BY <1>2 DEF Alive
  <2>2. RowOK(rows[i])
    BY <2>1 DEF DriverInv, RowsOK, Range
  <2> QED  BY <2>1, <2>2 DEF RowOK, RowSound
<1> QED  BY <1>1, <1>2 DEF RequestOK

LEMMA InitEstablishesInv ==
  ASSUME Init
  PROVE  DriverInv
<1>1. mode.frames \in Nat /\ mode.capacity \in Nat \ {0} /\ mode.batch \in Nat \ {0} /\ mode.segments \in BOOLEAN
  BY ServeAssumption DEF Init
<1>2. Ganged = {} /\ IsFiniteSet({}) /\ Cardinality({}) = 0
  <2>1. \A r \in Requests : gang[r] = 0
    BY DEF Init
  <2> QED  BY <2>1, FS_EmptySet DEF Ganged
<1>3. /\ Range(<<>>) = {} /\ Tags(<<>>) = {} /\ Once(<<>>) /\ OneEach(<<>>) /\ Len(<<>>) = 0
      /\ \A S : <<>> \in Seq(S)
  BY DEF Range, Tags, Once, OneEach
<1>4. LoopTyped
  <2>1. /\ mode \in Modes /\ running = TRUE /\ queue = {} /\ at = "admit" /\ early = FALSE
        /\ admits = 0 /\ rr = 0
    BY DEF Init
  <2>2. 0 \in 0..mode.capacity
    BY <1>1
  <2> QED  BY <2>1, <2>2 DEF LoopTyped, Places
<1>5. RowsTyped
  <2>1. rows = <<>> /\ prepq = <<>> /\ built = <<>> /\ building = {}
    BY DEF Init
  <2> QED  BY <1>1, <1>3, <2>1 DEF RowsTyped
<1>6. DeviceTyped
  <2>1. ahead = {} /\ gang = [r \in Requests |-> 0]
    BY DEF Init
  <2>2. gang \in [Requests -> 0..mode.frames]
    BY <1>1, <2>1
  <2> QED  BY <1>1, <1>2, <2>1, <2>2 DEF DeviceTyped
<1>7. AudioTyped
  <2>1. [made |-> 0, charged |-> 0, sent |-> 0, more |-> mode.segments] \in Sound
    BY <1>1 DEF Sound
  <2> QED  BY <2>1 DEF Init, AudioTyped
<1>8. ListsOK
  BY <1>2, <1>3 DEF Init, ListsOK
<1>9. PlaceOK /\ RowsOK
  BY <1>2, <1>3 DEF Init, PlaceOK, RowsOK
<1>10. RequestsOK
  <2> SUFFICES ASSUME NEW r \in Requests PROVE RequestOK(r)
    BY DEF RequestsOK
  <2>1. audio[r].made = 0 /\ audio[r].charged = 0 /\ audio[r].sent = 0 /\ gang[r] = 0
        /\ outcome[r] = "none" /\ queue = {}
    BY DEF Init
  <2> QED  BY <2>1 DEF RequestOK
<1> QED  BY <1>4, <1>5, <1>6, <1>7, <1>8, <1>9, <1>10 DEF DriverInv
-----------------------------------------------------------------------------
(* The invariant is preserved, action by action.                           *)

\* The driver moves on, queues a step or starts its turn elsewhere.
LEMMA MoveKeepsInv ==
  ASSUME DriverInv, LoopTyped', PlaceOK', ahead' \subseteq Tags(rows), IsFiniteSet(ahead'),
         Cardinality(ahead') <= mode.batch,
         UNCHANGED <<mode, queue, rows, prepq, gang, building, built, audio, outcome>>
  PROVE  DriverInv'
<1>1. RowsTyped' /\ AudioTyped'
  BY DEF DriverInv, RowsTyped, AudioTyped, Sound
<1>2. Ganged' = Ganged
  BY DEF Ganged
<1>3. Tags(rows) \subseteq Requests
  BY RowTags DEF DriverInv, RowsTyped
<1>4. DeviceTyped'
  BY <1>2, <1>3 DEF DriverInv, DeviceTyped
<1>5. ListsOK'
  BY <1>2 DEF DriverInv, ListsOK, Tags
<1>6. RowsOK' /\ RequestsOK'
  BY DEF DriverInv, RowsOK, RowOK, RowSound, RequestsOK, RequestOK, Tags
<1> QED  BY <1>1, <1>4, <1>5, <1>6 DEF DriverInv

LEMMA AdmitDoneKeepsInv ==
  ASSUME DriverInv, AdmitDone
  PROVE  DriverInv'
<1>1. at = "admit" /\ at' \in {"returned", "attach", "cancel"} /\ (at' = "returned" <=> rows = <<>>)
  BY DEF AdmitDone
<1>2. UNCHANGED <<mode, running, queue, early, admits, rows, prepq, rr, ahead, gang,
                  building, built, audio, outcome>>
  BY DEF AdmitDone
<1>3. rows = <<>> => Ganged = {}
  <2>1. Tags(<<>>) = {}
    BY DEF Tags
  <2> QED  BY <2>1 DEF DriverInv, ListsOK
<1>4. LoopTyped'
  BY <1>1, <1>2 DEF DriverInv, LoopTyped, Places
<1>5. PlaceOK'
  <2>1. Ganged' = Ganged
    BY <1>2 DEF Ganged
  <2> QED  BY <1>1, <1>2, <1>3, <2>1 DEF DriverInv, PlaceOK
<1> QED  BY <1>2, <1>4, <1>5, MoveKeepsInv DEF DriverInv, DeviceTyped, ListsOK

LEMMA LateDoneKeepsInv ==
  ASSUME DriverInv, LateDone
  PROVE  DriverInv'
<1>1. /\ at \in {"late", "later"}
      /\ at' = "again" \/ at' = AfterPrefill
      /\ UNCHANGED <<mode, running, queue, early, admits, rows, prepq, rr, ahead, gang,
                     building, built, audio, outcome>>
  BY DEF LateDone
<1>2. LoopTyped'
  BY <1>1 DEF DriverInv, LoopTyped, Places, AfterPrefill
<1>3. PlaceOK'
  <2>1. Ganged' = Ganged
    BY <1>1 DEF Ganged
  <2> QED  BY <1>1, <2>1 DEF DriverInv, PlaceOK, AfterPrefill
<1> QED  BY <1>1, <1>2, <1>3, MoveKeepsInv DEF DriverInv, DeviceTyped, ListsOK

LEMMA StepNobodyKeepsInv ==
  ASSUME DriverInv, StepNobody
  PROVE  DriverInv'
<1>1. /\ at = "step" /\ at' = "retire" /\ rr' = (rr + 1) % Len(rows)
      /\ UNCHANGED <<mode, running, queue, early, admits, rows, prepq, ahead, gang, building,
                     built, audio, outcome>>
  BY DEF StepNobody
<1>2. rows # <<>> /\ Ganged = {}
  BY <1>1 DEF DriverInv, PlaceOK
<1>3. Len(rows) \in Nat \ {0} /\ Len(rows) <= mode.capacity /\ mode.capacity \in Nat
  BY <1>2, SeqDomain, ModeFacts DEF DriverInv, LoopTyped, RowsTyped
<1>4. rr' \in 0..mode.capacity
  <2>1. rr \in Nat
    BY <1>3 DEF DriverInv, LoopTyped
  <2>2. (rr + 1) % Len(rows) \in 0..(Len(rows) - 1)
    BY <1>3, <2>1
  <2> QED  BY <1>1, <1>3, <2>2
<1>5. LoopTyped'
  BY <1>1, <1>4 DEF DriverInv, LoopTyped, Places
<1>6. PlaceOK'
  <2>1. Ganged' = Ganged
    BY <1>1 DEF Ganged
  <2> QED  BY <1>1, <1>2, <2>1 DEF DriverInv, PlaceOK
<1> QED  BY <1>1, <1>5, <1>6, MoveKeepsInv DEF DriverInv, DeviceTyped, ListsOK

LEMMA LaunchKeepsInv ==
  ASSUME DriverInv, Launch
  PROVE  DriverInv'
<1> DEFINE gone == {rows[i].tag : i \in {k \in DOMAIN rows : rows[k].st = "ended"}}
           kept == SwapRemove(rows, gone)
           turn == Turn(kept, rr)
<1>1. /\ at = "launch" /\ at' \in {"admit", "retire"} /\ (mode.decode => at' = "admit")
      /\ admits' \in {0, admits}
      /\ UNCHANGED <<mode, running, queue, early, rows, prepq, gang, building, built, audio, outcome>>
  BY DEF Launch
<1>2. (ahead' = turn.who /\ rr' = turn.next) \/ UNCHANGED <<ahead, rr>>
  BY Zenon DEF Launch
<1>3. rows \in Seq(Row) /\ OneEach(rows) /\ Len(rows) \in Nat /\ Len(rows) <= mode.capacity
  BY SeqDomain DEF DriverInv, RowsTyped, ListsOK
<1>4. mode.capacity \in Nat /\ mode.batch \in Nat /\ rr \in 0..mode.capacity
  BY ModeFacts DEF DriverInv, LoopTyped
<1>5. /\ kept \in Seq(Row) /\ Len(kept) <= Len(rows) /\ Len(kept) \in Nat
      /\ Range(kept) = {row \in Range(rows) : row.tag \notin gone}
  BY <1>3, SwapRemoveFacts, SeqDomain
<1> HIDE DEF gone, kept
<1>6. /\ turn.who \subseteq {kept[i].tag : i \in {k \in DOMAIN kept : kept[k].st = "active"}}
      /\ IsFiniteSet(turn.who) /\ Cardinality(turn.who) <= mode.batch
      /\ turn.next \in 0..Len(kept) \cup {rr}
  BY <1>4, <1>5, TurnFacts
<1>7. turn.who \subseteq Tags(rows)
  <2>1. \A i \in DOMAIN kept : kept[i] \in Range(rows)
    BY <1>5 DEF Range
  <2> QED  BY <1>6, <2>1 DEF Range, Tags
<1>8. turn.next \in 0..mode.capacity
  BY <1>3, <1>4, <1>5, <1>6
<1>9. LoopTyped'
  <2>1. rr' \in 0..mode.capacity
    BY <1>2, <1>4, <1>8
  <2> QED  BY <1>1, <2>1 DEF DriverInv, LoopTyped, Places
<1>10. PlaceOK'
  <2>1. Ganged' = Ganged
    BY <1>1 DEF Ganged
  <2>2. mode.decode \in BOOLEAN
    BY ModeFacts DEF DriverInv, LoopTyped
  <2> QED  BY <1>1, <2>1, <2>2 DEF DriverInv, PlaceOK
<1>11. ahead' \subseteq Tags(rows) /\ IsFiniteSet(ahead') /\ Cardinality(ahead') <= mode.batch
  BY <1>2, <1>6, <1>7 DEF DriverInv, DeviceTyped, ListsOK
<1> QED  BY <1>1, <1>9, <1>10, <1>11, MoveKeepsInv

LEMMA StopKeepsInv ==
  ASSUME DriverInv, Stop
  PROVE  DriverInv'
<1>1. /\ running' = FALSE
      /\ UNCHANGED <<mode, queue, at, early, admits, rows, prepq, rr, ahead, gang, building,
                     built, audio, outcome>>
  BY DEF Stop
<1>2. LoopTyped'
  BY <1>1 DEF DriverInv, LoopTyped
<1>3. PlaceOK'
  BY <1>1 DEF DriverInv, PlaceOK, Ganged
<1> QED  BY <1>1, <1>2, <1>3, MoveKeepsInv DEF DriverInv, DeviceTyped, ListsOK

LEMMA OfferKeepsInv ==
  ASSUME DriverInv, NEW r \in Requests, Offer(r)
  PROVE  DriverInv'
<1>1. /\ outcome[r] = "none" /\ r \notin Tags(rows) /\ queue' = queue \cup {r}
      /\ UNCHANGED <<mode, running, at, early, admits, rows, prepq, rr, ahead, gang, building,
                     built, audio, outcome>>
  BY DEF Offer
<1>2. LoopTyped'
  BY <1>1 DEF DriverInv, LoopTyped
<1>3. Ganged' = Ganged
  BY <1>1 DEF Ganged
<1>4. RowsTyped' /\ DeviceTyped' /\ AudioTyped' /\ ListsOK' /\ PlaceOK'
  <2>1. RowsTyped' /\ AudioTyped'
    BY <1>1 DEF DriverInv, RowsTyped, AudioTyped, Sound
  <2>2. DeviceTyped' /\ ListsOK'
    BY <1>1, <1>3 DEF DriverInv, DeviceTyped, ListsOK, Tags
  <2>3. PlaceOK'
    BY <1>1, <1>3 DEF DriverInv, PlaceOK
  <2> QED  BY <2>1, <2>2, <2>3
<1>5. RequestsOK'
  BY <1>1 DEF DriverInv, RequestsOK, RequestOK, Tags
<1>6. RowsOK'
  <2>1. \A row \in Range(rows) : row.tag \in Tags(rows)
    BY RowTags DEF DriverInv, RowsTyped
  <2>2. \A row \in Range(rows) : row.tag # r
    BY <1>1, <2>1
  <2> QED  BY <1>1, <2>2 DEF DriverInv, RowsOK, RowOK, RowSound, Tags
<1> QED  BY <1>2, <1>4, <1>5, <1>6 DEF DriverInv

LEMMA HelperBuildsKeepsInv ==
  ASSUME DriverInv, NEW r \in Requests, NEW ok \in BOOLEAN, HelperBuilds(r, ok)
  PROVE  DriverInv'
<1> DEFINE b == [tag |-> r, ok |-> ok]
           S == [tag : Requests, ok : BOOLEAN]
<1>1. /\ r \in building /\ building' = building \ {r} /\ built' = Append(built, b)
      /\ UNCHANGED <<mode, running, queue, at, early, admits, rows, prepq, rr, ahead, gang,
                     audio, outcome>>
  BY DEF HelperBuilds
<1>2. built \in Seq(S) /\ b \in S /\ b.tag = r
  BY DEF DriverInv, RowsTyped
<1>3. r \notin Tags(built) /\ OneEach(built) /\ building \cap Tags(built) = {} /\ building \subseteq Requests
  BY <1>1 DEF DriverInv, ListsOK, RowsTyped
<1>4. Append(built, b) \in Seq(S)
  BY <1>2, AppendFacts
<1> HIDE DEF b
<1>5. Tags(built') = Tags(built) \cup {r} /\ OneEach(built')
  <2> HIDE DEF S
  <2> QED  BY <1>1, <1>2, <1>3, AppendEach
<1>6. building' \cup Tags(built') = building \cup Tags(built) /\ building' \cap Tags(built') = {}
  BY <1>1, <1>3, <1>5
<1>7. Ganged' = Ganged /\ Tags(rows)' = Tags(rows)
  BY <1>1 DEF Ganged
<1>8. LoopTyped' /\ AudioTyped' /\ PlaceOK'
  BY <1>1, <1>7 DEF DriverInv, LoopTyped, AudioTyped, Sound, PlaceOK
<1>9. RowsTyped' /\ DeviceTyped'
  BY <1>1, <1>3, <1>4, <1>7 DEF DriverInv, RowsTyped, DeviceTyped
<1>10. ListsOK'
  BY <1>1, <1>5, <1>6, <1>7 DEF DriverInv, ListsOK
<1>11. RequestsOK'
  BY <1>1, <1>7 DEF DriverInv, RequestsOK, RequestOK
<1>12. RowsOK'
  BY <1>1, <1>6 DEF DriverInv, RowsOK, RowOK, RowSound
<1> QED  BY <1>8, <1>9, <1>10, <1>11, <1>12 DEF DriverInv

\* Rows fail, are cancelled, start or end their prefill where they are: each
\* keeps its request, its marks for the device, and no failure is undone.
LEMMA RowsChangeInPlace ==
  ASSUME DriverInv, LoopTyped', PlaceOK',
         rows' = [i \in DOMAIN rows |-> rows'[i]], DOMAIN rows' = DOMAIN rows,
         \A i \in DOMAIN rows :
           LET old == rows[i]
               new == rows'[i]
           IN /\ new \in Row /\ new.tag = old.tag /\ new.held = old.held
              /\ old.failed => new.failed
              /\ old.cancelled => new.cancelled
              /\ new.cancelled => new.st = "ended"
              /\ new.st = "preparing" <=> new.tag \in Range(prepq')
              /\ new.st = "starting" <=> new.tag \in building' \cup Tags(built')
              /\ new.st = "ended" => new.failed \/ new.cancelled \/ old.st = "ended",
         prepq' \in Seq(Requests), Once(prepq'), Range(prepq') \subseteq Tags(rows),
         building' = building, built' \in Seq([tag : Requests, ok : BOOLEAN]), OneEach(built'),
         Tags(built') \subseteq Tags(built),
         UNCHANGED <<mode, queue, ahead, gang, audio, outcome>>
  PROVE  DriverInv'
<1>1. rows \in Seq(Row) /\ OneEach(rows)
  BY DEF DriverInv, RowsTyped, ListsOK
<1>2. \A i \in DOMAIN rows : rows'[i] \in Row /\ rows'[i].tag = rows[i].tag
  OBVIOUS
<1>3. /\ rows' \in Seq(Row) /\ Len(rows') = Len(rows) /\ Tags(rows') = Tags(rows) /\ OneEach(rows')
      /\ \A new \in Range(rows') : \E i \in DOMAIN rows : rows[i] \in Range(rows) /\ rows[i] \in Row /\ new = rows'[i]
  BY <1>1, <1>2, InPlace
<1>4. Ganged' = Ganged
  BY DEF Ganged
<1>5. RowsTyped' /\ DeviceTyped' /\ AudioTyped'
  BY <1>3, <1>4 DEF DriverInv, RowsTyped, DeviceTyped, AudioTyped, Sound
<1>6. ListsOK'
  BY <1>3, <1>4 DEF DriverInv, ListsOK
<1>7. RequestsOK'
  BY <1>3 DEF DriverInv, RequestsOK, RequestOK
<1>8. RowsOK'
  <2> SUFFICES ASSUME NEW new \in Range(rows') PROVE RowOK(new)'
    BY DEF RowsOK
  <2>1. PICK i \in DOMAIN rows : rows[i] \in Range(rows) /\ rows[i] \in Row /\ new = rows'[i]
    BY <1>3
  <2>2. RowOK(rows[i])
    BY <2>1 DEF DriverInv, RowsOK
  <2> DEFINE old == rows[i]
  <2>3. /\ new \in Row /\ new.tag = old.tag /\ new.held = old.held
        /\ old.failed => new.failed
        /\ old.cancelled => new.cancelled
        /\ new.cancelled => new.st = "ended"
        /\ new.st = "ended" => new.failed \/ new.cancelled \/ old.st = "ended"
    BY <2>1
  <2>4. /\ new.st = "preparing" <=> new.tag \in Range(prepq')
        /\ new.st = "starting" <=> new.tag \in building' \cup Tags(built')
    BY <2>1
  <2> HIDE DEF old
  <2>5. /\ old.failed \in BOOLEAN /\ old.cancelled \in BOOLEAN /\ old.held \in BOOLEAN
        /\ new.failed \in BOOLEAN /\ new.cancelled \in BOOLEAN
    BY <2>1, <2>3 DEF Row, old
  <2>6. /\ outcome[old.tag] = "none" /\ old.tag \notin queue /\ (gang[old.tag] > 0 => old.held)
        /\ ~old.failed /\ ~old.cancelled /\ old.tag \notin Offline =>
             /\ audio[old.tag].sent + gang[old.tag] = audio[old.tag].charged
             /\ old.st = "ended" => audio[old.tag].charged = audio[old.tag].made
    BY <2>2 DEF RowOK, RowSound, old
  <2>7. /\ outcome'[new.tag] = "none" /\ new.tag \notin queue' /\ (gang'[new.tag] > 0 => new.held)
    BY <2>3, <2>5, <2>6
  <2>8. ~new.failed /\ ~new.cancelled /\ new.tag \notin Offline =>
             /\ audio'[new.tag].sent + gang'[new.tag] = audio'[new.tag].charged
             /\ new.st = "ended" => audio'[new.tag].charged = audio'[new.tag].made
    BY <2>3, <2>5, <2>6
  <2> QED  BY <2>3, <2>4, <2>7, <2>8 DEF RowOK, RowSound
<1> QED  BY <1>5, <1>6, <1>7, <1>8 DEF DriverInv

\* What the edits of a row leave of it.
LEMMA RowEdits ==
  ASSUME NEW row \in Row
  PROVE  /\ FailNow(row) \in Row /\ FailNow(row).tag = row.tag /\ FailNow(row).held = row.held
         /\ FailNow(row).failed /\ FailNow(row).cancelled = row.cancelled /\ FailNow(row).st = "ended"
         /\ Fail(row) \in Row /\ Fail(row).tag = row.tag /\ Fail(row).held = row.held
         /\ Fail(row).failed /\ Fail(row).cancelled = row.cancelled
         /\ Fail(row).st = IF row.st = "active" THEN "ended" ELSE row.st
         /\ row.tag \in Requests /\ row.st \in {"starting", "preparing", "active", "ended"}
         /\ row.failed \in BOOLEAN /\ row.cancelled \in BOOLEAN /\ row.held \in BOOLEAN
BY DEF Row, Fail, FailNow

LEMMA AttachKeepsInv ==
  ASSUME DriverInv, Attach
  PROVE  DriverInv'
<1> DEFINE S == [tag : Requests, ok : BOOLEAN]
           ok == {built[i].tag : i \in {k \in DOMAIN built : built[k].ok}}
<1>1. PICK bad \in SUBSET Tags(built) :
        rows' = Attached(ok \ bad) /\ prepq' = prepq \o Keep(TagsOf(built), ok \ bad)
  BY DEF Attach
<1>2. /\ at \in {"attach", "reattach"} /\ built' = <<>>
      /\ at' = (IF at = "attach" THEN "cancel" ELSE AfterCancel)
      /\ early' = (early /\ (at = "attach" \/ mode.decode))
      /\ UNCHANGED <<mode, running, queue, admits, rr, ahead, gang, building, audio, outcome>>
  BY DEF Attach
<1> DEFINE good == ok \ bad
<1>3. good \subseteq Tags(built)
  BY DEF Tags
<1>4. rows' = Attached(good) /\ prepq' = prepq \o Keep(TagsOf(built), good)
  BY <1>1
<1> HIDE DEF good
<1>5. /\ rows \in Seq(Row) /\ prepq \in Seq(Requests) /\ built \in Seq(S)
      /\ OneEach(built) /\ Once(prepq) /\ building \cap Tags(built) = {}
      /\ Range(prepq) \cup building \cup Tags(built) \cup Ganged \subseteq Tags(rows)
  BY DEF DriverInv, RowsTyped, ListsOK
<1>6. \A i \in DOMAIN rows : rows[i] \in Row /\ RowOK(rows[i])
  BY <1>5, SeqDomain DEF DriverInv, RowsOK, Range
<1>7. Range(prepq) \cap Tags(built) = {}
  <2> SUFFICES ASSUME NEW r \in Range(prepq), r \in Tags(built) PROVE FALSE
    OBVIOUS
  <2>1. PICK i \in DOMAIN rows : rows[i].tag = r
    BY <1>5 DEF Tags
  <2> QED  BY <1>6, <2>1 DEF RowOK, RowSound
<1>8. /\ Keep(TagsOf(built), good) \in Seq(Requests) /\ Range(Keep(TagsOf(built), good)) = good
      /\ Once(Keep(TagsOf(built), good))
  <2>1. \A x \in S : x.tag \in Requests
    OBVIOUS
  <2> HIDE DEF S
  <2>2. TagsOf(built) \in Seq(Requests) /\ Range(TagsOf(built)) = Tags(built) /\ Once(TagsOf(built))
    BY <1>5, <2>1, TagFacts
  <2>3. Tags(built) \cap good = good
    BY <1>3
  <2> DEFINE tags == TagsOf(built)
  <2>4. tags \in Seq(Requests) /\ Range(tags) = Tags(built) /\ Once(tags)
    BY <2>2
  <2> HIDE DEF tags
  <2>5. Keep(tags, good) \in Seq(Requests) /\ Range(Keep(tags, good)) = Range(tags) \cap good /\ Once(Keep(tags, good))
    BY <2>4, KeepFacts
  <2> QED  BY <2>3, <2>4, <2>5 DEF tags
<1>9. prepq' \in Seq(Requests) /\ Once(prepq') /\ Range(prepq') = Range(prepq) \cup good
  <2>1. Range(prepq) \cap Range(Keep(TagsOf(built), good)) = {}
    BY <1>3, <1>7, <1>8
  <2> QED  BY <1>4, <1>5, <1>8, <2>1, ConcatFacts
<1>10. /\ DOMAIN rows' = DOMAIN rows /\ rows' = [i \in DOMAIN rows |-> rows'[i]]
       /\ \A i \in DOMAIN rows :
            rows'[i] = CASE rows[i].tag \in good -> [rows[i] EXCEPT !.st = "preparing"]
                         [] rows[i].tag \in Tags(built) \ good -> FailNow(rows[i])
                         [] rows[i].tag \notin Tags(built) -> rows[i]
  BY <1>4 DEF Attached
<1>11. ASSUME NEW i \in DOMAIN rows
       PROVE  LET old == rows[i]
                  new == rows'[i]
              IN /\ new \in Row /\ new.tag = old.tag /\ new.held = old.held
                 /\ old.failed => new.failed
                 /\ old.cancelled => new.cancelled
                 /\ new.cancelled => new.st = "ended"
                 /\ new.st = "preparing" <=> new.tag \in Range(prepq')
                 /\ new.st = "starting" <=> new.tag \in building
                 /\ new.st = "ended" => new.failed \/ new.cancelled \/ old.st = "ended"
  <2> DEFINE old == rows[i]
             new == rows'[i]
  <2>1. /\ old \in Row /\ (old.cancelled => old.st = "ended")
        /\ old.st = "preparing" <=> old.tag \in Range(prepq)
        /\ old.st = "starting" <=> old.tag \in building \cup Tags(built)
    BY <1>6 DEF RowOK, RowSound
  <2>2. new = CASE old.tag \in good -> [old EXCEPT !.st = "preparing"]
                [] old.tag \in Tags(built) \ good -> FailNow(old)
                [] old.tag \notin Tags(built) -> old
    BY <1>10
  <2> HIDE DEF old, new
  <2>3. CASE old.tag \in good
    <3>1. new = [old EXCEPT !.st = "preparing"]
      BY <1>3, <2>2, <2>3
    <3>2. /\ new \in Row /\ new.tag = old.tag /\ new.held = old.held /\ new.failed = old.failed
          /\ new.cancelled = old.cancelled /\ new.st = "preparing"
      BY <2>1, <3>1 DEF Row
    <3> QED  BY <1>3, <1>5, <1>9, <2>1, <2>3, <3>2 DEF old, new
  <2>4. CASE old.tag \in Tags(built) \ good
    <3>1. new = FailNow(old)
      BY <2>2, <2>4
    <3>2. /\ new \in Row /\ new.tag = old.tag /\ new.held = old.held /\ new.failed
          /\ new.cancelled = old.cancelled /\ new.st = "ended"
      BY <2>1, <3>1, RowEdits
    <3> QED  BY <1>5, <1>7, <1>9, <2>1, <2>4, <3>2 DEF old, new
  <2>5. CASE old.tag \notin Tags(built)
    <3>1. new = old
      BY <1>3, <2>2, <2>5
    <3> QED  BY <1>3, <1>9, <2>1, <2>5, <3>1 DEF old, new
  <2> QED  BY <2>3, <2>4, <2>5
<1>12. built' \in Seq(S) /\ OneEach(built') /\ Tags(built') = {}
  BY <1>2 DEF OneEach, Tags
<1>13. mode.decode \in BOOLEAN /\ early \in BOOLEAN
  BY ModeFacts DEF DriverInv, LoopTyped
<1>14. LoopTyped'
  <2>1. at' \in Places /\ early' \in BOOLEAN
    BY <1>2, <1>13 DEF Places, AfterCancel
  <2> QED  BY <1>2, <2>1 DEF DriverInv, LoopTyped
<1>15. PlaceOK'
  <2>1. Ganged' = Ganged
    BY <1>2 DEF Ganged
  <2>2. rows # <<>>
    BY <1>2 DEF DriverInv, PlaceOK
  <2>3. rows' # <<>>
    BY <1>5, <1>10, <2>2, SeqDomain
  <2>4. mode.decode => at' \in {"cancel", "collect"}
    BY <1>2 DEF AfterCancel
  <2> QED  BY <1>2, <2>1, <2>3, <2>4 DEF DriverInv, PlaceOK
<1>16. Range(prepq') \subseteq Tags(rows) /\ building' \cup Tags(built') = building
  BY <1>2, <1>3, <1>5, <1>9, <1>12
<1> QED  BY <1>2, <1>9, <1>10, <1>11, <1>12, <1>14, <1>15, <1>16, RowsChangeInPlace

LEMMA CancelKeepsInv ==
  ASSUME DriverInv, Cancel
  PROVE  DriverInv'
<1> DEFINE shown == {rows[i].tag : i \in {k \in DOMAIN rows : rows[k].st \in {"preparing", "active"}}}
<1>1. PICK gone \in SUBSET shown :
        /\ rows' = [i \in DOMAIN rows |->
                      IF rows[i].tag \in gone
                      THEN [rows[i] EXCEPT !.cancelled = TRUE, !.st = "ended"] ELSE rows[i]]
        /\ prepq' = Keep(prepq, Requests \ gone)
  BY DEF Cancel
<1>2. /\ at = "cancel" /\ at' \in {"reattach", AfterCancel}
      /\ early' = (early /\ (Async \/ mode.decode))
      /\ UNCHANGED <<mode, running, queue, admits, rr, ahead, gang, building, built, audio, outcome>>
  BY DEF Cancel
<1>3. /\ rows \in Seq(Row) /\ prepq \in Seq(Requests) /\ built \in Seq([tag : Requests, ok : BOOLEAN])
      /\ OneEach(rows) /\ OneEach(built) /\ Once(prepq) /\ Range(prepq) \subseteq Tags(rows)
  BY DEF DriverInv, RowsTyped, ListsOK
<1>4. \A i \in DOMAIN rows : rows[i] \in Row /\ RowOK(rows[i])
  BY <1>3, SeqDomain DEF DriverInv, RowsOK, Range
<1>5. Range(prepq) \subseteq Requests
  BY <1>3, SeqDomain
<1>6. prepq' \in Seq(Requests) /\ Once(prepq') /\ Range(prepq') = Range(prepq) \ gone
  <2>1. Range(prepq) \cap (Requests \ gone) = Range(prepq) \ gone
    BY <1>5
  <2> QED  BY <1>1, <1>3, <2>1, KeepFacts
<1>7. \A i \in DOMAIN rows : rows[i].tag \in gone => rows[i].st \in {"preparing", "active"}
  <2> SUFFICES ASSUME NEW i \in DOMAIN rows, rows[i].tag \in gone
               PROVE  rows[i].st \in {"preparing", "active"}
    OBVIOUS
  <2>1. PICK k \in DOMAIN rows : rows[k].st \in {"preparing", "active"} /\ rows[k].tag = rows[i].tag
    OBVIOUS
  <2> QED  BY <1>3, <2>1 DEF OneEach
<1>8. /\ DOMAIN rows' = DOMAIN rows /\ rows' = [i \in DOMAIN rows |-> rows'[i]]
      /\ \A i \in DOMAIN rows :
           rows'[i] = IF rows[i].tag \in gone
                      THEN [rows[i] EXCEPT !.cancelled = TRUE, !.st = "ended"] ELSE rows[i]
  BY <1>1
<1>9. ASSUME NEW i \in DOMAIN rows
      PROVE  LET old == rows[i]
                 new == rows'[i]
             IN /\ new \in Row /\ new.tag = old.tag /\ new.held = old.held
                /\ old.failed => new.failed
                /\ old.cancelled => new.cancelled
                /\ new.cancelled => new.st = "ended"
                /\ new.st = "preparing" <=> new.tag \in Range(prepq')
                /\ new.st = "starting" <=> new.tag \in building \cup Tags(built)
                /\ new.st = "ended" => new.failed \/ new.cancelled \/ old.st = "ended"
  <2> DEFINE old == rows[i]
             new == rows'[i]
  <2>1. /\ old \in Row /\ (old.cancelled => old.st = "ended")
        /\ old.st = "preparing" <=> old.tag \in Range(prepq)
        /\ old.st = "starting" <=> old.tag \in building \cup Tags(built)
        /\ old.tag \in gone => old.st \in {"preparing", "active"}
    BY <1>4, <1>7 DEF RowOK, RowSound
  <2>2. new = IF old.tag \in gone THEN [old EXCEPT !.cancelled = TRUE, !.st = "ended"] ELSE old
    BY <1>8
  <2> HIDE DEF old, new
  <2>3. CASE old.tag \in gone
    <3>1. new = [old EXCEPT !.cancelled = TRUE, !.st = "ended"]
      BY <2>2, <2>3
    <3>2. /\ new \in Row /\ new.tag = old.tag /\ new.held = old.held /\ new.failed = old.failed
          /\ new.cancelled /\ new.st = "ended"
      BY <2>1, <3>1 DEF Row
    <3> QED  BY <1>6, <2>1, <2>3, <3>2 DEF old, new
  <2>4. CASE old.tag \notin gone
    <3>1. new = old
      BY <2>2, <2>4
    <3> QED  BY <1>6, <2>1, <2>4, <3>1 DEF old, new
  <2> QED  BY <2>3, <2>4
<1>10. mode.decode \in BOOLEAN /\ early \in BOOLEAN
  BY ModeFacts DEF DriverInv, LoopTyped
<1>11. LoopTyped'
  <2>1. at' \in Places
    BY <1>2 DEF Places, AfterCancel
  <2>2. early' \in BOOLEAN
    BY <1>2, <1>10
  <2> QED  BY <1>2, <2>1, <2>2 DEF DriverInv, LoopTyped
<1>12. PlaceOK'
  <2>1. Ganged' = Ganged
    BY <1>2 DEF Ganged
  <2>2. rows # <<>>
    BY <1>2 DEF DriverInv, PlaceOK
  <2>3. rows' # <<>>
    <3>1. DOMAIN rows' = DOMAIN rows
      BY <1>8, Zenon
    <3>2. Len(rows) \in Nat /\ DOMAIN rows = 1..Len(rows) /\ Len(rows) # 0
      BY <1>3, <2>2, SeqDomain
    <3>3. 1 \in DOMAIN rows
      BY <3>2
    <3>4. 1 \notin DOMAIN <<>>
      OBVIOUS
    <3> QED  BY <3>1, <3>3, <3>4, Zenon
  <2>4. mode.decode => at' \in {"reattach", "collect"}
    BY <1>2 DEF AfterCancel
  <2> QED  BY <1>2, <2>1, <2>3, <2>4 DEF DriverInv, PlaceOK
<1>13. Range(prepq') \subseteq Tags(rows) /\ building' \cup Tags(built') = building \cup Tags(built)
  BY <1>2, <1>3, <1>6
<1>14. Tags(built') = Tags(built) /\ built' = built
  BY <1>2
<1> QED  BY <1>2, <1>3, <1>6, <1>8, <1>9, <1>11, <1>12, <1>13, <1>14, RowsChangeInPlace

LEMMA PrefilledKeepsInv ==
  ASSUME DriverInv, NEW done \in SUBSET Range(prepq), NEW bad \in SUBSET Range(prepq), SlicePass(done, bad),
         Prefilled(done, bad), LoopTyped', PlaceOK',
         UNCHANGED <<mode, queue, ahead, gang, building, built, audio, outcome>>
  PROVE  DriverInv'
<1>1. done \cap bad = {}
  BY DEF SlicePass
<1>2. /\ rows \in Seq(Row) /\ prepq \in Seq(Requests) /\ built \in Seq([tag : Requests, ok : BOOLEAN])
      /\ OneEach(built) /\ Once(prepq) /\ Range(prepq) \subseteq Tags(rows)
  BY DEF DriverInv, RowsTyped, ListsOK
<1>3. \A i \in DOMAIN rows : rows[i] \in Row /\ RowOK(rows[i])
  BY <1>2, SeqDomain DEF DriverInv, RowsOK, Range
<1>4. prepq' \in Seq(Requests) /\ Once(prepq') /\ Range(prepq') = Range(prepq) \ (done \cup bad)
  <2>1. Range(prepq) \cap (Requests \ (done \cup bad)) = Range(prepq) \ (done \cup bad)
    BY <1>2, SeqDomain
  <2> QED  BY <1>2, <2>1, KeepFacts DEF Prefilled
<1>5. /\ DOMAIN rows' = DOMAIN rows /\ rows' = [i \in DOMAIN rows |-> rows'[i]]
      /\ \A i \in DOMAIN rows :
           rows'[i] = CASE rows[i].tag \in done -> [rows[i] EXCEPT !.st = "active", !.spent = FALSE]
                        [] rows[i].tag \in bad -> FailNow(rows[i])
                        [] rows[i].tag \notin done \cup bad -> rows[i]
  <2> DEFINE New(i) == CASE rows[i].tag \in done -> [rows[i] EXCEPT !.st = "active", !.spent = FALSE]
                         [] rows[i].tag \in bad -> FailNow(rows[i])
                         [] rows[i].tag \notin done \cup bad -> rows[i]
  <2>1. rows' = [i \in DOMAIN rows |-> New(i)]
    BY Zenon DEF Prefilled
  <2>2. /\ DOMAIN rows' = DOMAIN rows /\ rows' = [i \in DOMAIN rows |-> rows'[i]]
        /\ \A i \in DOMAIN rows : rows'[i] = New(i)
    <3> HIDE DEF New
    <3> QED  BY <2>1
  <2> QED  BY <2>2
<1>6. ASSUME NEW i \in DOMAIN rows
      PROVE  LET old == rows[i]
                 new == rows'[i]
             IN /\ new \in Row /\ new.tag = old.tag /\ new.held = old.held
                /\ old.failed => new.failed
                /\ old.cancelled => new.cancelled
                /\ new.cancelled => new.st = "ended"
                /\ new.st = "preparing" <=> new.tag \in Range(prepq')
                /\ new.st = "starting" <=> new.tag \in building \cup Tags(built)
                /\ new.st = "ended" => new.failed \/ new.cancelled \/ old.st = "ended"
  <2> DEFINE old == rows[i]
             new == rows'[i]
  <2>1. /\ old \in Row /\ (old.cancelled => old.st = "ended")
        /\ old.st = "preparing" <=> old.tag \in Range(prepq)
        /\ old.st = "starting" <=> old.tag \in building \cup Tags(built)
    BY <1>3 DEF RowOK, RowSound
  <2>2. new = CASE old.tag \in done -> [old EXCEPT !.st = "active", !.spent = FALSE]
                [] old.tag \in bad -> FailNow(old)
                [] old.tag \notin done \cup bad -> old
    BY <1>5
  <2> HIDE DEF old, new
  <2>3. CASE old.tag \in done
    <3>1. new = [old EXCEPT !.st = "active", !.spent = FALSE]
      BY <1>1, <2>2, <2>3
    <3>2. /\ new \in Row /\ new.tag = old.tag /\ new.held = old.held /\ new.failed = old.failed
          /\ new.cancelled = old.cancelled /\ new.st = "active"
      BY <2>1, <3>1 DEF Row
    <3> QED  BY <1>4, <2>1, <2>3, <3>2 DEF old, new
  <2>4. CASE old.tag \in bad
    <3>1. new = FailNow(old)
      BY <1>1, <2>2, <2>4
    <3>2. /\ new \in Row /\ new.tag = old.tag /\ new.held = old.held /\ new.failed
          /\ new.cancelled = old.cancelled /\ new.st = "ended"
      BY <2>1, <3>1, RowEdits
    <3> QED  BY <1>4, <2>1, <2>4, <3>2 DEF old, new
  <2>5. CASE old.tag \notin done \cup bad
    <3>1. new = old
      BY <2>2, <2>5
    <3> QED  BY <1>4, <2>1, <2>5, <3>1 DEF old, new
  <2> QED  BY <2>3, <2>4, <2>5
<1>7. Range(prepq') \subseteq Tags(rows) /\ building' \cup Tags(built') = building \cup Tags(built)
  BY <1>2, <1>4
<1>8. Tags(built') = Tags(built) /\ built' = built
  OBVIOUS
<1> QED  BY <1>2, <1>4, <1>5, <1>6, <1>7, <1>8, RowsChangeInPlace

LEMMA PrefillKeepsInv ==
  ASSUME DriverInv, Prefill \/ PrefillAgain
  PROVE  DriverInv'
<1>1. PICK done \in SUBSET Range(prepq) : \E bad \in SUBSET Range(prepq) : SlicePass(done, bad) /\ Prefilled(done, bad)
  BY DEF Prefill, PrefillAgain
<1>2. PICK bad \in SUBSET Range(prepq) : SlicePass(done, bad) /\ Prefilled(done, bad)
  BY <1>1
<1>3. /\ at \in {"prefill", "again"} /\ at' \in {"late", AfterPrefill}
      /\ UNCHANGED <<mode, running, queue, early, admits, rr, ahead, gang, building, built,
                     audio, outcome>>
  BY DEF Prefill, PrefillAgain
<1>4. LoopTyped'
  BY <1>3 DEF DriverInv, LoopTyped, Places, AfterPrefill
<1>5. PlaceOK'
  <2>1. Ganged' = Ganged
    BY <1>3 DEF Ganged
  <2>2. rows' = <<>> => rows = <<>>
    <3>1. DOMAIN rows' = DOMAIN rows
      BY <1>2 DEF Prefilled
    <3>2. rows \in Seq(Row)
      BY DEF DriverInv, RowsTyped
    <3> QED  BY <3>1, <3>2, SeqDomain
  <2>3. early => at' \in {"late", "launch"}
    BY <1>3 DEF AfterPrefill
  <2> QED  BY <1>3, <2>1, <2>2, <2>3 DEF DriverInv, PlaceOK
<1> QED  BY <1>2, <1>3, <1>4, <1>5, PrefilledKeepsInv
-----------------------------------------------------------------------------
(* A decode in flight arrives.                                             *)

LEMMA FailAllFacts ==
  ASSUME NEW rs \in Seq(Row), NEW bad
  PROVE  LET ss == FailAll(rs, bad) IN
         /\ ss \in Seq(Row) /\ Len(ss) = Len(rs) /\ Tags(ss) = Tags(rs) /\ (ss = <<>> <=> rs = <<>>)
         /\ OneEach(rs) => OneEach(ss)
         /\ \A i \in DOMAIN rs : ss[i] = IF rs[i].tag \in bad THEN Fail(rs[i]) ELSE rs[i]
         /\ \A new \in Range(ss) : \E old \in Range(rs) :
              /\ old \in Row /\ new \in Row /\ new.tag = old.tag /\ new.held = old.held
              /\ new.cancelled = old.cancelled /\ (old.failed => new.failed)
              /\ old.tag \in bad => new.failed
              /\ old.tag \notin bad => new = old
              /\ (old.cancelled => old.st = "ended") => (new.cancelled => new.st = "ended")
              /\ new.st = "preparing" <=> old.st = "preparing"
              /\ new.st = "starting" <=> old.st = "starting"
<1> DEFINE ss == FailAll(rs, bad)
<1>1. /\ DOMAIN ss = DOMAIN rs /\ ss = [i \in DOMAIN rs |-> ss[i]]
      /\ \A i \in DOMAIN rs : ss[i] = IF rs[i].tag \in bad THEN Fail(rs[i]) ELSE rs[i]
  BY DEF FailAll
<1>2. \A i \in DOMAIN rs : rs[i] \in Row
  BY SeqDomain
<1> HIDE DEF ss
<1>3. ASSUME NEW i \in DOMAIN rs PROVE ss[i] \in Row /\ ss[i].tag = rs[i].tag
  BY <1>1, <1>2, RowEdits
<1>4. /\ ss \in Seq(Row) /\ Len(ss) = Len(rs) /\ Tags(ss) = Tags(rs)
      /\ OneEach(rs) => OneEach(ss)
      /\ ss = <<>> <=> rs = <<>>
      /\ \A new \in Range(ss) : \E i \in DOMAIN rs : rs[i] \in Range(rs) /\ rs[i] \in Row /\ new = ss[i]
  BY <1>1, <1>3, InPlace
<1>5. ASSUME NEW new \in Range(ss)
      PROVE  \E old \in Range(rs) :
              /\ old \in Row /\ new \in Row /\ new.tag = old.tag /\ new.held = old.held
              /\ new.cancelled = old.cancelled /\ (old.failed => new.failed)
              /\ old.tag \in bad => new.failed
              /\ old.tag \notin bad => new = old
              /\ (old.cancelled => old.st = "ended") => (new.cancelled => new.st = "ended")
              /\ new.st = "preparing" <=> old.st = "preparing"
              /\ new.st = "starting" <=> old.st = "starting"
  <2>1. PICK i \in DOMAIN rs : rs[i] \in Range(rs) /\ rs[i] \in Row /\ new = ss[i]
    BY <1>4
  <2> DEFINE old == rs[i]
  <2>2. old \in Range(rs) /\ old \in Row /\ new = IF old.tag \in bad THEN Fail(old) ELSE old
    BY <1>1, <2>1
  <2> HIDE DEF old
  <2>3. CASE old.tag \in bad
    BY <2>2, <2>3, RowEdits
  <2>4. CASE old.tag \notin bad
    BY <2>2, <2>4
  <2> QED  BY <2>3, <2>4
<1> QED  BY <1>1, <1>4, <1>5 DEF ss

\* What is sent is what the gang had of a request; nothing else about it changes.
LEMMA DeliveredFacts ==
  ASSUME mode \in Modes, DeviceTyped, AudioTyped, RequestsOK, NEW rs, NEW bad
  PROVE  LET au == Delivered(rs, audio, bad)
             sends == {r \in Ganged \ bad : Alive(rs, r)} IN
         /\ au \in [Requests -> Sound]
         /\ \A r \in Requests :
              /\ au[r].made = audio[r].made /\ au[r].charged = audio[r].charged
              /\ au[r].sent <= au[r].charged
              /\ r \in sends => au[r].sent = audio[r].sent + gang[r]
              /\ r \notin sends => au[r].sent = audio[r].sent
<1> DEFINE sends == {r \in Ganged \ bad : Alive(rs, r)}
           au == Delivered(rs, audio, bad)
<1>1. au = [r \in Requests |-> IF r \in sends THEN [audio[r] EXCEPT !.sent = @ + gang[r]] ELSE audio[r]]
  BY DEF Delivered, SentBy
<1> HIDE DEF sends, au
<1>2. ASSUME NEW r \in Requests
      PROVE  /\ au[r] \in Sound
             /\ au[r].made = audio[r].made /\ au[r].charged = audio[r].charged
             /\ au[r].sent <= au[r].charged
             /\ r \in sends => au[r].sent = audio[r].sent + gang[r]
             /\ r \notin sends => au[r].sent = audio[r].sent
  <2>1. /\ audio[r] \in Sound /\ gang[r] \in 0..mode.frames /\ mode.frames \in Nat
        /\ audio[r].sent + gang[r] <= audio[r].charged /\ audio[r].charged <= audio[r].made
    BY ModeFacts DEF AudioTyped, DeviceTyped, RequestsOK, RequestOK
  <2>2. au[r] = IF r \in sends THEN [audio[r] EXCEPT !.sent = @ + gang[r]] ELSE audio[r]
    BY <1>1
  <2> DEFINE a == audio[r]
             g == gang[r]
  <2>3. a \in Sound /\ g \in 0..mode.frames /\ a.sent + g <= a.charged /\ a.charged <= a.made
    BY <2>1
  <2>4. CASE r \in sends
    <3>1. au[r] = [a EXCEPT !.sent = a.sent + g]
      BY <2>2, <2>4
    <3> HIDE DEF a, g
    <3>2. /\ au[r].made = a.made /\ au[r].charged = a.charged /\ au[r].sent = a.sent + g /\ au[r].more = a.more
          /\ au[r] = [made |-> a.made, charged |-> a.charged, sent |-> a.sent + g, more |-> a.more]
      BY <2>3, <3>1 DEF Sound
    <3>3. /\ a.made \in 0..mode.frames /\ a.charged \in 0..mode.frames /\ a.sent \in 0..mode.frames
          /\ a.more \in BOOLEAN
      BY <2>3 DEF Sound
    <3>4. a.sent + g \in 0..mode.frames
      BY <2>1, <2>3, <3>3
    <3>5. au[r] \in Sound
      BY <3>2, <3>3, <3>4 DEF Sound
    <3> QED  BY <2>3, <2>4, <3>2, <3>5 DEF a, g
  <2>5. CASE r \notin sends
    <3>1. au[r] = a
      BY <2>2, <2>5
    <3> HIDE DEF a
    <3>2. a.sent \in 0..mode.frames /\ a.charged \in 0..mode.frames
      BY <2>3 DEF Sound
    <3>3. a.sent <= a.charged
      BY <2>1, <2>3, <3>2 DEF a
    <3> QED  BY <2>3, <2>5, <3>1, <3>3 DEF a
  <2> QED  BY <2>4, <2>5
<1>3. au \in [Requests -> Sound]
  <2>1. DOMAIN au = Requests /\ au = [r \in Requests |-> au[r]]
    BY <1>1
  <2> QED  BY <1>2, <2>1
<1> QED  BY <1>2, <1>3 DEF sends, au

\* However a decode ends, the sound of each row is still accounted for.
LEMMA Arrived ==
  ASSUME DriverInv, NEW rs \in Seq(Row), OneEach(rs), NEW bad,
         \A row \in Range(rs) : RowSound(row),
         NEW new \in Range(FailAll(rs, bad)),
         ~new.failed, ~new.cancelled, new.tag \notin Offline
  PROVE  LET au == Delivered(rs, audio, bad) IN
         /\ au[new.tag].sent = au[new.tag].charged
         /\ new.st = "ended" => au[new.tag].charged = au[new.tag].made
<1>1. PICK old \in Range(rs) :
         /\ old \in Row /\ new \in Row /\ new.tag = old.tag /\ new.cancelled = old.cancelled
         /\ old.failed => new.failed
         /\ old.tag \in bad => new.failed
         /\ old.tag \notin bad => new = old
  BY FailAllFacts
<1>2. old = new /\ old.tag \notin bad /\ old.tag \in Requests
  BY <1>1 DEF Row
<1>3. /\ audio[new.tag].sent + gang[new.tag] = audio[new.tag].charged
      /\ new.st = "ended" => audio[new.tag].charged = audio[new.tag].made
  BY <1>2 DEF RowSound
<1>4. Alive(rs, new.tag)
  BY <1>2 DEF Alive, Range
<1>5. /\ gang[new.tag] \in Nat
      /\ audio[new.tag].sent \in Nat
  <2>1. gang[new.tag] \in 0..mode.frames /\ audio[new.tag] \in Sound
    BY <1>2 DEF DriverInv, DeviceTyped, AudioTyped
  <2> QED  BY <2>1 DEF Sound
<1> DEFINE au == Delivered(rs, audio, bad)
<1>6. /\ au[new.tag].made = audio[new.tag].made /\ au[new.tag].charged = audio[new.tag].charged
      /\ new.tag \in Ganged => au[new.tag].sent = audio[new.tag].sent + gang[new.tag]
      /\ new.tag \notin Ganged => au[new.tag].sent = audio[new.tag].sent
  BY <1>2, <1>4, DeliveredFacts DEF DriverInv, LoopTyped
<1> HIDE DEF au
<1>7. new.tag \notin Ganged => gang[new.tag] = 0
  BY <1>2, <1>5 DEF Ganged
<1> QED  BY <1>3, <1>5, <1>6, <1>7 DEF au

\* Whether or not a poll finds the decode finished.
LEMMA PolledFacts ==
  ASSUME DriverInv, NEW rs \in Seq(Row), OneEach(rs), \A row \in Range(rs) : RowSound(row), PolledInto(rs)
  PROVE  /\ rows' \in Seq(Row) /\ Len(rows') = Len(rs) /\ Tags(rows') = Tags(rs) /\ OneEach(rows')
         /\ rows' = <<>> <=> rs = <<>>
         /\ gang' \in {gang, Idle} /\ audio' \in [Requests -> Sound]
         /\ \A r \in Requests : /\ audio'[r].made = audio[r].made /\ audio'[r].charged = audio[r].charged
                                /\ audio'[r].sent + gang'[r] <= audio'[r].charged
                                /\ gang[r] = 0 => audio'[r].sent = audio[r].sent
         /\ \A new \in Range(rows') : \E old \in Range(rs) :
              /\ old \in Row /\ new \in Row /\ new.tag = old.tag
              /\ (old.cancelled => old.st = "ended") => (new.cancelled => new.st = "ended")
              /\ new.st = "preparing" <=> old.st = "preparing"
              /\ new.st = "starting" <=> old.st = "starting"
              /\ gang'[new.tag] > 0 => new.held
              /\ ~new.failed /\ ~new.cancelled /\ new.tag \notin Offline =>
                   /\ audio'[new.tag].sent + gang'[new.tag] = audio'[new.tag].charged
                   /\ new.st = "ended" => audio'[new.tag].charged = audio'[new.tag].made
<1>1. mode \in Modes /\ DeviceTyped /\ AudioTyped /\ RequestsOK
  BY DEF DriverInv, LoopTyped
<1>2. \A r \in Requests : gang[r] \in Nat /\ (r \notin Ganged => gang[r] = 0) /\ (gang[r] = 0 => r \notin Ganged)
  <2>1. \A r \in Requests : gang[r] \in 0..mode.frames
    BY <1>1 DEF DeviceTyped
  <2> QED  BY <2>1 DEF Ganged
<1>3. CASE rows' = rs /\ UNCHANGED <<gang, audio>>
  <2>1. \A r \in Requests : audio[r].sent + gang[r] <= audio[r].charged
    BY <1>1 DEF RequestsOK, RequestOK
  <2>2. \A new \in Range(rs) : new \in Row /\ RowSound(new)
    BY SeqDomain
  <2> QED  BY <1>1, <1>3, <2>1, <2>2 DEF AudioTyped, RowSound
<1>4. ASSUME NEW bad \in SUBSET Ganged, rows' = FailAll(rs, bad), audio' = Delivered(rs, audio, bad), gang' = Idle
      PROVE  /\ rows' \in Seq(Row) /\ Len(rows') = Len(rs) /\ Tags(rows') = Tags(rs) /\ OneEach(rows')
             /\ rows' = <<>> <=> rs = <<>>
             /\ gang' \in {gang, Idle} /\ audio' \in [Requests -> Sound]
             /\ \A r \in Requests : /\ audio'[r].made = audio[r].made /\ audio'[r].charged = audio[r].charged
                                    /\ audio'[r].sent + gang'[r] <= audio'[r].charged
                                    /\ gang[r] = 0 => audio'[r].sent = audio[r].sent
             /\ \A new \in Range(rows') : \E old \in Range(rs) :
                  /\ old \in Row /\ new \in Row /\ new.tag = old.tag
                  /\ (old.cancelled => old.st = "ended") => (new.cancelled => new.st = "ended")
                  /\ new.st = "preparing" <=> old.st = "preparing"
                  /\ new.st = "starting" <=> old.st = "starting"
                  /\ gang'[new.tag] > 0 => new.held
                  /\ ~new.failed /\ ~new.cancelled /\ new.tag \notin Offline =>
                       /\ audio'[new.tag].sent + gang'[new.tag] = audio'[new.tag].charged
                       /\ new.st = "ended" => audio'[new.tag].charged = audio'[new.tag].made
  <2>1. /\ audio' \in [Requests -> Sound]
        /\ \A r \in Requests :
             /\ audio'[r].made = audio[r].made /\ audio'[r].charged = audio[r].charged
             /\ audio'[r].sent <= audio'[r].charged
             /\ r \notin Ganged => audio'[r].sent = audio[r].sent
    BY <1>1, <1>4, DeliveredFacts
  <2>2. \A r \in Requests : gang'[r] = 0 /\ audio'[r].sent \in Nat
    BY <1>4, <2>1 DEF Idle, Sound
  <2>3. \A r \in Requests : audio'[r].sent + gang'[r] <= audio'[r].charged
    BY <2>1, <2>2
  <2>4. ASSUME NEW new \in Range(rows')
        PROVE  \E old \in Range(rs) :
                  /\ old \in Row /\ new \in Row /\ new.tag = old.tag
                  /\ (old.cancelled => old.st = "ended") => (new.cancelled => new.st = "ended")
                  /\ new.st = "preparing" <=> old.st = "preparing"
                  /\ new.st = "starting" <=> old.st = "starting"
                  /\ gang'[new.tag] > 0 => new.held
                  /\ ~new.failed /\ ~new.cancelled /\ new.tag \notin Offline =>
                       /\ audio'[new.tag].sent + gang'[new.tag] = audio'[new.tag].charged
                       /\ new.st = "ended" => audio'[new.tag].charged = audio'[new.tag].made
    <3>1. PICK old \in Range(rs) :
            /\ old \in Row /\ new \in Row /\ new.tag = old.tag
            /\ (old.cancelled => old.st = "ended") => (new.cancelled => new.st = "ended")
            /\ new.st = "preparing" <=> old.st = "preparing"
            /\ new.st = "starting" <=> old.st = "starting"
      BY <1>4, FailAllFacts
    <3>2. ~new.failed /\ ~new.cancelled /\ new.tag \notin Offline =>
             /\ audio'[new.tag].sent = audio'[new.tag].charged
             /\ new.st = "ended" => audio'[new.tag].charged = audio'[new.tag].made
      BY <1>4, <2>4, Arrived
    <3>3. new.tag \in Requests
      BY <3>1 DEF Row
    <3>4. gang'[new.tag] = 0 /\ audio'[new.tag].sent + gang'[new.tag] = audio'[new.tag].sent
      BY <2>2, <3>3
    <3> QED  BY <3>1, <3>2, <3>4
  <2>5. /\ rows' \in Seq(Row) /\ Len(rows') = Len(rs) /\ Tags(rows') = Tags(rs) /\ OneEach(rows')
        /\ rows' = <<>> <=> rs = <<>>
    BY <1>4, FailAllFacts
  <2>6. \A r \in Requests : gang[r] = 0 => audio'[r].sent = audio[r].sent
    BY <1>2, <2>1
  <2> QED  BY <1>4, <2>1, <2>3, <2>4, <2>5, <2>6
<1>5. \/ rows' = rs /\ UNCHANGED <<gang, audio>>
      \/ \E bad \in SUBSET Ganged :
           rows' = FailAll(rs, bad) /\ audio' = Delivered(rs, audio, bad) /\ gang' = Idle
  BY DEF PolledInto
<1> QED  BY <1>3, <1>4, <1>5

LEMMA NewRowFacts ==
  ASSUME NEW r \in Requests, NEW st \in {"starting", "preparing"}
  PROVE  LET row == NewRow(r, st) IN
         /\ row \in Row /\ row.tag = r /\ row.st = st /\ ~row.failed /\ ~row.cancelled /\ ~row.held
BY DEF NewRow, Row

LEMMA AdmitKeepsInv ==
  ASSUME DriverInv, NEW r \in Requests, Admit(r)
  PROVE  DriverInv'
<1>1. /\ at \in {"admit", "late", "later"} /\ MayAdmit /\ r \in queue /\ queue' = queue \ {r}
      /\ admits' = admits + 1
      /\ UNCHANGED <<mode, running, early, rr, ahead, built>>
  BY DEF Admit
<1>2. /\ rows \in Seq(Row) /\ OneEach(rows) /\ Len(rows) \in Nat /\ Len(rows) < mode.capacity
      /\ prepq \in Seq(Requests) /\ Once(prepq) /\ built \in Seq([tag : Requests, ok : BOOLEAN])
      /\ OneEach(built) /\ building \subseteq Requests
      /\ building \cap Tags(built) = {}
      /\ Range(prepq) \cup building \cup Tags(built) \cup ahead \cup Ganged \subseteq Tags(rows)
  BY <1>1, SeqDomain DEF DriverInv, RowsTyped, ListsOK, MayAdmit
<1>3. \A row \in Range(rows) : row \in Row /\ RowOK(row)
  BY <1>2, RowTags DEF DriverInv, RowsOK
<1>4. Tags(rows) = {row.tag : row \in Range(rows)} /\ Tags(rows) \subseteq Requests
  BY <1>2, RowTags
<1>5. r \notin Tags(rows) /\ outcome[r] = "none"
  BY <1>1, <1>3, <1>4 DEF RowOK, DriverInv, RequestsOK, RequestOK
<1>6. /\ r \notin Range(prepq) /\ r \notin building /\ r \notin Tags(built) /\ r \notin ahead
      /\ r \notin Ganged
  BY <1>2, <1>5
<1>7. audio[r].made = 0 /\ audio[r].charged = 0 /\ audio[r].sent = 0 /\ gang[r] = 0
  <2>1. /\ audio[r].sent + gang[r] <= audio[r].charged /\ audio[r].charged <= audio[r].made
        /\ audio[r].made = 0
    BY <1>5 DEF DriverInv, RequestsOK, RequestOK
  <2>2. audio[r].sent \in Nat /\ gang[r] \in Nat /\ audio[r].charged \in Nat
    <3>1. audio[r] \in Sound /\ gang[r] \in 0..mode.frames
      BY DEF DriverInv, AudioTyped, DeviceTyped
    <3> QED  BY <3>1 DEF Sound
  <2> QED  BY <2>1, <2>2
<1>8. Admitted \in {"admit", "late", "later"} /\ (at = "admit" <=> Admitted = "admit")
  BY <1>1 DEF Admitted
\* What the three outcomes of a start have in common: the rows that are polled into.
<1>9. ASSUME NEW rs \in Seq(Row), OneEach(rs), Len(rs) <= mode.capacity, PolledInto(rs),
             \A row \in Range(rs) :
               row \in Range(rows) \/ (row.tag = r /\ ~row.held /\ ~row.cancelled /\ row.st # "ended"),
             Tags(rows) \subseteq Tags(rs), Tags(rs) \subseteq Tags(rows) \cup {r},
             at' \in {at, Admitted}, rs = <<>> => at' = at,
             prepq' \in Seq(Requests), Once(prepq'), building' \subseteq Requests,
             building' \cap Tags(built) = {},
             Range(prepq') \cup building' \subseteq Tags(rs),
             \A row \in Range(rs) : /\ row.st = "preparing" <=> row.tag \in Range(prepq')
                                    /\ row.st = "starting" <=> row.tag \in building' \cup Tags(built),
             \A q \in Requests : q # r => outcome'[q] = outcome[q],
             outcome' \in [Requests -> {"none", "OK", "FAILED", "CANCELLED", "twice"}],
             r \in Tags(rs) => outcome'[r] = "none",
             r \notin Tags(rs) => outcome'[r] = "FAILED"
      PROVE  DriverInv'
  <2>1. \A row \in Range(rs) : row \in Row /\ RowSound(row)
    <3> SUFFICES ASSUME NEW row \in Range(rs) PROVE row \in Row /\ RowSound(row)
      OBVIOUS
    <3>1. row \in Row
      BY <1>9, SeqDomain
    <3>2. CASE row \in Range(rows)
      BY <1>3, <3>1, <3>2 DEF RowOK
    <3>3. CASE row.tag = r /\ ~row.held /\ ~row.cancelled /\ row.st # "ended"
      BY <1>7, <3>1, <3>3 DEF RowSound
    <3> QED  BY <1>9, <3>1, <3>2, <3>3
  <2>2. /\ rows' \in Seq(Row) /\ Len(rows') = Len(rs) /\ Tags(rows') = Tags(rs) /\ OneEach(rows')
        /\ rows' = <<>> <=> rs = <<>>
        /\ gang' \in {gang, Idle} /\ audio' \in [Requests -> Sound]
        /\ \A q \in Requests : /\ audio'[q].made = audio[q].made /\ audio'[q].charged = audio[q].charged
                               /\ audio'[q].sent + gang'[q] <= audio'[q].charged
                               /\ gang[q] = 0 => audio'[q].sent = audio[q].sent
        /\ \A new \in Range(rows') : \E old \in Range(rs) :
              /\ old \in Row /\ new \in Row /\ new.tag = old.tag
              /\ (old.cancelled => old.st = "ended") => (new.cancelled => new.st = "ended")
              /\ new.st = "preparing" <=> old.st = "preparing"
              /\ new.st = "starting" <=> old.st = "starting"
              /\ gang'[new.tag] > 0 => new.held
              /\ ~new.failed /\ ~new.cancelled /\ new.tag \notin Offline =>
                   /\ audio'[new.tag].sent + gang'[new.tag] = audio'[new.tag].charged
                   /\ new.st = "ended" => audio'[new.tag].charged = audio'[new.tag].made
    BY <1>9, <2>1, PolledFacts
  <2>3. Ganged' \subseteq Ganged /\ DeviceTyped'
    <3>1. CASE gang' = gang
      <4>1. Ganged' = Ganged
        BY <3>1 DEF Ganged
      <4> QED  BY <1>1, <3>1, <4>1 DEF DriverInv, DeviceTyped
    <3>2. CASE gang' = Idle
      <4>1. Ganged' = {} /\ gang' \in [Requests -> 0..mode.frames]
        BY <3>2, ModeFacts DEF Ganged, Idle, DriverInv, LoopTyped
      <4>2. Cardinality({}) = 0 /\ mode.batch \in Nat
        BY FS_EmptySet, ModeFacts DEF DriverInv, LoopTyped
      <4> QED  BY <1>1, <4>1, <4>2 DEF DriverInv, DeviceTyped
    <3> QED  BY <2>2, <3>1, <3>2
  <2>4. LoopTyped'
    BY <1>1, <1>8, <1>9 DEF DriverInv, LoopTyped, Places
  <2>5. RowsTyped' /\ AudioTyped'
    BY <1>1, <1>2, <1>9, <2>2 DEF RowsTyped, AudioTyped, Sound
  <2>6. ListsOK'
    <3>1. Tags(built') = Tags(built)
      BY <1>1
    <3>2. Tags(built) \cup ahead \cup Ganged' \subseteq Tags(rows')
      BY <1>2, <1>9, <2>2, <2>3
    <3> QED  BY <1>1, <1>2, <1>9, <2>2, <3>1, <3>2 DEF ListsOK
  <2>7. PlaceOK'
    <3>1. at \in {"late", "later"} => at' \in {"late", "later"}
      BY <1>8, <1>9, <1>1
    <3>2. at = "admit" => at' = "admit"
      BY <1>8, <1>9
    <3>3. rows' = <<>> => rows = <<>> /\ at' = at
      <4>1. rs = <<>> => Tags(rs) = {}
        BY DEF Tags
      <4>2. Len(rows) # 0 => 1 \in DOMAIN rows
        BY <1>2, SeqDomain
      <4>3. Tags(rows) = {} => Len(rows) = 0
        BY <4>2 DEF Tags
      <4> QED  BY <1>2, <1>9, <2>2, <4>1, <4>3, SeqDomain
    <3> QED  BY <1>1, <2>3, <3>1, <3>2, <3>3 DEF DriverInv, PlaceOK
  <2>8. RequestsOK'
    <3> SUFFICES ASSUME NEW q \in Requests PROVE RequestOK(q)'
      BY DEF RequestsOK
    <3>1. /\ audio'[q].made = audio[q].made /\ audio'[q].charged = audio[q].charged
          /\ audio'[q].sent + gang'[q] <= audio'[q].charged
          /\ gang[q] = 0 => audio'[q].sent = audio[q].sent
      BY <2>2
    <3>2. CASE q = r
      BY <1>1, <1>7, <1>9, <2>2, <3>1, <3>2 DEF RequestOK
    <3>3. CASE q # r
      <4>1. RequestOK(q) /\ outcome'[q] = outcome[q] /\ (q \in queue' <=> q \in queue)
        BY <1>1, <1>9, <3>3 DEF DriverInv, RequestsOK
      <4>2. q \in Tags(rows') <=> q \in Tags(rows)
        BY <1>9, <2>2, <3>3
      <4>3. outcome[q] = "OK" => gang[q] = 0
        <5>1. gang[q] > 0 => q \in Ganged
          BY DEF Ganged
        <5>2. q \in Ganged => q \in Tags(rows)
          BY <1>2
        <5>3. q \in Tags(rows) => outcome[q] = "none"
          BY <1>3, <1>4 DEF RowOK
        <5>4. gang[q] \in 0..mode.frames
          BY DEF DriverInv, DeviceTyped
        <5>5. gang[q] \in Nat
          BY <5>4
        <5> QED  BY <5>1, <5>2, <5>3, <5>5
      <4> QED  BY <3>1, <4>1, <4>2, <4>3 DEF RequestOK
    <3> QED  BY <3>2, <3>3
  <2>9. RowsOK'
    <3> SUFFICES ASSUME NEW new \in Range(rows') PROVE RowOK(new)'
      BY DEF RowsOK
    <3>1. PICK old \in Range(rs) :
            /\ old \in Row /\ new \in Row /\ new.tag = old.tag
            /\ (old.cancelled => old.st = "ended") => (new.cancelled => new.st = "ended")
            /\ new.st = "preparing" <=> old.st = "preparing"
            /\ new.st = "starting" <=> old.st = "starting"
            /\ gang'[new.tag] > 0 => new.held
            /\ ~new.failed /\ ~new.cancelled /\ new.tag \notin Offline =>
                   /\ audio'[new.tag].sent + gang'[new.tag] = audio'[new.tag].charged
                   /\ new.st = "ended" => audio'[new.tag].charged = audio'[new.tag].made
      BY <2>2
    <3>2. /\ old.st = "preparing" <=> old.tag \in Range(prepq')
          /\ old.st = "starting" <=> old.tag \in building' \cup Tags(built)
          /\ old \in Range(rows) \/ (old.tag = r /\ ~old.held /\ ~old.cancelled /\ old.st # "ended")
      BY <1>9
    <3>3. old.cancelled => old.st = "ended"
      BY <1>3, <3>2 DEF RowOK
    <3>4. outcome'[old.tag] = "none" /\ old.tag \notin queue'
      <4>1. CASE old \in Range(rows)
        <5>1. outcome[old.tag] = "none" /\ old.tag \notin queue /\ old.tag \in Requests /\ old.tag # r
          BY <1>1, <1>3, <3>1, <4>1 DEF RowOK, Row
        <5> QED  BY <1>1, <1>9, <5>1
      <4>2. CASE old.tag = r
        <5>1. r \in Tags(rs)
          BY <4>2 DEF Tags, Range
        <5> QED  BY <1>1, <1>9, <4>2, <5>1
      <4> QED  BY <3>2, <4>1, <4>2
    <3>5. RowSound(new)'
      BY <3>1 DEF RowSound
    <3>6. /\ new.st = "preparing" <=> new.tag \in Range(prepq')
          /\ new.st = "starting" <=> new.tag \in building' \cup Tags(built')
      BY <1>1, <3>1, <3>2
    <3> QED  BY <3>1, <3>3, <3>4, <3>5, <3>6 DEF RowOK
  <2> QED  BY <2>3, <2>4, <2>5, <2>6, <2>7, <2>8, <2>9 DEF DriverInv
<1>10. \A row \in Range(rows) : /\ row.st = "preparing" <=> row.tag \in Range(prepq)
                                /\ row.st = "starting" <=> row.tag \in building \cup Tags(built)
  BY <1>3 DEF RowOK
<1>11. outcome \in [Requests -> {"none", "OK", "FAILED", "CANCELLED", "twice"}]
  BY DEF DriverInv, AudioTyped
<1>12. \A row \in Range(rows) : row.tag # r
  BY <1>4, <1>5
<1>13. CASE /\ outcome' = Reported({r}, [q \in {r} |-> "FAILED"])
            /\ PolledInto(rows) /\ UNCHANGED <<at, prepq, building>>
  <2>1. /\ outcome' \in [Requests -> {"none", "OK", "FAILED", "CANCELLED", "twice"}]
        /\ outcome'[r] = "FAILED" /\ \A q \in Requests : q # r => outcome'[q] = outcome[q]
    BY <1>5, <1>11, <1>13 DEF Reported
  <2>2. PolledInto(rows) /\ UNCHANGED <<at, prepq, building>>
    BY <1>13
  <2>3. rows = <<>> => at' = at
    BY <2>2
  <2>4. /\ prepq' \in Seq(Requests) /\ Once(prepq') /\ building' \subseteq Requests
        /\ building' \cap Tags(built) = {} /\ Range(prepq') \cup building' \subseteq Tags(rows)
    BY <1>2, <2>2
  <2>5. Len(rows) <= mode.capacity
    <3>1. mode.capacity \in Nat
      BY ModeFacts DEF DriverInv, LoopTyped
    <3> QED  BY <1>2, <3>1
  <2>6. \A row \in Range(rows) : /\ row.st = "preparing" <=> row.tag \in Range(prepq')
                                 /\ row.st = "starting" <=> row.tag \in building' \cup Tags(built)
    BY <1>10, <2>2
  <2>7. at' \in {at, Admitted}
    BY <2>2
  <2> QED  BY <1>2, <1>5, <1>9, <2>1, <2>2, <2>3, <2>4, <2>5, <2>6, <2>7
<1>14. ASSUME NEW st \in {"starting", "preparing"}, PolledInto(Append(rows, NewRow(r, st))), at' = Admitted,
              UNCHANGED outcome,
              st = "starting" => building' = building \cup {r} /\ UNCHANGED prepq,
              st = "preparing" => prepq' = Append(prepq, r) /\ UNCHANGED building
       PROVE  DriverInv'
  <2> DEFINE row == NewRow(r, st)
             rs == Append(rows, row)
  <2>1. row \in Row /\ row.tag = r /\ row.st = st /\ ~row.failed /\ ~row.cancelled /\ ~row.held
    BY <1>14, NewRowFacts
  <2> HIDE DEF row
  <2>2. rs \in Seq(Row) /\ Len(rs) = Len(rows) + 1 /\ Range(rs) = Range(rows) \cup {row}
    BY <1>2, <2>1, AppendFacts
  <2>3. Tags(rs) = Tags(rows) \cup {r} /\ OneEach(rs)
    BY <1>2, <1>5, <2>1, AppendEach
  <2>4. PolledInto(rs)
    BY <1>14 DEF row
  <2> HIDE DEF rs
  <2>5. Len(rs) <= mode.capacity /\ rs # <<>>
    <3>1. mode.capacity \in Nat
      BY ModeFacts DEF DriverInv, LoopTyped
    <3> QED  BY <1>2, <2>2, <3>1, SeqDomain
  <2>6. /\ prepq' \in Seq(Requests) /\ Once(prepq')
        /\ Range(prepq') = IF st = "preparing" THEN Range(prepq) \cup {r} ELSE Range(prepq)
        /\ building' = IF st = "starting" THEN building \cup {r} ELSE building
    <3>1. CASE st = "starting"
      BY <1>2, <1>14, <3>1
    <3>2. CASE st = "preparing"
      <4>1. prepq' = Append(prepq, r) /\ building' = building /\ r \notin Range(prepq)
        BY <1>6, <1>14, <3>2
      <4>2. Append(prepq, r) \in Seq(Requests) /\ Range(Append(prepq, r)) = Range(prepq) \cup {r}
        BY <1>2, AppendFacts
      <4>3. Once(Append(prepq, r))
        BY <1>2, <4>1, AppendOnce
      <4> QED  BY <3>2, <4>1, <4>2, <4>3
    <3> QED  BY <1>14, <3>1, <3>2
  <2>7. /\ building' \subseteq Requests /\ building' \cap Tags(built) = {}
        /\ Range(prepq') \cup building' \subseteq Tags(rs)
    BY <1>2, <1>6, <2>3, <2>6
  <2>8. \A x \in Range(rs) : /\ x.st = "preparing" <=> x.tag \in Range(prepq')
                             /\ x.st = "starting" <=> x.tag \in building' \cup Tags(built)
    <3> SUFFICES ASSUME NEW x \in Range(rs)
                 PROVE  /\ x.st = "preparing" <=> x.tag \in Range(prepq')
                        /\ x.st = "starting" <=> x.tag \in building' \cup Tags(built)
      OBVIOUS
    <3>1. CASE x = row
      BY <1>6, <1>14, <2>1, <2>6, <3>1
    <3>2. CASE x \in Range(rows)
      BY <1>10, <1>12, <2>6, <3>2
    <3> QED  BY <2>2, <3>1, <3>2
  <2>9. \A x \in Range(rs) :
               x \in Range(rows) \/ (x.tag = r /\ ~x.held /\ ~x.cancelled /\ x.st # "ended")
    BY <1>14, <2>1, <2>2
  <2>10. outcome'[r] = "none" /\ (\A q \in Requests : outcome'[q] = outcome[q])
         /\ outcome' \in [Requests -> {"none", "OK", "FAILED", "CANCELLED", "twice"}]
    BY <1>5, <1>11, <1>14
  <2> QED  BY <1>9, <1>14, <2>2, <2>3, <2>4, <2>5, <2>6, <2>7, <2>8, <2>9, <2>10
<1>15. CASE /\ PolledInto(Append(rows, NewRow(r, "starting"))) /\ building' = building \cup {r}
            /\ at' = Admitted /\ UNCHANGED <<prepq, outcome>>
  BY <1>14, <1>15
<1>16. CASE /\ PolledInto(Append(rows, NewRow(r, "preparing"))) /\ prepq' = Append(prepq, r)
            /\ at' = Admitted /\ UNCHANGED <<building, outcome>>
  BY <1>14, <1>16
<1> QED  BY <1>13, <1>15, <1>16 DEF Admit
-----------------------------------------------------------------------------
(* Retirement.                                                             *)

LEMMA VerdictFacts ==
  ASSUME NEW row \in Row, NEW a \in Sound, mode \in Modes, NEW bad
  PROVE  LET v == Verdict(row, a, bad) IN
         /\ v \in {"OK", "FAILED", "CANCELLED"}
         /\ v = "CANCELLED" <=> row.cancelled
         /\ v = "OK" => ~row.failed /\ ~row.cancelled
<1>1. row.failed \in BOOLEAN /\ row.cancelled \in BOOLEAN
  BY DEF Row
<1>2. a.made \in Nat
  <2>1. a.made \in 0..mode.frames
    BY DEF Sound
  <2> QED  BY <2>1
<1>3. a.made = 0 \/ a.made > 0
  BY <1>2
<1> QED  BY <1>1, <1>2, <1>3 DEF Verdict

\* A pass reports each row that is over once, as what it was, and keeps the others.
LEMMA RetiredFacts ==
  ASSUME mode \in Modes, outcome \in [Requests -> {"none", "OK", "FAILED", "CANCELLED", "twice"}],
         NEW rs \in Seq(Row), OneEach(rs), NEW au \in [Requests -> Sound], RetirePass(rs, au),
         \A row \in Range(rs) : outcome[row.tag] = "none"
  PROVE  LET gone == Retirable(rs) IN
         /\ rows' \in Seq(Row) /\ OneEach(rows') /\ Len(rows') <= Len(rs)
         /\ Range(rows') = {row \in Range(rs) : row.tag \notin gone}
         /\ gone \subseteq Tags(rs)
         /\ outcome' \in [Requests -> {"none", "OK", "FAILED", "CANCELLED", "twice"}]
         /\ \A r \in Requests \ gone : outcome'[r] = outcome[r]
         /\ \A row \in Range(rs) : row.tag \in gone =>
              /\ Over(row)
              /\ outcome'[row.tag] \in {"OK", "FAILED", "CANCELLED"}
              /\ outcome'[row.tag] = "CANCELLED" <=> row.cancelled
              /\ outcome'[row.tag] = "OK" => ~row.failed /\ ~row.cancelled
<1> DEFINE gone == Retirable(rs)
           what(bad) == [r \in gone |->
                           LET i == CHOOSE k \in DOMAIN rs : rs[k].tag = r IN Verdict(rs[i], au[r], bad)]
<1>1. PICK bad \in SUBSET (gone \cap Offline) : outcome' = Reported(gone, what(bad))
  BY Zenon DEF RetirePass
<1>2. rows' = SwapRemove(rs, gone)
  BY DEF RetirePass
<1>3. Tags(rs) \subseteq Requests /\ \A i \in DOMAIN rs : rs[i] \in Row
  BY RowTags, SeqDomain
<1>4. gone \subseteq Tags(rs)
  BY DEF Retirable, Tags
<1>5. \A i \in DOMAIN rs : rs[i].tag \in gone => Over(rs[i])
  BY DEF Retirable, OneEach
<1>6. /\ rows' \in Seq(Row) /\ OneEach(rows') /\ Len(rows') <= Len(rs)
      /\ Range(rows') = {row \in Range(rs) : row.tag \notin gone}
  BY <1>2, SwapRemoveFacts
<1> HIDE DEF gone
<1>7. outcome' = [r \in Requests |-> IF r \notin gone THEN outcome[r]
                                     ELSE IF outcome[r] = "none" THEN what(bad)[r] ELSE "twice"]
  BY <1>1 DEF Reported
<1>8. ASSUME NEW i \in DOMAIN rs, rs[i].tag \in gone
      PROVE  /\ outcome'[rs[i].tag] \in {"OK", "FAILED", "CANCELLED"}
             /\ outcome'[rs[i].tag] = "CANCELLED" <=> rs[i].cancelled
             /\ outcome'[rs[i].tag] = "OK" => ~rs[i].failed /\ ~rs[i].cancelled
  <2> DEFINE r == rs[i].tag
             k == CHOOSE j \in DOMAIN rs : rs[j].tag = r
  <2>1. r \in Requests /\ rs[i] \in Row /\ au[r] \in Sound
    BY <1>3, <1>8 DEF Row
  <2>2. k \in DOMAIN rs /\ rs[k].tag = r
    BY <1>8
  <2>3. k = i
    BY <2>2 DEF OneEach
  <2>4. what(bad)[r] = Verdict(rs[i], au[r], bad)
    BY <1>8, <2>3
  <2> HIDE DEF what
  <2>5. outcome[r] = "none"
    BY DEF Range
  <2>6. outcome'[r] = Verdict(rs[i], au[r], bad)
    BY <1>7, <1>8, <2>1, <2>4, <2>5
  <2> QED  BY <2>1, <2>6, VerdictFacts
<1>9. \A row \in Range(rs) : row.tag \in gone =>
              /\ Over(row)
              /\ outcome'[row.tag] \in {"OK", "FAILED", "CANCELLED"}
              /\ outcome'[row.tag] = "CANCELLED" <=> row.cancelled
              /\ outcome'[row.tag] = "OK" => ~row.failed /\ ~row.cancelled
  BY <1>5, <1>8 DEF Range
<1> HIDE DEF what
<1>10. \A r \in Requests \ gone : outcome'[r] = outcome[r]
  BY <1>7
<1>11. outcome' \in [Requests -> {"none", "OK", "FAILED", "CANCELLED", "twice"}]
  <2>1. \A r \in Requests : outcome'[r] \in {"none", "OK", "FAILED", "CANCELLED", "twice"}
    <3> SUFFICES ASSUME NEW r \in Requests
                 PROVE  outcome'[r] \in {"none", "OK", "FAILED", "CANCELLED", "twice"}
      OBVIOUS
    <3>1. CASE r \notin gone
      BY <1>10, <3>1
    <3>2. CASE r \in gone
      <4>1. PICK i \in DOMAIN rs : rs[i].tag = r
        BY <1>4, <3>2 DEF Tags
      <4> QED  BY <1>8, <3>2, <4>1
    <3> QED  BY <3>1, <3>2
  <2> QED  BY <1>7, <2>1
<1> QED  BY <1>4, <1>6, <1>9, <1>10, <1>11 DEF gone

\* Rows in rs, as the decode in flight may have left them, of which some go.
LEMMA RetiredKeepsInv ==
  ASSUME DriverInv, LoopTyped', PlaceOK', NEW rs \in Seq(Row), OneEach(rs), Tags(rs) = Tags(rows), Len(rs) = Len(rows),
         NEW gone, gone \subseteq Tags(rs),
         \A row \in Range(rs) :
           /\ row.cancelled => row.st = "ended"
           /\ row.st = "preparing" <=> row.tag \in Range(prepq)
           /\ row.st = "starting" <=> row.tag \in building \cup Tags(built)
           /\ RowSound(row)'
           /\ row.tag \in gone => /\ Over(row) /\ row.tag \notin Ganged'
                                  /\ outcome'[row.tag] \in {"OK", "FAILED", "CANCELLED"}
                                  /\ outcome'[row.tag] = "OK" => ~row.failed /\ ~row.cancelled,
         rows' \in Seq(Row), OneEach(rows'), Len(rows') <= Len(rs),
         Range(rows') = {row \in Range(rs) : row.tag \notin gone},
         outcome' \in [Requests -> {"none", "OK", "FAILED", "CANCELLED", "twice"}],
         \A r \in Requests \ gone : outcome'[r] = outcome[r],
         gang' \in {gang, Idle}, audio' \in [Requests -> Sound],
         \A r \in Requests : /\ audio'[r].made = audio[r].made /\ audio'[r].charged = audio[r].charged
                             /\ audio'[r].sent + gang'[r] <= audio'[r].charged
                             /\ gang[r] = 0 => audio'[r].sent = audio[r].sent,
         UNCHANGED <<mode, queue, prepq, building, built, ahead>>
  PROVE  DriverInv'
<1>1. /\ rows \in Seq(Row) /\ Len(rows) \in Nat /\ Len(rows) <= mode.capacity /\ mode.capacity \in Nat
      /\ Len(rows') \in Nat
      /\ prepq \in Seq(Requests) /\ Once(prepq)
      /\ OneEach(built) /\ building \cap Tags(built) = {}
      /\ Range(prepq) \cup building \cup Tags(built) \cup ahead \cup Ganged \subseteq Tags(rows)
  BY SeqDomain, ModeFacts DEF DriverInv, LoopTyped, RowsTyped, ListsOK
<1>2. /\ Tags(rows) = {row.tag : row \in Range(rows)} /\ Tags(rs) = {row.tag : row \in Range(rs)}
      /\ Tags(rows') = {row.tag : row \in Range(rows')}
      /\ Tags(rows) \subseteq Requests /\ Range(rs) \subseteq Row
  BY <1>1, RowTags
<1>3. Tags(rows') = Tags(rows) \ gone
  <2>1. ASSUME NEW r \in Tags(rows') PROVE r \in Tags(rows) \ gone
    <3>1. PICK row \in Range(rows') : row.tag = r
      BY <1>2, <2>1
    <3> QED  BY <1>2, <3>1
  <2>2. ASSUME NEW r \in Tags(rows) \ gone PROVE r \in Tags(rows')
    <3>1. r \in {row.tag : row \in Range(rs)}
      BY <1>2, <2>2, Zenon
    <3>2. PICK row \in Range(rs) : row.tag = r
      BY <3>1, Zenon
    <3> QED  BY <1>2, <2>2, <3>2
  <2> QED  BY <2>1, <2>2
<1>4. \A r \in Tags(rows) : outcome[r] = "none" /\ r \notin queue
  BY <1>2 DEF DriverInv, RowsOK, RowOK
<1>5. Ganged' \subseteq Ganged /\ DeviceTyped'
  <2>1. CASE gang' = gang
    <3>1. Ganged' = Ganged
      BY <2>1 DEF Ganged
    <3> QED  BY <2>1, <3>1 DEF DriverInv, DeviceTyped
  <2>2. CASE gang' = Idle
    <3>1. Ganged' = {} /\ gang' \in [Requests -> 0..mode.frames]
      BY <2>2, ModeFacts DEF Ganged, Idle, DriverInv, LoopTyped
    <3>2. Cardinality({}) = 0 /\ mode.batch \in Nat
      BY FS_EmptySet, ModeFacts DEF DriverInv, LoopTyped
    <3> QED  BY <3>1, <3>2 DEF DriverInv, DeviceTyped
  <2> QED  BY <2>1, <2>2
<1>6. RowsTyped' /\ AudioTyped'
  <2>1. Len(rows') <= mode.capacity
    BY <1>1
  <2> QED  BY <2>1 DEF DriverInv, RowsTyped, AudioTyped, Sound
<1>7. gone \cap (Range(prepq) \cup building \cup Tags(built) \cup ahead \cup Ganged') = {}
  <2> SUFFICES ASSUME NEW r \in gone
               PROVE  r \notin Range(prepq) \cup building \cup Tags(built) \cup ahead \cup Ganged'
    OBVIOUS
  <2>r. r \in {row.tag : row \in Range(rs)}
    BY <1>2, Zenon
  <2>1. PICK row \in Range(rs) : row.tag = r
    BY <2>r, Zenon
  <2>2. row.st = "ended" /\ row.tag \notin ahead /\ row.tag \notin Ganged'
    BY <2>1 DEF Over
  <2> QED  BY <2>1, <2>2
<1>8. ListsOK'
  <2>1. Tags(built') = Tags(built)
    OBVIOUS
  <2>2. Range(prepq) \cup building \cup Tags(built) \cup ahead \cup Ganged' \subseteq Tags(rows')
    BY <1>1, <1>3, <1>5, <1>7
  <2> QED  BY <1>1, <2>1, <2>2 DEF ListsOK
<1>9. RowsOK'
  <2> SUFFICES ASSUME NEW row \in Range(rows') PROVE RowOK(row)'
    BY DEF RowsOK
  <2>1. row \in Range(rs) /\ row.tag \notin gone /\ row.tag \in Tags(rows) /\ row.tag \in Requests
    BY <1>2
  <2>2. outcome'[row.tag] = "none" /\ row.tag \notin queue'
    BY <1>4, <2>1
  <2> QED  BY <2>1, <2>2 DEF RowOK
<1>10. RequestsOK'
  <2> SUFFICES ASSUME NEW r \in Requests PROVE RequestOK(r)'
    BY DEF RequestsOK
  <2>1. /\ audio'[r].made = audio[r].made /\ audio'[r].charged = audio[r].charged
        /\ audio'[r].sent + gang'[r] <= audio'[r].charged
        /\ gang[r] = 0 => audio'[r].sent = audio[r].sent
    OBVIOUS
  <2>2. RequestOK(r)
    BY DEF DriverInv, RequestsOK
  <2>3. CASE r \in gone
    <3>1. PICK row \in Range(rs) : row.tag = r
      BY <1>2, <2>3
    <3>2. outcome'[r] \in {"OK", "FAILED", "CANCELLED"} /\ r \notin queue
      BY <1>4, <2>3, <3>1
    <3>3. outcome'[r] = "OK" /\ r \notin Offline => audio'[r].sent = audio'[r].made
      <4>1. row.st = "ended" /\ row.tag \notin Ganged' /\ RowSound(row)'
        BY <2>3, <3>1 DEF Over
      <4>2. gang'[r] = 0 /\ audio'[r].sent \in Nat
        <5>1. gang'[r] \in 0..mode.frames /\ audio'[r] \in Sound
          BY <1>5 DEF DeviceTyped
        <5>2. r \notin Ganged'
          BY <3>1, <4>1
        <5>3. gang'[r] \in Nat /\ audio'[r].sent \in Nat
          BY <5>1 DEF Sound
        <5> QED  BY <5>2, <5>3 DEF Ganged
      <4>3. outcome'[r] = "OK" /\ r \notin Offline =>
              audio'[r].sent + gang'[r] = audio'[r].charged /\ audio'[r].charged = audio'[r].made
        BY <2>3, <3>1, <4>1 DEF RowSound
      <4> QED  BY <4>2, <4>3
    <3> QED  BY <2>1, <2>2, <3>2, <3>3 DEF RequestOK
  <2>4. CASE r \notin gone
    <3>1. outcome'[r] = outcome[r] /\ (r \in Tags(rows') <=> r \in Tags(rows))
      BY <1>3, <2>4
    <3>2. outcome[r] = "OK" => gang[r] = 0
      <4>1. outcome[r] = "OK" => r \notin Ganged
        BY <1>1, <1>4
      <4>2. gang[r] \in 0..mode.frames
        BY DEF DriverInv, DeviceTyped
      <4>3. gang[r] \in Nat
        BY <4>2
      <4> QED  BY <4>1, <4>3 DEF Ganged
    <3> QED  BY <2>1, <2>2, <3>1, <3>2 DEF RequestOK
  <2> QED  BY <2>3, <2>4
<1> QED  BY <1>5, <1>6, <1>8, <1>9, <1>10 DEF DriverInv

LEMMA RetireKeepsInv ==
  ASSUME DriverInv, Retire
  PROVE  DriverInv'
<1>1. /\ at = "retire" /\ RetirePass(rows, audio)
      /\ IF mode.decode /\ early THEN at' = "prefill" /\ UNCHANGED admits
         ELSE at' = "admit" /\ admits' = 0
      /\ UNCHANGED <<mode, running, queue, early, prepq, rr, ahead, gang, building, built, audio>>
  BY DEF Retire
<1>2. /\ rows \in Seq(Row) /\ OneEach(rows) /\ mode \in Modes /\ audio \in [Requests -> Sound]
      /\ outcome \in [Requests -> {"none", "OK", "FAILED", "CANCELLED", "twice"}]
  BY DEF DriverInv, LoopTyped, RowsTyped, ListsOK, AudioTyped
<1>3. \A row \in Range(rows) : RowOK(row)
  BY DEF DriverInv, RowsOK
<1> DEFINE gone == Retirable(rows)
<1>4. /\ rows' \in Seq(Row) /\ OneEach(rows') /\ Len(rows') <= Len(rows)
      /\ Range(rows') = {row \in Range(rows) : row.tag \notin gone}
      /\ gone \subseteq Tags(rows)
      /\ outcome' \in [Requests -> {"none", "OK", "FAILED", "CANCELLED", "twice"}]
      /\ \A r \in Requests \ gone : outcome'[r] = outcome[r]
      /\ \A row \in Range(rows) : row.tag \in gone =>
           /\ Over(row)
           /\ outcome'[row.tag] \in {"OK", "FAILED", "CANCELLED"}
           /\ outcome'[row.tag] = "OK" => ~row.failed /\ ~row.cancelled
  <2>1. \A row \in Range(rows) : outcome[row.tag] = "none"
    BY <1>3 DEF RowOK
  <2> QED  BY <1>1, <1>2, <2>1, RetiredFacts
<1> HIDE DEF gone
<1>5. Ganged' = Ganged
  BY <1>1 DEF Ganged
<1>6. \A row \in Range(rows) :
        /\ row.cancelled => row.st = "ended"
        /\ row.st = "preparing" <=> row.tag \in Range(prepq)
        /\ row.st = "starting" <=> row.tag \in building \cup Tags(built)
        /\ RowSound(row)'
        /\ row.tag \in gone => row.tag \notin Ganged'
  <2> SUFFICES ASSUME NEW row \in Range(rows)
               PROVE  /\ row.cancelled => row.st = "ended"
                      /\ row.st = "preparing" <=> row.tag \in Range(prepq)
                      /\ row.st = "starting" <=> row.tag \in building \cup Tags(built)
                      /\ RowSound(row)'
                      /\ row.tag \in gone => row.tag \notin Ganged'
    OBVIOUS
  <2>1. RowOK(row)
    BY <1>3
  <2>2. RowSound(row)'
    BY <1>1, <2>1 DEF RowOK, RowSound
  <2>3. row.tag \in gone => row.tag \notin Ganged
    <3>1. row.tag \in gone => ~row.held
      BY <1>4 DEF Over
    <3>2. row.tag \in Ganged => row.held
      BY <2>1 DEF RowOK, RowSound, Ganged
    <3> QED  BY <3>1, <3>2
  <2> QED  BY <1>5, <2>1, <2>2, <2>3 DEF RowOK
<1>7. LoopTyped'
  BY <1>1 DEF DriverInv, LoopTyped, Places
<1>8. PlaceOK'
  <2>1. mode.decode \in BOOLEAN /\ early \in BOOLEAN
    BY <1>2, ModeFacts DEF DriverInv, LoopTyped
  <2> QED  BY <1>1, <1>5, <2>1 DEF DriverInv, PlaceOK
<1>9. \A r \in Requests : audio[r].sent + gang[r] <= audio[r].charged
  BY DEF DriverInv, RequestsOK, RequestOK
<1>10. /\ gang' \in {gang, Idle} /\ audio' \in [Requests -> Sound]
       /\ \A r \in Requests : /\ audio'[r].made = audio[r].made /\ audio'[r].charged = audio[r].charged
                              /\ audio'[r].sent + gang'[r] <= audio'[r].charged
                              /\ gang[r] = 0 => audio'[r].sent = audio[r].sent
       /\ UNCHANGED <<mode, queue, prepq, building, built, ahead>>
  BY <1>1, <1>2, <1>9
<1>11. \A row \in Range(rows) :
         /\ row.cancelled => row.st = "ended"
         /\ row.st = "preparing" <=> row.tag \in Range(prepq)
         /\ row.st = "starting" <=> row.tag \in building \cup Tags(built)
         /\ RowSound(row)'
         /\ row.tag \in gone => /\ Over(row) /\ row.tag \notin Ganged'
                                /\ outcome'[row.tag] \in {"OK", "FAILED", "CANCELLED"}
                                /\ outcome'[row.tag] = "OK" => ~row.failed /\ ~row.cancelled
  BY <1>4, <1>6
<1> QED  BY <1>2, <1>4, <1>7, <1>8, <1>10, <1>11, RetiredKeepsInv

\* The rows as the wait for the decode leaves them: free to go.
LEMMA FreedFacts ==
  ASSUME DriverInv, NEW bad
  PROVE  LET rs == [i \in DOMAIN rows |-> [FailAll(rows, bad)[i] EXCEPT !.held = FALSE]]
             au == Delivered(rows, audio, bad)
         IN /\ rs \in Seq(Row) /\ OneEach(rs) /\ Tags(rs) = Tags(rows) /\ Len(rs) = Len(rows)
            /\ rs = <<>> <=> rows = <<>>
            /\ \A row \in Range(rs) :
                 /\ row.cancelled => row.st = "ended"
                 /\ row.st = "preparing" <=> row.tag \in Range(prepq)
                 /\ row.st = "starting" <=> row.tag \in building \cup Tags(built)
                 /\ outcome[row.tag] = "none"
                 /\ ~row.failed /\ ~row.cancelled /\ row.tag \notin Offline =>
                      /\ au[row.tag].sent = au[row.tag].charged
                      /\ row.st = "ended" => au[row.tag].charged = au[row.tag].made
            /\ \A row \in Range(rs) : \E old \in Range(rows) : row.tag = old.tag /\ row.cancelled = old.cancelled
<1> DEFINE ss == FailAll(rows, bad)
           rs == [i \in DOMAIN rows |-> [ss[i] EXCEPT !.held = FALSE]]
           au == Delivered(rows, audio, bad)
<1>1. rows \in Seq(Row) /\ OneEach(rows)
  BY DEF DriverInv, RowsTyped, ListsOK
<1>2. /\ ss \in Seq(Row) /\ Len(ss) = Len(rows) /\ Tags(ss) = Tags(rows) /\ OneEach(ss)
      /\ ss = <<>> <=> rows = <<>>
      /\ \A new \in Range(ss) : \E old \in Range(rows) :
              /\ old \in Row /\ new \in Row /\ new.tag = old.tag
              /\ new.cancelled = old.cancelled
              /\ (old.cancelled => old.st = "ended") => (new.cancelled => new.st = "ended")
              /\ new.st = "preparing" <=> old.st = "preparing"
              /\ new.st = "starting" <=> old.st = "starting"
  BY <1>1, FailAllFacts
<1>3. \A row \in Range(rows) : RowOK(row)
  BY DEF DriverInv, RowsOK
<1>4. ASSUME NEW new \in Range(ss)
      PROVE  /\ new.cancelled => new.st = "ended"
             /\ new.st = "preparing" <=> new.tag \in Range(prepq)
             /\ new.st = "starting" <=> new.tag \in building \cup Tags(built)
             /\ outcome[new.tag] = "none"
             /\ \E old \in Range(rows) : new.tag = old.tag /\ new.cancelled = old.cancelled
             /\ ~new.failed /\ ~new.cancelled /\ new.tag \notin Offline =>
                  /\ au[new.tag].sent = au[new.tag].charged
                  /\ new.st = "ended" => au[new.tag].charged = au[new.tag].made
  <2>1. PICK old \in Range(rows) :
              /\ old \in Row /\ new \in Row /\ new.tag = old.tag
              /\ new.cancelled = old.cancelled
              /\ (old.cancelled => old.st = "ended") => (new.cancelled => new.st = "ended")
              /\ new.st = "preparing" <=> old.st = "preparing"
              /\ new.st = "starting" <=> old.st = "starting"
    BY <1>2
  <2>2. \A row \in Range(rows) : RowSound(row)
    BY <1>3 DEF RowOK
  <2>3. ~new.failed /\ ~new.cancelled /\ new.tag \notin Offline =>
                  /\ au[new.tag].sent = au[new.tag].charged
                  /\ new.st = "ended" => au[new.tag].charged = au[new.tag].made
    BY <1>1, <2>2, Arrived
  <2> QED  BY <1>3, <2>1, <2>3 DEF RowOK
<1> HIDE DEF ss
<1>5. DOMAIN ss = DOMAIN rows
  BY <1>1, <1>2, SeqDomain
<1>6. /\ DOMAIN rs = DOMAIN ss /\ rs = [i \in DOMAIN ss |-> rs[i]]
      /\ \A i \in DOMAIN ss : rs[i] = [ss[i] EXCEPT !.held = FALSE]
  BY <1>5
<1> HIDE DEF rs
<1>7. ASSUME NEW i \in DOMAIN ss
      PROVE  /\ rs[i] \in Row /\ rs[i].tag = ss[i].tag /\ rs[i].st = ss[i].st
             /\ rs[i].cancelled = ss[i].cancelled /\ rs[i].failed = ss[i].failed
  <2>1. ss[i] \in Row
    BY <1>2, SeqDomain
  <2> DEFINE old == ss[i]
             new == rs[i]
  <2>2. old \in Row /\ new = [old EXCEPT !.held = FALSE]
    BY <1>6, <2>1
  <2> HIDE DEF old, new
  <2>3. /\ new \in Row /\ new.tag = old.tag /\ new.st = old.st
        /\ new.cancelled = old.cancelled /\ new.failed = old.failed
    BY <2>2 DEF Row
  <2> QED  BY <2>3 DEF old, new
<1>8. /\ rs \in Seq(Row) /\ Len(rs) = Len(ss) /\ Tags(rs) = Tags(ss) /\ OneEach(rs)
      /\ rs = <<>> <=> ss = <<>>
      /\ \A new \in Range(rs) : \E i \in DOMAIN ss : ss[i] \in Range(ss) /\ ss[i] \in Row /\ new = rs[i]
  BY <1>2, <1>6, <1>7, InPlace
<1>9. ASSUME NEW row \in Range(rs)
      PROVE  /\ row.cancelled => row.st = "ended"
             /\ row.st = "preparing" <=> row.tag \in Range(prepq)
             /\ row.st = "starting" <=> row.tag \in building \cup Tags(built)
             /\ outcome[row.tag] = "none"
             /\ \E old \in Range(rows) : row.tag = old.tag /\ row.cancelled = old.cancelled
             /\ ~row.failed /\ ~row.cancelled /\ row.tag \notin Offline =>
                  /\ au[row.tag].sent = au[row.tag].charged
                  /\ row.st = "ended" => au[row.tag].charged = au[row.tag].made
  <2> HIDE DEF au
  <2>1. PICK i \in DOMAIN ss : ss[i] \in Range(ss) /\ ss[i] \in Row /\ row = rs[i]
    BY <1>8
  <2> DEFINE new == ss[i]
  <2>2. /\ new \in Range(ss) /\ row.tag = new.tag /\ row.st = new.st
        /\ row.cancelled = new.cancelled /\ row.failed = new.failed
    BY <1>7, <2>1
  <2> HIDE DEF new
  <2> QED  BY <1>4, <2>2
<1> QED  BY <1>2, <1>8, <1>9 DEF ss, rs, au

LEMMA CollectKeepsInv ==
  ASSUME DriverInv, Collect
  PROVE  DriverInv'
<1>1. PICK bad \in SUBSET Ganged :
       LET rs == [i \in DOMAIN rows |-> [FailAll(rows, bad)[i] EXCEPT !.held = FALSE]]
           au == Delivered(rows, audio, bad)
       IN /\ audio' = au
          /\ IF ahead = {} THEN RetirePass(rs, au) ELSE rows' = rs /\ UNCHANGED outcome
  BY DEF Collect
<1>2. /\ at = "collect" /\ gang' = Idle
      /\ IF rows' = <<>> THEN at' = "admit" /\ admits' = 0
         ELSE at' = (IF early THEN "step" ELSE "prefill") /\ UNCHANGED admits
      /\ early' = (early /\ rows' = <<>>)
      /\ UNCHANGED <<mode, running, queue, prepq, rr, ahead, building, built>>
  BY DEF Collect
<1> DEFINE rs == [i \in DOMAIN rows |-> [FailAll(rows, bad)[i] EXCEPT !.held = FALSE]]
           au == Delivered(rows, audio, bad)
           gone == IF ahead = {} THEN Retirable(rs) ELSE {}
<1>3. audio' = au /\ (IF ahead = {} THEN RetirePass(rs, au) ELSE rows' = rs /\ UNCHANGED outcome)
  BY <1>1, Zenon
<1>4. /\ rs \in Seq(Row) /\ OneEach(rs) /\ Tags(rs) = Tags(rows) /\ Len(rs) = Len(rows)
      /\ \A row \in Range(rs) :
           /\ row.cancelled => row.st = "ended"
           /\ row.st = "preparing" <=> row.tag \in Range(prepq)
           /\ row.st = "starting" <=> row.tag \in building \cup Tags(built)
           /\ outcome[row.tag] = "none"
           /\ ~row.failed /\ ~row.cancelled /\ row.tag \notin Offline =>
                /\ au[row.tag].sent = au[row.tag].charged
                /\ row.st = "ended" => au[row.tag].charged = au[row.tag].made
  BY FreedFacts, Zenon
<1>5. /\ mode \in Modes /\ DeviceTyped /\ AudioTyped /\ RequestsOK
      /\ outcome \in [Requests -> {"none", "OK", "FAILED", "CANCELLED", "twice"}]
  BY DEF DriverInv, LoopTyped, AudioTyped
<1>6. /\ au \in [Requests -> Sound]
      /\ \A r \in Requests :
           /\ au[r].made = audio[r].made /\ au[r].charged = audio[r].charged /\ au[r].sent <= au[r].charged
           /\ r \notin Ganged => au[r].sent = audio[r].sent
  BY <1>5, DeliveredFacts
<1> HIDE DEF rs, au
<1>7. \A r \in Requests : gang'[r] = 0 /\ au[r].sent \in Nat
  BY <1>2, <1>6 DEF Idle, Sound
<1>8. /\ rows' \in Seq(Row) /\ OneEach(rows') /\ Len(rows') <= Len(rs)
      /\ Range(rows') = {row \in Range(rs) : row.tag \notin gone}
      /\ gone \subseteq Tags(rs)
      /\ outcome' \in [Requests -> {"none", "OK", "FAILED", "CANCELLED", "twice"}]
      /\ \A r \in Requests \ gone : outcome'[r] = outcome[r]
      /\ \A row \in Range(rs) : row.tag \in gone =>
           /\ Over(row)
           /\ outcome'[row.tag] \in {"OK", "FAILED", "CANCELLED"}
           /\ outcome'[row.tag] = "OK" => ~row.failed /\ ~row.cancelled
  <2>1. CASE ahead = {}
    <3>1. gone = Retirable(rs) /\ RetirePass(rs, au)
      BY <1>3, <2>1
    <3> QED  BY <1>4, <1>5, <1>6, <3>1, RetiredFacts
  <2>2. CASE ahead # {}
    <3>1. gone = {} /\ rows' = rs /\ outcome' = outcome
      BY <1>3, <2>2
    <3>2. Len(rs) \in Nat
      BY <1>4, SeqDomain
    <3> QED  BY <1>4, <1>5, <3>1, <3>2
  <2> QED  BY <2>1, <2>2
<1> HIDE DEF gone
<1>9. Ganged' = {}
  BY <1>7 DEF Ganged
<1>10. \A row \in Range(rs) : RowSound(row)'
  <2> SUFFICES ASSUME NEW row \in Range(rs) PROVE RowSound(row)'
    OBVIOUS
  <2>1. row.tag \in Requests
    BY <1>4, RowTags DEF Row
  <2>2. gang'[row.tag] = 0 /\ audio'[row.tag].sent + gang'[row.tag] = audio'[row.tag].sent
    BY <1>3, <1>7, <2>1
  <2>3. ~(gang'[row.tag] > 0)
    BY <2>2
  <2> QED  BY <1>3, <1>4, <2>2, <2>3 DEF RowSound
<1>11. /\ gang' \in {gang, Idle} /\ audio' \in [Requests -> Sound]
       /\ \A r \in Requests : /\ audio'[r].made = audio[r].made /\ audio'[r].charged = audio[r].charged
                              /\ audio'[r].sent + gang'[r] <= audio'[r].charged
                              /\ gang[r] = 0 => audio'[r].sent = audio[r].sent
  <2> SUFFICES ASSUME NEW r \in Requests
               PROVE  /\ audio'[r].made = audio[r].made /\ audio'[r].charged = audio[r].charged
                      /\ audio'[r].sent + gang'[r] <= audio'[r].charged
                      /\ gang[r] = 0 => audio'[r].sent = audio[r].sent
    BY <1>2, <1>3, <1>6
  <2>1. gang[r] = 0 => r \notin Ganged
    BY DEF Ganged
  <2> QED  BY <1>3, <1>6, <1>7, <2>1
<1>12. LoopTyped'
  <2>1. early' \in BOOLEAN /\ at' \in Places
    BY <1>2 DEF Places
  <2>2. admits' \in Nat
    BY <1>2 DEF DriverInv, LoopTyped
  <2> QED  BY <1>2, <2>1, <2>2 DEF DriverInv, LoopTyped
<1>13. PlaceOK'
  BY <1>2, <1>9 DEF PlaceOK
<1> QED  BY <1>2, <1>4, <1>8, <1>9, <1>10, <1>11, <1>12, <1>13, RetiredKeepsInv
-----------------------------------------------------------------------------
(* A step.                                                                 *)

Answers == {"frame", "none", "eos", "segment", "fail"}

\* The frames of a step: only the requests that were stepped have any.
LEMMA MadeFacts ==
  ASSUME mode \in Modes, AudioTyped, RequestsOK, NEW who, NEW results \in [who -> Answers],
         \A r \in who : results[r] = "frame" => audio[r].made < mode.frames
  PROVE  LET au == Made(who, results) IN
         /\ au \in [Requests -> Sound]
         /\ \A r \in Requests :
              /\ au[r].charged = audio[r].charged /\ au[r].sent = audio[r].sent
              /\ au[r].charged <= au[r].made
              /\ r \notin who => au[r] = audio[r]
<1> DEFINE au == Made(who, results)
<1>1. au = [r \in Requests |->
              IF r \notin who THEN audio[r]
              ELSE [audio[r] EXCEPT !.made = IF results[r] = "frame" THEN @ + 1 ELSE @,
                                    !.more = @ /\ results[r] # "segment"]]
  BY DEF Made
<1> HIDE DEF au
<1>2. ASSUME NEW r \in Requests
      PROVE  /\ au[r] \in Sound
             /\ au[r].charged = audio[r].charged /\ au[r].sent = audio[r].sent
             /\ au[r].charged <= au[r].made
             /\ r \notin who => au[r] = audio[r]
  <2> DEFINE a == audio[r]
             b == au[r]
             n == IF results[r] = "frame" THEN a.made + 1 ELSE a.made
             m == a.more /\ results[r] # "segment"
  <2>1. a \in Sound /\ mode.frames \in Nat /\ a.charged <= a.made
    BY ModeFacts DEF AudioTyped, RequestsOK, RequestOK
  <2>2. CASE r \notin who
    <3>1. b = a
      BY <1>1, <2>2
    <3> QED  BY <2>1, <2>2, <3>1
  <2>3. CASE r \in who
    <3>1. b = [a EXCEPT !.made = n, !.more = m]
      BY <1>1, <2>3, Zenon
    <3>2. m \in BOOLEAN
      BY Zenon
    <3>3. results[r] = "frame" => a.made < mode.frames
      BY <2>3
    <3>4. a.made \in 0..mode.frames /\ a.charged \in 0..mode.frames /\ a.sent \in 0..mode.frames
      BY <2>1 DEF Sound
    <3> HIDE DEF a
    <3>5. n \in 0..mode.frames /\ a.charged <= n
      BY <2>1, <3>3, <3>4
    <3> HIDE DEF n, m, b
    <3>6. b = [made |-> n, charged |-> a.charged, sent |-> a.sent, more |-> m]
      BY <2>1, <3>1 DEF Sound
    <3>7. b \in Sound
      BY <3>2, <3>4, <3>5, <3>6 DEF Sound
    <3>8. b.charged = a.charged /\ b.sent = a.sent /\ b.charged <= b.made
      BY <3>5, <3>6
    <3> QED  BY <2>3, <3>7, <3>8 DEF a, b
  <2> QED  BY <2>2, <2>3
<1>3. au \in [Requests -> Sound]
  <2>1. DOMAIN au = Requests /\ au = [r \in Requests |-> au[r]]
    BY <1>1
  <2> QED  BY <1>2, <2>1
<1> QED  BY <1>2, <1>3 DEF au

\* Who decodes after a step has frames to decode, was stepped in a row that has
\* not failed, and decodes all it has when its text ends.
LEMMA GangFacts ==
  ASSUME NEW rs \in Seq(Row), NEW au \in [Requests -> Sound], mode \in Modes,
         \A r \in Requests : au[r].charged <= au[r].made, NEW who, NEW results \in [who -> Answers],
         NEW ranges, ranges = GangOf(rs, au, results)
  PROVE  /\ DOMAIN ranges = Requests
         /\ \A r \in Requests :
              /\ ranges[r] \in Nat /\ au[r].charged + ranges[r] <= au[r].made
              /\ ranges[r] > 0 => r \in who
              /\ /\ r \in who /\ r \notin Offline /\ results[r] \in {"eos", "segment"}
                 /\ \A i \in DOMAIN rs : rs[i].tag = r => ~rs[i].failed
                 => au[r].charged + ranges[r] = au[r].made
<1> DEFINE failed == {rs[i].tag : i \in {k \in DOMAIN rs : rs[k].failed}}
           streams == {r \in DOMAIN results : r \notin Offline \cup failed /\ results[r] # "fail"}
           Ends(r) == results[r] \in {"eos", "segment"}
           leading == \E r \in streams : Leads(au, r, Ends(r))
           joins == {r \in streams : Ready(au, r, Ends(r)) \/ leading}
<1>1. ranges = [r \in Requests |-> IF r \in joins THEN Pending(au, r) ELSE 0]
  BY Zenon DEF GangOf
<1>2. joins \subseteq who
  OBVIOUS
<1>3. ASSUME NEW r \in Requests
      PROVE  /\ ranges[r] \in Nat /\ au[r].charged + ranges[r] <= au[r].made
             /\ ranges[r] > 0 => r \in who
             /\ /\ r \in who /\ r \notin Offline /\ results[r] \in {"eos", "segment"}
                /\ \A i \in DOMAIN rs : rs[i].tag = r => ~rs[i].failed
                => au[r].charged + ranges[r] = au[r].made
  <2> DEFINE c == au[r].charged
             m == au[r].made
  <2>1. c \in Nat /\ m \in Nat /\ c <= m
    <3>1. c \in 0..mode.frames /\ m \in 0..mode.frames
      BY DEF Sound
    <3> QED  BY <3>1
  <2>2. Pending(au, r) = m - c
    BY DEF Pending
  <2>3. ranges[r] = IF r \in joins THEN m - c ELSE 0
    BY <1>1, <2>2, Zenon
  <2>4. ASSUME r \in who, r \notin Offline, results[r] \in {"eos", "segment"},
               \A i \in DOMAIN rs : rs[i].tag = r => ~rs[i].failed, r \notin joins
        PROVE  m - c = 0
    <3>1. r \in streams
      BY <2>4
    <3>2. ~Ready(au, r, Ends(r)) /\ Ends(r)
      BY <2>4, <3>1
    <3>3. ~(Pending(au, r) > 0)
      BY <3>2 DEF Ready
    <3> QED  BY <2>1, <2>2, <3>3
  <2> HIDE DEF joins, c, m
  <2>5. ranges[r] \in Nat /\ c + ranges[r] <= m /\ (ranges[r] > 0 => r \in joins)
    BY <2>1, <2>3
  <2>6. r \in joins => c + ranges[r] = m
    BY <2>1, <2>3
  <2>7. m - c = 0 => c + ranges[r] = m
    BY <2>1, <2>3
  <2> QED  BY <1>2, <2>4, <2>5, <2>6, <2>7 DEF c, m
<1>4. DOMAIN ranges = Requests
  BY <1>1, Zenon
<1> QED  BY <1>3, <1>4

\* What is charged is sent or in flight, unless the decode failed for it.
LEMMA DecodedFacts ==
  ASSUME mode \in Modes, NEW au \in [Requests -> Sound], NEW ranges, NEW bad, Decoded(au, ranges, bad),
         \A r \in Requests : /\ ranges[r] \in Nat /\ au[r].charged + ranges[r] <= au[r].made
                             /\ au[r].sent <= au[r].charged
  PROVE  /\ audio' \in [Requests -> Sound] /\ gang' \in [Requests -> 0..mode.frames]
         /\ Ganged' # {} => mode.decode
         /\ \A r \in Requests :
              /\ audio'[r].made = au[r].made /\ audio'[r].charged = au[r].charged + ranges[r]
              /\ audio'[r].sent + gang'[r] <= audio'[r].charged
              /\ au[r].sent = au[r].charged /\ r \notin bad => audio'[r].sent + gang'[r] = audio'[r].charged
              /\ ranges[r] = 0 => gang'[r] = 0 /\ audio'[r].sent = au[r].sent
<1> DEFINE all == {r \in Requests : ranges[r] > 0}
           now == IF mode.decode THEN {r \in all : mode.firstFirst /\ au[r].charged = 0} ELSE all
           rest == all \ now
<1>1. /\ gang' = [r \in Requests |-> IF r \in rest \ bad THEN ranges[r] ELSE 0]
      /\ audio' = SentBy(Charge(au, ranges), ranges, now \ bad)
      /\ bad \subseteq all
  BY DEF Decoded
<1>2. now \subseteq all /\ (rest # {} => mode.decode) /\ rest \cap now = {}
  OBVIOUS
<1>3. \A r \in Requests : r \in all <=> ranges[r] > 0
  OBVIOUS
<1>4. \A r \in Requests : r \in all => r \in now \/ r \in rest
  OBVIOUS
<1>5. rest \subseteq all
  OBVIOUS
<1> HIDE DEF all, now, rest
<1>6. ASSUME NEW r \in Requests
      PROVE  /\ audio'[r] \in Sound /\ gang'[r] \in 0..mode.frames
             /\ audio'[r].made = au[r].made /\ audio'[r].charged = au[r].charged + ranges[r]
             /\ audio'[r].sent + gang'[r] <= audio'[r].charged
             /\ au[r].sent = au[r].charged /\ r \notin bad => audio'[r].sent + gang'[r] = audio'[r].charged
             /\ ranges[r] = 0 => gang'[r] = 0 /\ audio'[r].sent = au[r].sent
  <2> DEFINE a == au[r]
             g == ranges[r]
             c == IF g > 0 THEN [a EXCEPT !.charged = a.charged + g] ELSE a
             s == IF r \in now \ bad THEN g ELSE 0
  <2>1. /\ a \in Sound /\ g \in Nat /\ a.charged + g <= a.made /\ a.sent <= a.charged
        /\ mode.frames \in Nat
    BY ModeFacts
  <2>2. Charge(au, ranges)[r] = c
    BY DEF Charge
  <2>3. audio'[r] = IF r \in now \ bad THEN [c EXCEPT !.sent = c.sent + g] ELSE c
    <3>1. audio'[r] = IF r \in now \ bad THEN [Charge(au, ranges)[r] EXCEPT !.sent = @ + ranges[r]]
                      ELSE Charge(au, ranges)[r]
      BY <1>1 DEF SentBy
    <3> QED  BY <2>2, <3>1
  <2>4. gang'[r] = IF r \in rest \ bad THEN g ELSE 0
    BY <1>1
  <2>5. r \in all <=> g > 0
    BY <1>3
  <2> HIDE DEF a, g, c
  <2>6. /\ a.made \in 0..mode.frames /\ a.charged \in 0..mode.frames /\ a.sent \in 0..mode.frames
        /\ a.more \in BOOLEAN
    BY <2>1 DEF Sound
  <2>7. c = [made |-> a.made, charged |-> a.charged + g, sent |-> a.sent, more |-> a.more]
    <3>1. CASE g > 0
      BY <2>1, <3>1 DEF c, Sound
    <3>2. CASE g = 0
      <4>1. c = a /\ a.charged + g = a.charged
        BY <2>6, <3>2 DEF c
      <4> QED  BY <2>1, <4>1 DEF Sound
    <3> QED  BY <2>1, <3>1, <3>2
  <2>8. audio'[r] = [made |-> a.made, charged |-> a.charged + g, sent |-> a.sent + s, more |-> a.more]
    <3>1. CASE r \in now \ bad
      BY <2>3, <2>7, <3>1
    <3>2. CASE r \notin now \ bad
      BY <2>3, <2>6, <2>7, <3>2
    <3> QED  BY <3>1, <3>2
  <2>9. s \in Nat /\ s + gang'[r] <= g /\ gang'[r] \in Nat
    <3>1. r \in now => r \notin rest
      BY <1>2
    <3> QED  BY <2>1, <2>4, <3>1
  <2>10. r \notin bad => s + gang'[r] = g
    <3>1. g > 0 => r \in now \/ r \in rest
      BY <1>4, <2>5
    <3>2. r \in now => r \notin rest
      BY <1>2
    <3> QED  BY <2>1, <2>4, <3>1, <3>2
  <2> HIDE DEF s
  <2>11. a.charged + g \in 0..mode.frames /\ a.sent + s \in 0..mode.frames /\ gang'[r] \in 0..mode.frames
    BY <2>1, <2>6, <2>9
  <2>12. audio'[r] \in Sound
    BY <2>6, <2>8, <2>11 DEF Sound
  <2>13. /\ audio'[r].made = a.made /\ audio'[r].charged = a.charged + g /\ audio'[r].sent = a.sent + s
    BY <2>8
  <2>14. /\ audio'[r].sent + gang'[r] <= audio'[r].charged
         /\ a.sent = a.charged /\ r \notin bad => audio'[r].sent + gang'[r] = audio'[r].charged
         /\ g = 0 => gang'[r] = 0 /\ audio'[r].sent = a.sent
    BY <2>1, <2>6, <2>9, <2>10, <2>13
  <2> QED  BY <2>11, <2>12, <2>13, <2>14 DEF a, g
<1>7. audio' \in [Requests -> Sound]
  <2>1. audio' = [r \in Requests |-> audio'[r]]
    BY <1>1 DEF SentBy
  <2> QED  BY <1>6, <2>1
<1>8. gang' \in [Requests -> 0..mode.frames]
  <2>1. gang' = [r \in Requests |-> gang'[r]]
    BY <1>1
  <2> QED  BY <1>6, <2>1
<1>9. Ganged' # {} => mode.decode
  <2>1. ASSUME NEW r \in Requests, gang'[r] > 0 PROVE mode.decode
    <3>1. gang'[r] = IF r \in rest \ bad THEN ranges[r] ELSE 0
      BY <1>1
    <3> QED  BY <1>2, <2>1, <3>1
  <2> QED  BY <2>1 DEF Ganged
<1> QED  BY <1>6, <1>7, <1>8, <1>9

LEMMA EndsIsBoolean ==
  ASSUME NEW x
  PROVE  (x \in {"eos", "segment"}) \in BOOLEAN
BY SMT

\* What a step makes of one of its rows.
LEMMA AfterStepFacts ==
  ASSUME NEW rs \in Seq(Row), NEW who, NEW results \in [who -> Answers], NEW bad, NEW emitted \in BOOLEAN,
         mode.decode \in BOOLEAN
  PROVE  LET ss == AfterStep(rs, results, bad, emitted) IN
         /\ DOMAIN ss = DOMAIN rs /\ ss = [i \in DOMAIN rs |-> ss[i]]
         /\ \A i \in DOMAIN rs :
              LET old == rs[i]
                  new == ss[i]
                  fails == old.tag \in bad \/ results[old.tag] = "fail"
              IN /\ new \in Row /\ new.tag = old.tag /\ new.cancelled = old.cancelled
                 /\ old.tag \notin who => new = old
                 /\ old.tag \in who =>
                      /\ new.held = mode.decode
                      /\ new.failed <=> old.failed \/ fails
                      /\ new.failed \/ ~emitted \/ results[old.tag] \notin {"eos", "segment"} =>
                           new.st = IF fails /\ old.st = "active" THEN "ended" ELSE old.st
                      /\ ~new.failed /\ emitted /\ results[old.tag] = "eos" => new.st = "ended"
                      /\ ~new.failed /\ emitted /\ results[old.tag] = "segment" => new.st = "preparing"
<1> DEFINE ss == AfterStep(rs, results, bad, emitted)
<1>1. DOMAIN ss = DOMAIN rs /\ ss = [i \in DOMAIN rs |-> ss[i]]
  BY DEF AfterStep
<1>2. ASSUME NEW i \in DOMAIN rs
      PROVE  LET old == rs[i]
                 new == ss[i]
                 fails == old.tag \in bad \/ results[old.tag] = "fail"
             IN /\ new \in Row /\ new.tag = old.tag /\ new.cancelled = old.cancelled
                /\ old.tag \notin who => new = old
                /\ old.tag \in who =>
                     /\ new.held = mode.decode
                     /\ new.failed <=> old.failed \/ fails
                     /\ new.failed \/ ~emitted \/ results[old.tag] \notin {"eos", "segment"} =>
                          new.st = IF fails /\ old.st = "active" THEN "ended" ELSE old.st
                     /\ ~new.failed /\ emitted /\ results[old.tag] = "eos" => new.st = "ended"
                     /\ ~new.failed /\ emitted /\ results[old.tag] = "segment" => new.st = "preparing"
  <2> DEFINE old == rs[i]
             new == ss[i]
             r == old.tag
             fails == r \in bad \/ results[r] = "fail"
             row == IF fails THEN Fail(old) ELSE old
             st == CASE row.failed \/ ~emitted \/ results[r] \notin {"eos", "segment"} -> row.st
                     [] ~row.failed /\ emitted /\ results[r] = "eos" -> "ended"
                     [] ~row.failed /\ emitted /\ results[r] = "segment" -> "preparing"
  <2>1. old \in Row
    BY SeqDomain
  <2>2. new = IF r \notin DOMAIN results THEN old
              ELSE [row EXCEPT !.held = mode.decode, !.spent = results[r] \in {"eos", "segment"}, !.st = st]
    BY Zenon DEF AfterStep
  <2>3. DOMAIN results = who
    OBVIOUS
  <2> HIDE DEF new, old
  <2>4. CASE r \notin who
    BY <2>1, <2>2, <2>3, <2>4 DEF new, old
  <2>5. CASE r \in who
    <3>1. new = [row EXCEPT !.held = mode.decode, !.spent = results[r] \in {"eos", "segment"}, !.st = st]
      BY <2>2, <2>3, <2>5
    <3>2. /\ row \in Row /\ row.tag = r /\ row.cancelled = old.cancelled /\ (row.failed <=> old.failed \/ fails)
          /\ row.st = IF fails /\ old.st = "active" THEN "ended" ELSE old.st
      <4>1. CASE fails
        BY <2>1, <4>1, RowEdits
      <4>2. CASE ~fails
        BY <2>1, <4>2
      <4> QED  BY <4>1, <4>2
    <3> DEFINE sp == results[r] \in {"eos", "segment"}
    <3>3. sp \in BOOLEAN
      BY EndsIsBoolean
    <3>4. row.failed \in BOOLEAN /\ row.st \in {"starting", "preparing", "active", "ended"}
      BY <3>2, RowEdits
    <3>5. st \in {"starting", "preparing", "active", "ended"}
      <4> HIDE DEF row
      <4>1. \/ row.failed \/ ~emitted \/ results[r] \notin {"eos", "segment"}
            \/ ~row.failed /\ emitted /\ results[r] = "eos"
            \/ ~row.failed /\ emitted /\ results[r] = "segment"
        BY <3>4
      <4> QED  BY <3>4, <4>1
    <3>6. /\ row.failed \/ ~emitted \/ results[r] \notin {"eos", "segment"} => st = row.st
          /\ ~row.failed /\ emitted /\ results[r] = "eos" => st = "ended"
          /\ ~row.failed /\ emitted /\ results[r] = "segment" => st = "preparing"
      <4> HIDE DEF row
      <4> QED  BY <3>4
    <3> HIDE DEF row, st, sp
    <3>7. /\ new \in Row /\ new.tag = row.tag /\ new.cancelled = row.cancelled /\ new.failed = row.failed
          /\ new.held = mode.decode /\ new.st = st
      <4>1. new = [row EXCEPT !.held = mode.decode, !.spent = sp, !.st = st]
        BY <3>1 DEF sp
      <4> QED  BY <3>2, <3>3, <3>5, <4>1 DEF Row
    <3> HIDE DEF fails
    <3>8. /\ new \in Row /\ new.tag = r /\ new.cancelled = old.cancelled
          /\ new.held = mode.decode
          /\ new.failed <=> old.failed \/ fails
          /\ new.failed \/ ~emitted \/ results[r] \notin {"eos", "segment"} =>
               new.st = IF fails /\ old.st = "active" THEN "ended" ELSE old.st
          /\ ~new.failed /\ emitted /\ results[r] = "eos" => new.st = "ended"
          /\ ~new.failed /\ emitted /\ results[r] = "segment" => new.st = "preparing"
      BY <3>2, <3>6, <3>7
    <3> QED  BY <2>5, <3>8 DEF fails, old, new
  <2> QED  BY <2>4, <2>5
<1> QED  BY <1>1, <1>2

\* A step of some rows, from wherever they were chosen: each of them is active, or
\* has failed and rides along, and no decode is in flight.
LEMMA StepLiveKeepsInv ==
  ASSUME DriverInv, LoopTyped', Ganged = {}, rows # <<>>, mode.decode => at' = "retire", early' = mode.overlap,
         ahead' = {}, UNCHANGED <<mode, queue, building, built, outcome>>,
         NEW rs \in Seq(Row), OneEach(rs), Tags(rs) = Tags(rows), Len(rs) = Len(rows),
         \A row \in Range(rs) :
           /\ row.cancelled => row.st = "ended"
           /\ row.st = "preparing" <=> row.tag \in Range(prepq)
           /\ row.st = "starting" <=> row.tag \in building \cup Tags(built)
           /\ RowSound(row),
         NEW who, who \subseteq Tags(rs), IsFiniteSet(who), Cardinality(who) <= mode.batch,
         \A row \in Range(rs) : row.tag \in who => row.st = "active" \/ row.failed,
         StepLive(rs, who)
  PROVE  DriverInv'
<1>1. PICK emitted \in BOOLEAN : \E results \in Results(rs, who, emitted) :
        LET au == Made(who, results)
            ranges == IF emitted THEN GangOf(rs, au, results) ELSE Idle
        IN \E bad \in SUBSET {r \in Requests : ranges[r] > 0} :
             /\ Decoded(au, ranges, bad)
             /\ rows' = AfterStep(rs, results, bad, emitted)
             /\ prepq' = prepq \o Keep(TagsOf(rs), {r \in who : \E i \in DOMAIN rs :
                           rs[i].tag = r /\ rs[i].st # "preparing" /\ rows'[i].st = "preparing"})
  BY Zenon DEF StepLive
<1>2. PICK results \in Results(rs, who, emitted) :
        LET au == Made(who, results)
            ranges == IF emitted THEN GangOf(rs, au, results) ELSE Idle
        IN \E bad \in SUBSET {r \in Requests : ranges[r] > 0} :
             /\ Decoded(au, ranges, bad)
             /\ rows' = AfterStep(rs, results, bad, emitted)
             /\ prepq' = prepq \o Keep(TagsOf(rs), {r \in who : \E i \in DOMAIN rs :
                           rs[i].tag = r /\ rs[i].st # "preparing" /\ rows'[i].st = "preparing"})
  BY <1>1, Zenon
<1> DEFINE au == Made(who, results)
           ranges == IF emitted THEN GangOf(rs, au, results) ELSE Idle
           again == {r \in who : \E i \in DOMAIN rs :
                       rs[i].tag = r /\ rs[i].st # "preparing" /\ rows'[i].st = "preparing"}
<1>3. PICK bad \in SUBSET {r \in Requests : ranges[r] > 0} :
             /\ Decoded(au, ranges, bad)
             /\ rows' = AfterStep(rs, results, bad, emitted)
             /\ prepq' = prepq \o Keep(TagsOf(rs), again)
  BY <1>2, Zenon
<1>4. /\ results \in [who -> Answers]
      /\ \A r \in who : results[r] = "frame" => audio[r].made < mode.frames
  BY <1>2, Zenon DEF Results, Answers
<1>5. /\ mode \in Modes /\ DeviceTyped /\ AudioTyped /\ RequestsOK
      /\ OneEach(built) /\ building \cap Tags(built) = {} /\ building \subseteq Requests
      /\ built \in Seq([tag : Requests, ok : BOOLEAN])
      /\ Range(prepq) \cup building \cup Tags(built) \subseteq Tags(rows)
      /\ prepq \in Seq(Requests) /\ Once(prepq)
  BY DEF DriverInv, LoopTyped, RowsTyped, ListsOK
<1>6. mode.decode \in BOOLEAN /\ (mode.decode => mode.overlap) /\ mode.frames \in Nat /\ mode.batch \in Nat
  BY <1>5, ModeFacts
<1>7. /\ au \in [Requests -> Sound]
      /\ \A r \in Requests :
           /\ au[r].charged = audio[r].charged /\ au[r].sent = audio[r].sent
           /\ au[r].charged <= au[r].made
           /\ r \notin who => au[r] = audio[r]
  BY <1>4, <1>5, MadeFacts
<1> HIDE DEF au
<1>8. \A r \in Requests :
        /\ ranges[r] \in Nat /\ au[r].charged + ranges[r] <= au[r].made
        /\ ranges[r] > 0 => r \in who
        /\ /\ emitted /\ r \in who /\ r \notin Offline /\ results[r] \in {"eos", "segment"}
           /\ \A i \in DOMAIN rs : rs[i].tag = r => ~rs[i].failed
           => au[r].charged + ranges[r] = au[r].made
  <2> DEFINE charges(r) ==
               /\ ranges[r] \in Nat /\ au[r].charged + ranges[r] <= au[r].made
               /\ ranges[r] > 0 => r \in who
               /\ /\ emitted /\ r \in who /\ r \notin Offline /\ results[r] \in {"eos", "segment"}
                  /\ \A i \in DOMAIN rs : rs[i].tag = r => ~rs[i].failed
                  => au[r].charged + ranges[r] = au[r].made
  <2>1. ASSUME emitted, NEW r \in Requests PROVE charges(r)
    <3>1. ranges = GangOf(rs, au, results)
      BY <2>1
    <3>2. \A q \in Requests : au[q].charged <= au[q].made
      BY <1>7
    <3>3. mode \in Modes /\ au \in [Requests -> Sound] /\ results \in [who -> Answers]
      BY <1>4, <1>5, <1>7
    <3> HIDE DEF charges
    <3>4. \A q \in Requests :
              /\ ranges[q] \in Nat /\ au[q].charged + ranges[q] <= au[q].made
              /\ ranges[q] > 0 => q \in who
              /\ /\ q \in who /\ q \notin Offline /\ results[q] \in {"eos", "segment"}
                 /\ \A i \in DOMAIN rs : rs[i].tag = q => ~rs[i].failed
                 => au[q].charged + ranges[q] = au[q].made
      BY <3>1, <3>2, <3>3, GangFacts
    <3> QED  BY <3>4, Zenon DEF charges
  <2>2. ASSUME ~emitted, NEW r \in Requests PROVE charges(r)
    <3>1. ranges[r] = 0
      BY <2>2 DEF Idle
    <3> HIDE DEF ranges
    <3>2. au[r].charged \in Nat
      <4>1. au[r] \in Sound
        BY <1>7
      <4> QED  BY <1>6, <4>1 DEF Sound
    <3>3. au[r].charged + 0 = au[r].charged /\ au[r].charged <= au[r].made
      BY <1>7, <3>2
    <3>4. ranges[r] \in Nat /\ au[r].charged + ranges[r] <= au[r].made /\ ~(ranges[r] > 0)
      BY <3>1, <3>3
    <3> QED  BY <2>2, <3>4
  <2>3. \A r \in Requests : charges(r)
    <3> HIDE DEF charges
    <3> QED  BY <2>1, <2>2, Zenon
  <2> QED  BY <2>3
<1>9. Decoded(au, ranges, bad)
  BY <1>3
<1> HIDE DEF ranges
<1>10. \A r \in Requests : gang[r] = 0 /\ au[r].sent <= au[r].charged /\ audio[r].sent \in Nat /\ audio[r].charged \in Nat
  <2> SUFFICES ASSUME NEW r \in Requests
               PROVE  gang[r] = 0 /\ au[r].sent <= au[r].charged /\ audio[r].sent \in Nat /\ audio[r].charged \in Nat
    OBVIOUS
  <2>1. gang[r] \in 0..mode.frames /\ r \notin Ganged
    BY <1>5 DEF DeviceTyped
  <2>2. gang[r] = 0
    BY <1>6, <2>1 DEF Ganged
  <2>3. audio[r].sent \in Nat /\ audio[r].charged \in Nat
    <3>1. audio[r] \in Sound
      BY <1>5 DEF AudioTyped
    <3> QED  BY <3>1 DEF Sound
  <2>4. audio[r].sent + gang[r] <= audio[r].charged
    BY <1>5 DEF RequestsOK, RequestOK
  <2> QED  BY <1>7, <2>2, <2>3, <2>4
<1>11. /\ audio' \in [Requests -> Sound] /\ gang' \in [Requests -> 0..mode.frames]
       /\ Ganged' # {} => mode.decode
       /\ \A r \in Requests :
            /\ audio'[r].made = au[r].made /\ audio'[r].charged = au[r].charged + ranges[r]
            /\ audio'[r].sent + gang'[r] <= audio'[r].charged
            /\ au[r].sent = au[r].charged /\ r \notin bad => audio'[r].sent + gang'[r] = audio'[r].charged
            /\ ranges[r] = 0 => gang'[r] = 0 /\ audio'[r].sent = au[r].sent
  BY <1>5, <1>7, <1>8, <1>9, <1>10, DecodedFacts
\* A request that was not stepped is left alone.
<1>12. \A r \in Requests \ who :
         /\ audio'[r].made = audio[r].made /\ audio'[r].charged = audio[r].charged
         /\ audio'[r].sent = audio[r].sent /\ gang'[r] = 0
  <2> SUFFICES ASSUME NEW r \in Requests \ who
               PROVE  /\ audio'[r].made = audio[r].made /\ audio'[r].charged = audio[r].charged
                      /\ audio'[r].sent = audio[r].sent /\ gang'[r] = 0
    OBVIOUS
  <2>1. ranges[r] = 0
    BY <1>8
  <2> QED  BY <1>7, <1>10, <1>11, <2>1
<1>13. Ganged' \subseteq who
  BY <1>12 DEF Ganged
<1> DEFINE ss == AfterStep(rs, results, bad, emitted)
<1>14. rows' = ss
  BY <1>3
<1>15. /\ DOMAIN ss = DOMAIN rs /\ ss = [i \in DOMAIN rs |-> ss[i]]
       /\ \A i \in DOMAIN rs :
              LET old == rs[i]
                  new == ss[i]
                  fails == old.tag \in bad \/ results[old.tag] = "fail"
              IN /\ new \in Row /\ new.tag = old.tag /\ new.cancelled = old.cancelled
                 /\ old.tag \notin who => new = old
                 /\ old.tag \in who =>
                      /\ new.held = mode.decode
                      /\ new.failed <=> old.failed \/ fails
                      /\ new.failed \/ ~emitted \/ results[old.tag] \notin {"eos", "segment"} =>
                           new.st = IF fails /\ old.st = "active" THEN "ended" ELSE old.st
                      /\ ~new.failed /\ emitted /\ results[old.tag] = "eos" => new.st = "ended"
                      /\ ~new.failed /\ emitted /\ results[old.tag] = "segment" => new.st = "preparing"
  BY <1>4, <1>6, AfterStepFacts
<1> HIDE DEF ss
<1>16. /\ ss \in Seq(Row) /\ Len(ss) = Len(rs) /\ Tags(ss) = Tags(rs) /\ OneEach(ss)
       /\ ss = <<>> <=> rs = <<>>
       /\ \A new \in Range(ss) : \E i \in DOMAIN rs : rs[i] \in Range(rs) /\ rs[i] \in Row /\ new = ss[i]
  BY <1>15, InPlace
\* Who prefills again.
<1>17. /\ again \subseteq who /\ again \cap Range(prepq) = {}
       /\ \A i \in DOMAIN rs : rs[i].tag \in again <=> rs[i].tag \in who /\ rs[i].st # "preparing" /\ ss[i].st = "preparing"
  <2>1. \A i \in DOMAIN rs : rs[i].tag \in again <=> rs[i].tag \in who /\ rs[i].st # "preparing" /\ ss[i].st = "preparing"
    BY <1>14 DEF OneEach
  <2>2. \A i \in DOMAIN rs : rs[i].tag \in Range(prepq) => rs[i].st = "preparing"
    BY DEF Range
  <2> QED  BY <2>1, <2>2
<1>18. prepq' = prepq \o Keep(TagsOf(rs), again)
  BY <1>3
<1> HIDE DEF again
<1>19. prepq' \in Seq(Requests) /\ Once(prepq') /\ Range(prepq') = Range(prepq) \cup again
  <2> DEFINE tags == TagsOf(rs)
             added == Keep(tags, again)
  <2>1. \A x \in Row : x.tag \in Requests
    BY DEF Row
  <2>2. tags \in Seq(Requests) /\ Range(tags) = Tags(rs) /\ Once(tags)
    BY <2>1, TagFacts
  <2> HIDE DEF tags
  <2>3. added \in Seq(Requests) /\ Range(added) = Range(tags) \cap again /\ Once(added)
    BY <2>2, KeepFacts
  <2>4. Range(added) = again
    BY <1>17, <2>2, <2>3
  <2>5. prepq' = prepq \o added
    BY <1>18 DEF tags
  <2> HIDE DEF added
  <2>6. Range(prepq) \cap Range(added) = {}
    BY <1>17, <2>4
  <2> QED  BY <1>5, <2>3, <2>4, <2>5, <2>6, ConcatFacts
<1>20. RowsOK'
  <2> SUFFICES ASSUME NEW x \in Range(rows') PROVE RowOK(x)'
    BY DEF RowsOK
  <2>1. PICK i \in DOMAIN rs : rs[i] \in Range(rs) /\ rs[i] \in Row /\ x = ss[i]
    BY <1>14, <1>16
  <2> DEFINE old == rs[i]
             new == ss[i]
             r == old.tag
             fails == r \in bad \/ results[r] = "fail"
  <2>2. /\ old \in Row /\ r \in Requests /\ r \in Tags(rs)
        /\ old.cancelled => old.st = "ended"
        /\ old.st = "preparing" <=> r \in Range(prepq)
        /\ old.st = "starting" <=> r \in building \cup Tags(built)
        /\ RowSound(old)
        /\ r \in who => old.st = "active" \/ old.failed
    BY <2>1 DEF Row, Tags
  <2>3. /\ new \in Row /\ new.tag = r /\ new.cancelled = old.cancelled
        /\ r \notin who => new = old
        /\ r \in who =>
              /\ new.held = mode.decode
              /\ new.failed <=> old.failed \/ fails
              /\ new.failed \/ ~emitted \/ results[r] \notin {"eos", "segment"} =>
                   new.st = IF fails /\ old.st = "active" THEN "ended" ELSE old.st
              /\ ~new.failed /\ emitted /\ results[r] = "eos" => new.st = "ended"
              /\ ~new.failed /\ emitted /\ results[r] = "segment" => new.st = "preparing"
    BY <1>15
  <2>4. r \in again <=> r \in who /\ old.st # "preparing" /\ new.st = "preparing"
    BY <1>17
  <2>5. emitted /\ r \in who /\ r \notin Offline /\ results[r] \in {"eos", "segment"} /\ ~old.failed
          => au[r].charged + ranges[r] = au[r].made
    <3>1. \A k \in DOMAIN rs : rs[k].tag = r => k = i
      BY DEF OneEach
    <3>2. ~old.failed => \A k \in DOMAIN rs : rs[k].tag = r => ~rs[k].failed
      BY <3>1
    <3> QED  BY <1>8, <2>2, <3>2
  <2> HIDE DEF old, new, r
  <2>6. /\ old.failed \in BOOLEAN /\ old.cancelled \in BOOLEAN /\ new.failed \in BOOLEAN
        /\ old.st \in {"starting", "preparing", "active", "ended"}
    BY <2>2, <2>3 DEF Row
  <2>7. outcome'[r] = "none" /\ r \notin queue'
    <3>1. \A row \in Range(rows) : outcome[row.tag] = "none" /\ row.tag \notin queue
      BY DEF DriverInv, RowsOK, RowOK
    <3>2. Tags(rows) = {row.tag : row \in Range(rows)}
      BY RowTags DEF DriverInv, RowsTyped
    <3> QED  BY <2>2, <3>1, <3>2
  \* Which rows change their state.
  <2>8. CASE r \notin who
    <3>1. new = old
      BY <2>3, <2>8
    <3>2. /\ new.st = "preparing" <=> r \in Range(prepq')
          /\ new.st = "starting" <=> r \in building' \cup Tags(built')
      BY <1>17, <1>19, <2>2, <2>8, <3>1
    <3>3. gang'[r] = 0 /\ gang[r] = 0 /\ audio'[r].sent = audio[r].sent /\ audio'[r].charged = audio[r].charged
          /\ audio'[r].made = audio[r].made
      BY <1>10, <1>12, <2>2, <2>8
    <3>4. RowSound(x)'
      BY <2>1, <2>2, <2>3, <3>1, <3>3 DEF RowSound, new
    <3>5. x.tag = r /\ x.st = new.st /\ (x.cancelled => x.st = "ended")
      BY <2>1, <2>2, <2>3, <3>1 DEF new
    <3> QED  BY <2>7, <3>2, <3>4, <3>5 DEF RowOK
  <2>9. CASE r \in who
    <3>1. /\ new.st = "starting" <=> old.st = "starting"
          /\ old.st = "preparing" => new.st = "preparing"
          /\ new.cancelled => new.st = "ended"
      BY <2>2, <2>3, <2>6, <2>9
    <3>2. /\ new.st = "preparing" <=> r \in Range(prepq')
          /\ new.st = "starting" <=> r \in building' \cup Tags(built')
      BY <1>19, <2>2, <2>4, <2>9, <3>1
    <3>3. gang'[r] > 0 => new.held
      <4>1. gang'[r] > 0 => r \in Ganged'
        BY <2>2 DEF Ganged
      <4> QED  BY <1>11, <2>3, <2>9, <4>1
    <3>4. ASSUME ~new.failed, ~new.cancelled, r \notin Offline
          PROVE  /\ audio'[r].sent + gang'[r] = audio'[r].charged
                 /\ new.st = "ended" => audio'[r].charged = audio'[r].made
      <4>1. ~old.failed /\ ~fails /\ ~old.cancelled /\ old.st = "active"
        BY <2>2, <2>3, <2>6, <2>9, <3>4
      <4>2. audio[r].sent = audio[r].charged
        <5>1. audio[r].sent + gang[r] = audio[r].charged
          BY <2>2, <3>4, <4>1 DEF RowSound, r
        <5> QED  BY <1>10, <2>2, <5>1
      <4>3. au[r].sent = au[r].charged /\ r \notin bad
        BY <1>7, <2>2, <4>1, <4>2
      <4>4. audio'[r].sent + gang'[r] = audio'[r].charged
        BY <1>11, <2>2, <4>3
      <4>5. new.st = "ended" => emitted /\ results[r] \in {"eos", "segment"}
        BY <2>3, <2>9, <4>1
      <4>6. new.st = "ended" => audio'[r].charged = audio'[r].made
        BY <1>11, <2>2, <2>5, <2>9, <3>4, <4>1, <4>5
      <4> QED  BY <4>4, <4>6
    <3>5. x = new
      BY <2>1 DEF new
    <3>6. RowSound(x)'
      BY <2>3, <3>3, <3>4, <3>5 DEF RowSound
    <3>7. x.tag = r /\ (x.cancelled => x.st = "ended")
      BY <2>3, <3>1, <3>5
    <3> QED  BY <2>7, <3>2, <3>5, <3>6, <3>7 DEF RowOK
  <2> QED  BY <2>8, <2>9
<1>21. RequestsOK'
  <2> SUFFICES ASSUME NEW r \in Requests PROVE RequestOK(r)'
    BY DEF RequestsOK
  <2>1. RequestOK(r)
    BY <1>5 DEF RequestsOK
  <2>2. audio'[r].sent + gang'[r] <= audio'[r].charged /\ audio'[r].charged <= audio'[r].made
    BY <1>8, <1>11
  <2>3. r \in Tags(rows') <=> r \in Tags(rows)
    BY <1>14, <1>16
  <2>4. outcome[r] = "OK" \/ r \notin Tags(rows) => r \notin who
    <3>1. \A row \in Range(rows) : outcome[row.tag] = "none"
      BY DEF DriverInv, RowsOK, RowOK
    <3>2. Tags(rows) = {row.tag : row \in Range(rows)}
      BY RowTags DEF DriverInv, RowsTyped
    <3> QED  BY <3>1, <3>2
  <2> QED  BY <1>12, <2>1, <2>2, <2>3, <2>4 DEF RequestOK
<1>22. DeviceTyped'
  <2>1. IsFiniteSet({}) /\ Cardinality({}) = 0
    BY FS_EmptySet
  <2>2. Cardinality(Ganged') <= mode.batch
    <3>1. IsFiniteSet(Ganged') /\ Cardinality(Ganged') <= Cardinality(who)
      BY <1>13, FS_Subset
    <3>2. Cardinality(Ganged') \in Nat /\ Cardinality(who) \in Nat
      BY <3>1, FS_CardinalityType
    <3> QED  BY <1>6, <3>1, <3>2
  <2> QED  BY <1>6, <1>11, <2>1, <2>2 DEF DeviceTyped
<1>23. RowsTyped' /\ AudioTyped'
  BY <1>5, <1>11, <1>14, <1>16, <1>19 DEF DriverInv, RowsTyped, AudioTyped, Sound
<1>24. ListsOK'
  <2>1. Tags(built') = Tags(built) /\ Tags(rows') = Tags(rows) /\ OneEach(rows') /\ OneEach(built')
    BY <1>5, <1>14, <1>16
  <2>2. Range(prepq') \cup building \cup Tags(built) \cup Ganged' \subseteq Tags(rows)
    BY <1>5, <1>13, <1>17, <1>19
  <2> QED  BY <1>5, <1>19, <2>1, <2>2 DEF ListsOK
<1>25. PlaceOK'
  <2>1. rows' # <<>>
    <3>1. rs # <<>>
      BY SeqDomain DEF DriverInv, RowsTyped
    <3> QED  BY <1>14, <1>16, <3>1
  <2> QED  BY <1>6, <1>11, <2>1 DEF PlaceOK
<1> QED  BY <1>20, <1>21, <1>22, <1>23, <1>24, <1>25 DEF DriverInv

\* A row that rides along fails and nothing else.
LEMMA RideAlongFacts ==
  ASSUME NEW rs \in Seq(Row)
  PROVE  LET ss == RideAlong(rs) IN
         /\ DOMAIN ss = DOMAIN rs /\ ss = [i \in DOMAIN rs |-> ss[i]]
         /\ \A i \in DOMAIN rs :
              /\ ss[i] \in Row /\ ss[i].tag = rs[i].tag /\ ss[i].st = rs[i].st
              /\ ss[i].cancelled = rs[i].cancelled /\ ss[i].held = rs[i].held
              /\ rs[i].failed => ss[i].failed
              /\ rs[i].tag \notin ahead \/ rs[i].st = "active" => ss[i] = rs[i]
              /\ rs[i].tag \in ahead => rs[i].st = "active" \/ ss[i].failed
<1> DEFINE New(i) == IF rs[i].tag \in ahead /\ rs[i].st # "active"
                     THEN [rs[i] EXCEPT !.failed = TRUE] ELSE rs[i]
<1>1. RideAlong(rs) = [i \in DOMAIN rs |-> New(i)]
  BY DEF RideAlong
<1>2. ASSUME NEW i \in DOMAIN rs
      PROVE  /\ New(i) \in Row /\ New(i).tag = rs[i].tag /\ New(i).st = rs[i].st
             /\ New(i).cancelled = rs[i].cancelled /\ New(i).held = rs[i].held
             /\ rs[i].failed => New(i).failed
             /\ rs[i].tag \notin ahead \/ rs[i].st = "active" => New(i) = rs[i]
             /\ rs[i].tag \in ahead => rs[i].st = "active" \/ New(i).failed
  <2> DEFINE row == rs[i]
             failing == [row EXCEPT !.failed = TRUE]
  <2>1. row \in Row
    BY SeqDomain
  <2>2. New(i) = IF row.tag \in ahead /\ row.st # "active" THEN failing ELSE row
    OBVIOUS
  <2>3. /\ failing \in Row /\ failing.tag = row.tag /\ failing.st = row.st /\ failing.failed = TRUE
        /\ failing.cancelled = row.cancelled /\ failing.held = row.held
    <3> HIDE DEF row
    <3> QED  BY <2>1 DEF Row
  <2> HIDE DEF New, failing
  <2> QED  BY <2>1, <2>2, <2>3
<1> HIDE DEF New
<1> QED  BY <1>1, <1>2

LEMMA StepKeepsInv ==
  ASSUME DriverInv, Step
  PROVE  DriverInv'
<1>1. /\ at = "step" /\ ahead' = {} /\ early' = mode.overlap
      /\ at' = IF mode.overlap /\ ~mode.decode THEN "prefill" ELSE "retire"
      /\ UNCHANGED <<mode, running, queue, admits, building, built, outcome>>
  BY Zenon DEF Step
<1>2. \/ ahead # {} /\ StepLive(RideAlong(rows), ahead) /\ UNCHANGED rr
      \/ StepLive(rows, Turn(rows, rr).who) /\ rr' = Turn(rows, rr).next
  BY Zenon DEF Step
<1>3. /\ mode \in Modes /\ rows \in Seq(Row) /\ OneEach(rows) /\ rr \in 0..mode.capacity
      /\ Len(rows) <= mode.capacity
      /\ ahead \subseteq Tags(rows) /\ IsFiniteSet(ahead) /\ Cardinality(ahead) <= mode.batch
  BY DEF DriverInv, LoopTyped, RowsTyped, ListsOK, DeviceTyped
<1>4. mode.capacity \in Nat /\ mode.batch \in Nat /\ mode.overlap \in BOOLEAN /\ mode.decode \in BOOLEAN
  BY <1>3, ModeFacts
<1>5. rows # <<>> /\ Ganged = {}
  BY <1>1 DEF DriverInv, PlaceOK
<1>6. mode.decode => at' = "retire"
  BY <1>1
<1>7. at' \in Places
  BY <1>1 DEF Places
<1>8. \A row \in Range(rows) :
        /\ row.cancelled => row.st = "ended"
        /\ row.st = "preparing" <=> row.tag \in Range(prepq)
        /\ row.st = "starting" <=> row.tag \in building \cup Tags(built)
        /\ RowSound(row)
  BY DEF DriverInv, RowsOK, RowOK
<1>9. CASE ahead # {} /\ StepLive(RideAlong(rows), ahead) /\ UNCHANGED rr
  <2> DEFINE rs == RideAlong(rows)
  <2>1. /\ DOMAIN rs = DOMAIN rows /\ rs = [i \in DOMAIN rows |-> rs[i]]
        /\ \A i \in DOMAIN rows :
              /\ rs[i] \in Row /\ rs[i].tag = rows[i].tag /\ rs[i].st = rows[i].st
              /\ rs[i].cancelled = rows[i].cancelled /\ rs[i].held = rows[i].held
              /\ rows[i].failed => rs[i].failed
              /\ rows[i].tag \in ahead => rows[i].st = "active" \/ rs[i].failed
    BY <1>3, RideAlongFacts
  <2>2. StepLive(rs, ahead)
    BY <1>9
  <2> HIDE DEF rs
  <2>3. /\ rs \in Seq(Row) /\ OneEach(rs) /\ Tags(rs) = Tags(rows) /\ Len(rs) = Len(rows)
        /\ \A new \in Range(rs) : \E i \in DOMAIN rows : rows[i] \in Range(rows) /\ rows[i] \in Row /\ new = rs[i]
    BY <1>3, <2>1, InPlace
  <2>4. \A row \in Range(rs) :
          /\ row.cancelled => row.st = "ended"
          /\ row.st = "preparing" <=> row.tag \in Range(prepq)
          /\ row.st = "starting" <=> row.tag \in building \cup Tags(built)
          /\ RowSound(row)
    <3> SUFFICES ASSUME NEW row \in Range(rs)
                 PROVE  /\ row.cancelled => row.st = "ended"
                        /\ row.st = "preparing" <=> row.tag \in Range(prepq)
                        /\ row.st = "starting" <=> row.tag \in building \cup Tags(built)
                        /\ RowSound(row)
      OBVIOUS
    <3>1. PICK i \in DOMAIN rows : rows[i] \in Range(rows) /\ rows[i] \in Row /\ row = rs[i]
      BY <2>3
    <3> DEFINE old == rows[i]
    <3>2. /\ row.tag = old.tag /\ row.st = old.st /\ row.cancelled = old.cancelled /\ row.held = old.held
          /\ old.failed => row.failed
      BY <2>1, <3>1
    <3>3. /\ old.cancelled => old.st = "ended"
          /\ old.st = "preparing" <=> old.tag \in Range(prepq)
          /\ old.st = "starting" <=> old.tag \in building \cup Tags(built)
          /\ RowSound(old)
      BY <1>8, <3>1
    <3> HIDE DEF old
    <3>4. RowSound(row)
      BY <3>2, <3>3 DEF RowSound
    <3> QED  BY <3>2, <3>3, <3>4
  <2>5. \A row \in Range(rs) : row.tag \in ahead => row.st = "active" \/ row.failed
    BY <2>1, <2>3
  <2>6. LoopTyped'
    BY <1>1, <1>4, <1>7, <1>9 DEF DriverInv, LoopTyped
  <2> QED  BY <1>1, <1>3, <1>5, <1>6, <2>2, <2>3, <2>4, <2>5, <2>6, StepLiveKeepsInv
<1>10. CASE StepLive(rows, Turn(rows, rr).who) /\ rr' = Turn(rows, rr).next
  <2> DEFINE turn == Turn(rows, rr)
  <2>1. /\ turn.who \subseteq {rows[i].tag : i \in {k \in DOMAIN rows : rows[k].st = "active"}}
        /\ IsFiniteSet(turn.who) /\ Cardinality(turn.who) <= mode.batch
        /\ turn.next \in 0..Len(rows) \cup {rr}
    <3>1. rr \in Nat
      BY <1>3, <1>4
    <3> QED  BY <1>3, <1>4, <3>1, TurnFacts
  <2>2. StepLive(rows, turn.who) /\ rr' = turn.next
    BY <1>10
  <2> HIDE DEF turn
  <2>3. turn.who \subseteq Tags(rows)
    BY <2>1 DEF Tags
  <2>4. \A row \in Range(rows) : row.tag \in turn.who => row.st = "active" \/ row.failed
    BY <1>3, <2>1 DEF OneEach, Range
  <2>5. rr' \in 0..mode.capacity
    <3>1. Len(rows) \in Nat
      BY <1>3, SeqDomain
    <3> QED  BY <1>3, <1>4, <2>1, <2>2, <3>1
  <2>6. LoopTyped'
    BY <1>1, <1>4, <1>7, <2>5 DEF DriverInv, LoopTyped
  <2>7. Tags(rows) = Tags(rows) /\ Len(rows) = Len(rows)
    OBVIOUS
  <2> QED  BY <1>1, <1>3, <1>5, <1>6, <1>8, <2>1, <2>2, <2>3, <2>4, <2>6, <2>7, StepLiveKeepsInv
<1> QED  BY <1>2, <1>9, <1>10

LEMMA NextKeepsInv ==
  ASSUME DriverInv, [Next]_vars
  PROVE  DriverInv'
<1>1. CASE Driver
  <2>1. ASSUME NEW r \in Requests, Admit(r) PROVE DriverInv'
    BY <2>1, AdmitKeepsInv
  <2> QED  BY <1>1, <2>1, AdmitDoneKeepsInv, AttachKeepsInv, CancelKeepsInv, CollectKeepsInv,
              PrefillKeepsInv, LateDoneKeepsInv, StepKeepsInv, StepNobodyKeepsInv, LaunchKeepsInv,
              RetireKeepsInv DEF Driver
<1>2. CASE Helper
  BY <1>2, HelperBuildsKeepsInv DEF Helper
<1>3. CASE Stop
  BY <1>3, StopKeepsInv
<1>4. CASE \E r \in Requests : Offer(r)
  BY <1>4, OfferKeepsInv
<1>5. CASE UNCHANGED vars
  <2>1. ahead' \subseteq Tags(rows) /\ IsFiniteSet(ahead') /\ Cardinality(ahead') <= mode.batch
    BY <1>5 DEF vars, DriverInv, DeviceTyped, ListsOK
  <2>2. LoopTyped'
    BY <1>5 DEF vars, DriverInv, LoopTyped
  <2>3. PlaceOK'
    BY <1>5 DEF vars, DriverInv, PlaceOK, Ganged
  <2> QED  BY <1>5, <2>1, <2>2, <2>3, MoveKeepsInv DEF vars
<1> QED  BY <1>1, <1>2, <1>3, <1>4, <1>5 DEF Next

-----------------------------------------------------------------------------
(* The invariants of the specification.                                    *)

\* The state of the driver stays inside its inductive invariant: every row is in
\* the list its state says, once, and keeps its place while anything is in flight.
THEOREM DriverInvariant == Spec => []DriverInv
<1>1. Init => DriverInv
  BY InitEstablishesInv
<1>2. DriverInv /\ [Next]_vars => DriverInv'
  BY NextKeepsInv
<1> QED  BY <1>1, <1>2, PTL DEF Spec

\* What the device steps or decodes and what a helper builds belongs to exactly
\* one resident row, not reported yet, for any number of slots and requests:
\* slot_retire() never frees a context that is in flight (src/inference.c).
THEOREM DeviceWorksOnResidents == Spec => []InFlightIsResident
<1>1. DriverInv => InFlightIsResident
  BY InvImpliesResident
<1> QED  BY <1>1, DriverInvariant, PTL

\* A healthy stream is sent, or has in flight, exactly what it was charged for,
\* and a stream reported as served was sent every frame it made, whatever the
\* driver defers, gangs or cuts short (stream_gang(), dec_collect()).
THEOREM SoundStaysWhole == Spec => []SoundIsWhole
<1>1. DriverInv => SoundIsWhole
  BY InvImpliesWhole
<1> QED  BY <1>1, DriverInvariant, PTL

-----------------------------------------------------------------------------
(* The driver keeps its promise: every step maps to one of ServePromise.   *)

\* Whose clients were found gone while they had a row.
Dropped(rs) == {rs[i].tag : i \in {k \in DOMAIN rs : rs[k].cancelled}}
\* The state of a request as the sink sees it, by what is known of it.
StateIs(r) ==
  /\ outcome[r] # "none" => StateOf(r) = outcome[r]
  /\ outcome[r] = "none" /\ r \in Dropped(rows) => StateOf(r) = "dropped"
  /\ outcome[r] = "none" /\ r \in Tags(rows) \ Dropped(rows) => StateOf(r) = "taken"
  /\ outcome[r] = "none" /\ r \notin Tags(rows) /\ r \in queue => StateOf(r) = "offered"
  /\ outcome[r] = "none" /\ r \notin Tags(rows) /\ r \notin queue => StateOf(r) = "unseen"

LEMMA StateCases ==
  ASSUME NEW r \in Requests
  PROVE  StateIs(r) /\ StateIs(r)'
<1>1. StateIs(r)
  BY DEF StateIs, StateOf, Tags, Dropped
<1>2. StateIs(r)'
  BY DEF StateIs, StateOf, Tags, Dropped
<1> QED  BY <1>1, <1>2

LEMMA DroppedHaveRows ==
  ASSUME NEW rs, NEW ss
  PROVE  /\ Dropped(rs) \subseteq Tags(rs)
         /\ DOMAIN ss = DOMAIN rs /\ (\A i \in DOMAIN rs : ss[i].tag = rs[i].tag) => Tags(ss) = Tags(rs)
         /\ DOMAIN ss = DOMAIN rs /\ (\A i \in DOMAIN rs : ss[i].tag = rs[i].tag /\ (rs[i].cancelled => ss[i].cancelled))
              => Dropped(rs) \subseteq Dropped(ss)
         /\ DOMAIN ss = DOMAIN rs /\ (\A i \in DOMAIN rs : ss[i].tag = rs[i].tag /\ ss[i].cancelled = rs[i].cancelled)
              => Dropped(rs) = Dropped(ss)
BY DEF Dropped, Tags

\* What a request whose sound moves must be: held, and not found gone.
Heard(r) ==
  audio'[r].sent # audio[r].sent => r \in Tags(rows) \ Dropped(rows) /\ audio'[r].sent > audio[r].sent

LEMMA HeardAsPromised ==
  ASSUME DriverInv, DriverInv', \A r \in Requests : Heard(r)
  PROVE  Promise!Sounds
<1> DEFINE heard == [r \in Requests |-> audio[r].sent]
<1>1. \A r \in Requests : audio'[r].sent \in Nat
  <2>1. audio' \in [Requests -> Sound'] /\ mode' \in Modes
    BY DEF DriverInv, AudioTyped, LoopTyped
  <2>2. mode'.frames \in Nat
    BY <2>1, ServeAssumption
  <2>3. \A a \in Sound' : a.sent \in Nat
    BY <2>2 DEF Sound
  <2> QED  BY <2>1, <2>3
<1>2. ASSUME NEW r \in Requests, audio'[r].sent # audio[r].sent
      PROVE  StateOf(r) = "taken" /\ audio'[r].sent > audio[r].sent
  <2>1. r \in Tags(rows) \ Dropped(rows) /\ audio'[r].sent > audio[r].sent
    BY <1>2 DEF Heard
  <2>2. outcome[r] = "none"
    <3>1. PICK i \in DOMAIN rows : rows[i].tag = r
      BY <2>1 DEF Tags
    <3> QED  BY <3>1 DEF DriverInv, RowsOK, RowOK, Range
  <2> QED  BY <2>1, <2>2, StateCases DEF StateIs
<1>3. heard' \in [Requests -> Nat]
  BY <1>1
<1> QED  BY <1>2, <1>3 DEF Promise!Sounds

\* A step that takes no request reports rows it had, loses none unreported, and
\* forgets no client that was found gone.
LEMMA SettlesPromise ==
  ASSUME DriverInv, DriverInv', queue' = queue, \A r \in Requests : Heard(r),
         \A r \in Requests :
           /\ \/ outcome'[r] = outcome[r]
              \/ r \in Tags(rows) \ Dropped(rows) /\ outcome'[r] \in {"OK", "FAILED"}
              \/ r \in Dropped(rows) /\ outcome'[r] = "CANCELLED"
           /\ outcome'[r] = "none" => (r \in Tags(rows') <=> r \in Tags(rows))
           /\ outcome'[r] = "none" /\ r \in Dropped(rows) => r \in Dropped(rows')
  PROVE  Promise!Next
<1>1. ASSUME NEW r \in Requests PROVE StateOf(r)' \in Promise!Fates(StateOf(r))
  <2>1. /\ StateIs(r) /\ StateIs(r)'
        /\ Dropped(rows) \subseteq Tags(rows) /\ Dropped(rows') \subseteq Tags(rows')
    BY StateCases, DroppedHaveRows
  <2>2. r \in Tags(rows) => outcome[r] = "none"
    BY DEF DriverInv, RowsOK, RowOK, Range, Tags
  <2>3. \/ StateOf(r)' = StateOf(r)
        \/ StateOf(r) = "taken" /\ StateOf(r)' \in {"dropped", "OK", "FAILED"}
        \/ StateOf(r) = "dropped" /\ StateOf(r)' = "CANCELLED"
    <3>1. CASE outcome'[r] # outcome[r]
      BY <2>1, <2>2, <3>1 DEF StateIs
    <3>2. CASE outcome'[r] = outcome[r]
      BY <2>1, <3>2 DEF StateIs
    <3> QED  BY <3>1, <3>2
  <2> QED  BY <2>3, Zenon DEF Promise!Fates
<1>2. Promise!Sounds
  BY HeardAsPromised
<1> DEFINE state == [r \in Requests |-> StateOf(r)]
<1>3. DOMAIN state' = Requests /\ \A r \in Requests : state'[r] \in Promise!Fates(state[r])
  BY <1>1
<1> QED  BY <1>2, <1>3 DEF Promise!Next, Promise!Settle

\* A step that reports nobody and moves no sound.
LEMMA QuietPromise ==
  ASSUME DriverInv, DriverInv', UNCHANGED <<queue, audio, outcome>>,
         Tags(rows') = Tags(rows), Dropped(rows) \subseteq Dropped(rows')
  PROVE  Promise!Next
<1>1. \A r \in Requests : Heard(r)
  BY DEF Heard
<1> QED  BY <1>1, SettlesPromise

LEMMA AttachPromise ==
  ASSUME DriverInv, DriverInv', Attach
  PROVE  Promise!Next
<1>1. PICK good : rows' = Attached(good)
  BY Zenon DEF Attach
<1>2. UNCHANGED <<queue, audio, outcome>>
  BY DEF Attach
<1> DEFINE New(i) == CASE rows[i].tag \in good -> [rows[i] EXCEPT !.st = "preparing"]
                       [] rows[i].tag \in Tags(built) \ good -> FailNow(rows[i])
                       [] rows[i].tag \notin Tags(built) -> rows[i]
<1>3. rows' = [i \in DOMAIN rows |-> New(i)]
  BY <1>1, Zenon DEF Attached
<1>4. ASSUME NEW i \in DOMAIN rows PROVE New(i).tag = rows[i].tag /\ New(i).cancelled = rows[i].cancelled
  <2> DEFINE row == rows[i]
  <2>1. row \in Row
    BY SeqDomain DEF DriverInv, RowsTyped
  <2>2. row.tag \in good \/ row.tag \in Tags(built) \ good \/ row.tag \notin Tags(built)
    OBVIOUS
  <2> HIDE DEF row
  <2>3. [row EXCEPT !.st = "preparing"].tag = row.tag /\ [row EXCEPT !.st = "preparing"].cancelled = row.cancelled
    BY <2>1 DEF Row
  <2>4. FailNow(row).tag = row.tag /\ FailNow(row).cancelled = row.cancelled
    BY <2>1, RowEdits
  <2>5. \/ New(i) = [row EXCEPT !.st = "preparing"]
        \/ New(i) = FailNow(row)
        \/ New(i) = row
    BY <2>2 DEF row
  <2> HIDE DEF New
  <2>6. New(i).tag = row.tag /\ New(i).cancelled = row.cancelled
    BY <2>3, <2>4, <2>5
  <2> QED  BY <2>6 DEF row
<1> HIDE DEF New
<1>5. Tags(rows') = Tags(rows) /\ Dropped(rows) = Dropped(rows')
  BY <1>3, <1>4, DroppedHaveRows
<1> QED  BY <1>2, <1>5, QuietPromise

LEMMA CancelPromise ==
  ASSUME DriverInv, DriverInv', Cancel
  PROVE  Promise!Next
<1>1. PICK gone : rows' = [i \in DOMAIN rows |->
                             IF rows[i].tag \in gone
                             THEN [rows[i] EXCEPT !.cancelled = TRUE, !.st = "ended"] ELSE rows[i]]
  BY Zenon DEF Cancel
<1>2. UNCHANGED <<queue, audio, outcome>>
  BY DEF Cancel
<1> DEFINE New(i) == IF rows[i].tag \in gone
                     THEN [rows[i] EXCEPT !.cancelled = TRUE, !.st = "ended"] ELSE rows[i]
<1>3. ASSUME NEW i \in DOMAIN rows PROVE New(i).tag = rows[i].tag /\ (rows[i].cancelled => New(i).cancelled)
  <2> DEFINE row == rows[i]
             ending == [row EXCEPT !.cancelled = TRUE, !.st = "ended"]
  <2>1. row \in Row
    BY SeqDomain DEF DriverInv, RowsTyped
  <2>2. New(i) = IF row.tag \in gone THEN ending ELSE row
    OBVIOUS
  <2> HIDE DEF New, row
  <2>3. ending.tag = row.tag /\ ending.cancelled = TRUE
    BY <2>1 DEF Row
  <2> HIDE DEF ending
  <2>4. New(i).tag = row.tag /\ (row.cancelled => New(i).cancelled)
    BY <2>2, <2>3
  <2> QED  BY <2>4 DEF row
<1>4. rows' = [i \in DOMAIN rows |-> New(i)]
  BY <1>1
<1> HIDE DEF New
<1>5. Tags(rows') = Tags(rows) /\ Dropped(rows) \subseteq Dropped(rows')
  BY <1>3, <1>4, DroppedHaveRows
<1> QED  BY <1>2, <1>5, QuietPromise

LEMMA PrefilledPromise ==
  ASSUME DriverInv, DriverInv', NEW done, NEW bad, Prefilled(done, bad), UNCHANGED <<queue, audio, outcome>>
  PROVE  Promise!Next
<1> DEFINE New(i) == CASE rows[i].tag \in done -> [rows[i] EXCEPT !.st = "active", !.spent = FALSE]
                       [] rows[i].tag \in bad -> FailNow(rows[i])
                       [] rows[i].tag \notin done \cup bad -> rows[i]
<1>1. rows' = [i \in DOMAIN rows |-> New(i)]
  BY Zenon DEF Prefilled
<1>2. ASSUME NEW i \in DOMAIN rows PROVE New(i).tag = rows[i].tag /\ New(i).cancelled = rows[i].cancelled
  <2> DEFINE row == rows[i]
             starts == [row EXCEPT !.st = "active", !.spent = FALSE]
  <2>1. row \in Row
    BY SeqDomain DEF DriverInv, RowsTyped
  <2>2. row.tag \in done \/ row.tag \in bad \/ row.tag \notin done \cup bad
    OBVIOUS
  <2>3. New(i) = starts \/ New(i) = FailNow(row) \/ New(i) = row
    BY <2>2
  <2> HIDE DEF New, row
  <2>4. starts.tag = row.tag /\ starts.cancelled = row.cancelled
    BY <2>1 DEF Row
  <2>5. FailNow(row).tag = row.tag /\ FailNow(row).cancelled = row.cancelled
    BY <2>1, RowEdits
  <2> HIDE DEF starts
  <2>6. New(i).tag = row.tag /\ New(i).cancelled = row.cancelled
    BY <2>3, <2>4, <2>5
  <2> QED  BY <2>6 DEF row
<1> HIDE DEF New
<1>3. Tags(rows') = Tags(rows) /\ Dropped(rows) = Dropped(rows')
  BY <1>1, <1>2, DroppedHaveRows
<1> QED  BY <1>3, QuietPromise

\* What a decode that is collected delivers.
LEMMA DeliveredAsPromised ==
  ASSUME DriverInv, NEW rs \in Seq(Row), OneEach(rs), Dropped(rows) \subseteq Dropped(rs),
         NEW bad, audio' = Delivered(rs, audio, bad)
  PROVE  \A r \in Requests : Heard(r)
<1> SUFFICES ASSUME NEW r \in Requests, audio'[r].sent # audio[r].sent
             PROVE  r \in Tags(rows) \ Dropped(rows) /\ audio'[r].sent > audio[r].sent
  BY DEF Heard
<1>1. mode \in Modes /\ DeviceTyped /\ AudioTyped /\ RequestsOK /\ Ganged \subseteq Tags(rows)
  BY DEF DriverInv, LoopTyped, ListsOK
<1>2. r \in Ganged /\ Alive(rs, r) /\ audio'[r].sent = audio[r].sent + gang[r]
  BY <1>1, DeliveredFacts
<1>3. r \notin Dropped(rs)
  BY <1>2 DEF Alive, Dropped, OneEach
<1>4. audio[r].sent \in Nat /\ gang[r] \in Nat
  <2>1. audio[r] \in Sound /\ gang[r] \in 0..mode.frames /\ mode.frames \in Nat
    BY <1>1, ModeFacts DEF AudioTyped, DeviceTyped
  <2> QED  BY <2>1 DEF Sound
<1>5. gang[r] > 0
  BY <1>2 DEF Ganged
<1> QED  BY <1>1, <1>2, <1>3, <1>4, <1>5

LEMMA FailAllDropsNone ==
  ASSUME NEW rs \in Seq(Row), NEW bad
  PROVE  Tags(FailAll(rs, bad)) = Tags(rs) /\ Dropped(FailAll(rs, bad)) = Dropped(rs)
<1>1. ASSUME NEW i \in DOMAIN rs
      PROVE  FailAll(rs, bad)[i].tag = rs[i].tag /\ FailAll(rs, bad)[i].cancelled = rs[i].cancelled
  <2>1. rs[i] \in Row
    BY SeqDomain
  <2>2. FailAll(rs, bad)[i] = IF rs[i].tag \in bad THEN Fail(rs[i]) ELSE rs[i]
    BY FailAllFacts
  <2> QED  BY <2>1, <2>2, RowEdits
<1>2. DOMAIN FailAll(rs, bad) = DOMAIN rs
  BY DEF FailAll
<1> QED  BY <1>1, <1>2, DroppedHaveRows

LEMMA PolledPromise ==
  ASSUME DriverInv, NEW rs \in Seq(Row), OneEach(rs), Dropped(rs) = Dropped(rows), PolledInto(rs)
  PROVE  Tags(rows') = Tags(rs) /\ Dropped(rows') = Dropped(rs) /\ \A r \in Requests : Heard(r)
<1>1. CASE rows' = rs /\ UNCHANGED <<gang, audio>>
  BY <1>1 DEF Heard
<1>2. CASE \E bad \in SUBSET Ganged : rows' = FailAll(rs, bad) /\ audio' = Delivered(rs, audio, bad)
  <2>1. PICK bad \in SUBSET Ganged : rows' = FailAll(rs, bad) /\ audio' = Delivered(rs, audio, bad)
    BY <1>2
  <2> QED  BY <2>1, DeliveredAsPromised, FailAllDropsNone
<1> QED  BY <1>1, <1>2 DEF PolledInto

\* A request is taken and given a row, or reported at once; no other changes.
LEMMA TakesPromise ==
  ASSUME DriverInv, DriverInv', NEW r \in Requests, r \in queue, queue' = queue \ {r},
         \A q \in Requests : Heard(q),
         \/ outcome' = outcome /\ Tags(rows') = Tags(rows) \cup {r}
         \/ outcome' = Reported({r}, [q \in {r} |-> "FAILED"]) /\ Tags(rows') = Tags(rows),
         Dropped(rows') = Dropped(rows)
  PROVE  Promise!Next
<1> DEFINE state == [q \in Requests |-> StateOf(q)]
<1>1. outcome[r] = "none" /\ r \notin Tags(rows)
  <2>1. RequestOK(r)
    BY DEF DriverInv, RequestsOK
  <2>2. \A i \in DOMAIN rows : rows[i].tag # r
    BY DEF DriverInv, RowsOK, RowOK, Range
  <2> QED  BY <2>1, <2>2 DEF RequestOK, Tags
<1>2. Dropped(rows) \subseteq Tags(rows)
  BY DroppedHaveRows
<1>3. StateOf(r) = "offered" /\ StateOf(r)' \in {"taken", "FAILED"}
  <2>1. StateIs(r) /\ StateIs(r)'
    BY StateCases
  <2>2. outcome'[r] \in {"none", "FAILED"} /\ (outcome'[r] = "none" => r \in Tags(rows'))
    BY <1>1 DEF Reported
  <2> QED  BY <1>1, <1>2, <2>1, <2>2 DEF StateIs
<1>4. ASSUME NEW q \in Requests \ {r} PROVE StateOf(q)' = StateOf(q)
  <2>1. StateIs(q) /\ StateIs(q)'
    BY StateCases
  <2>2. outcome'[q] = outcome[q]
    BY <1>4 DEF Reported
  <2> QED  BY <1>2, <1>4, <2>1, <2>2 DEF StateIs
<1>5. state' = [state EXCEPT ![r] = StateOf(r)']
  <2>1. ASSUME NEW q \in Requests PROVE state'[q] = [state EXCEPT ![r] = StateOf(r)'][q]
    BY <1>4
  <2>2. DOMAIN state' = Requests /\ DOMAIN state = Requests
    OBVIOUS
  <2>3. state' = [q \in Requests |-> state'[q]]
    OBVIOUS
  <2>4. [state EXCEPT ![r] = StateOf(r)'] = [q \in Requests |-> [state EXCEPT ![r] = StateOf(r)'][q]]
    OBVIOUS
  <2> HIDE DEF state
  <2> QED  BY <2>1, <2>3, <2>4
<1>6. Promise!Sounds
  BY HeardAsPromised
<1>7. state[r] = "offered"
  BY <1>3
<1>8. \E s \in {"taken", "FAILED"} : state' = [state EXCEPT ![r] = s]
  <2> HIDE DEF state
  <2> QED  BY <1>3, <1>5
<1>9. Promise!Take(r)
  BY <1>6, <1>7, <1>8, Zenon DEF Promise!Take
<1> QED  BY <1>9 DEF Promise!Next

LEMMA AdmitPromise ==
  ASSUME DriverInv, DriverInv', NEW r \in Requests, Admit(r)
  PROVE  Promise!Next
<1>1. r \in queue /\ queue' = queue \ {r}
  BY DEF Admit
<1>2. \/ outcome' = Reported({r}, [q \in {r} |-> "FAILED"]) /\ PolledInto(rows)
      \/ \E st \in {"starting", "preparing"} : PolledInto(Append(rows, NewRow(r, st))) /\ outcome' = outcome
  BY DEF Admit
<1>3. rows \in Seq(Row) /\ OneEach(rows)
  BY DEF DriverInv, RowsTyped, ListsOK
<1>4. r \notin Tags(rows)
  BY <1>1 DEF DriverInv, RowsOK, RowOK, Range, Tags
<1>5. CASE outcome' = Reported({r}, [q \in {r} |-> "FAILED"]) /\ PolledInto(rows)
  <2>1. Tags(rows') = Tags(rows) /\ Dropped(rows') = Dropped(rows) /\ \A q \in Requests : Heard(q)
    BY <1>3, <1>5, PolledPromise
  <2> QED  BY <1>1, <1>5, <2>1, TakesPromise
<1>6. ASSUME NEW st \in {"starting", "preparing"}, PolledInto(Append(rows, NewRow(r, st))), outcome' = outcome
      PROVE  Promise!Next
  <2> DEFINE new == NewRow(r, st)
             rs == Append(rows, new)
  <2>1. new \in Row /\ new.tag = r /\ new.cancelled = FALSE
    BY DEF NewRow, Row
  <2> HIDE DEF new
  <2>2. rs \in Seq(Row) /\ Tags(rs) = Tags(rows) \cup {r} /\ OneEach(rs)
    BY <1>3, <1>4, <2>1, AppendEach
  <2>3. Dropped(rs) = Dropped(rows)
    <3> DEFINE n == Len(rows)
    <3>1. n \in Nat /\ DOMAIN rows = 1..n /\ DOMAIN rs = 1..(n + 1) /\ rs[n + 1] = new
          /\ \A i \in 1..n : rs[i] = rows[i]
      BY <1>3, <2>1, AppendProperties, SeqDomain
    <3> HIDE DEF n, rs
    <3>2. {k \in DOMAIN rs : rs[k].cancelled} = {k \in DOMAIN rows : rows[k].cancelled}
      BY <2>1, <3>1
    <3> QED  BY <3>1, <3>2 DEF Dropped
  <2>4. PolledInto(rs)
    BY <1>6 DEF new
  <2> HIDE DEF rs
  <2>5. Tags(rows') = Tags(rs) /\ Dropped(rows') = Dropped(rs) /\ \A q \in Requests : Heard(q)
    BY <2>2, <2>3, <2>4, PolledPromise
  <2> QED  BY <1>1, <1>6, <2>2, <2>3, <2>5, TakesPromise
<1> QED  BY <1>2, <1>5, <1>6

LEMMA OfferPromise ==
  ASSUME DriverInv, DriverInv', NEW r \in Requests, Offer(r)
  PROVE  Promise!Next
<1> DEFINE state == [q \in Requests |-> StateOf(q)]
<1>1. /\ outcome[r] = "none" /\ r \notin queue /\ r \notin Tags(rows)
      /\ queue' = queue \cup {r}
      /\ UNCHANGED <<rows, audio, outcome>>
  BY DEF Offer
<1>2. Dropped(rows) \subseteq Tags(rows)
  BY DroppedHaveRows
<1>3. StateOf(r) = "unseen" /\ StateOf(r)' = "offered"
  BY <1>1, <1>2, StateCases DEF StateIs
<1>4. ASSUME NEW q \in Requests \ {r} PROVE StateOf(q)' = StateOf(q)
  <2>1. q \in queue' <=> q \in queue
    BY <1>1
  <2> QED  BY <1>1, <1>2, <2>1, StateCases DEF StateIs
<1>5. state' = [state EXCEPT ![r] = "offered"]
  BY <1>3, <1>4
<1>6. state[r] = "unseen"
  BY <1>3
<1>7. Promise!Offer(r)
  BY <1>1, <1>5, <1>6 DEF Promise!Offer
<1> QED  BY <1>7 DEF Promise!Next

\* A pass of retirements reports the rows that go, each by whether its client was
\* found gone.
LEMMA RetiredPromise ==
  ASSUME DriverInv, DriverInv', queue' = queue, \A r \in Requests : Heard(r),
         NEW rs \in Seq(Row), OneEach(rs), Tags(rs) = Tags(rows), Dropped(rs) = Dropped(rows),
         NEW au \in [Requests -> Sound], RetirePass(rs, au)
  PROVE  Promise!Next
<1>1. mode \in Modes /\ outcome \in [Requests -> {"none", "OK", "FAILED", "CANCELLED", "twice"}]
  BY DEF DriverInv, LoopTyped, AudioTyped
<1>2. \A i \in DOMAIN rows : outcome[rows[i].tag] = "none"
  BY DEF DriverInv, RowsOK, RowOK, Range
<1>3. \A r \in Tags(rs) : outcome[r] = "none"
  BY <1>2 DEF Tags
<1>4. \A row \in Range(rs) : outcome[row.tag] = "none"
  BY <1>3 DEF Tags, Range
<1> DEFINE gone == Retirable(rs)
<1>5. /\ Range(rows') = {row \in Range(rs) : row.tag \notin gone}
      /\ gone \subseteq Tags(rs)
      /\ \A r \in Requests \ gone : outcome'[r] = outcome[r]
      /\ \A row \in Range(rs) : row.tag \in gone =>
           /\ outcome'[row.tag] \in {"OK", "FAILED", "CANCELLED"}
           /\ outcome'[row.tag] = "CANCELLED" <=> row.cancelled
  BY <1>1, <1>4, RetiredFacts
<1> HIDE DEF gone
<1>6. ASSUME NEW r \in gone
      PROVE  \/ r \in Tags(rows) \ Dropped(rows) /\ outcome'[r] \in {"OK", "FAILED"}
             \/ r \in Dropped(rows) /\ outcome'[r] = "CANCELLED"
  <2>1. PICK i \in DOMAIN rs : rs[i].tag = r
    BY <1>5 DEF Tags
  <2>2. rs[i] \in Range(rs) /\ rs[i] \in Row
    BY <2>1, SeqDomain DEF Range
  <2>3. r \in Dropped(rs) <=> rs[i].cancelled
    BY <2>1 DEF Dropped, OneEach
  <2> QED  BY <1>5, <2>1, <2>2, <2>3
<1>7. ASSUME NEW r \in Requests \ gone
      PROVE  /\ r \in Tags(rows') <=> r \in Tags(rows)
             /\ r \in Dropped(rows) => r \in Dropped(rows')
  <2>1. ASSUME NEW i \in DOMAIN rs, rs[i].tag = r PROVE \E k \in DOMAIN rows' : rows'[k] = rs[i]
    BY <1>5, <2>1 DEF Range
  <2>2. ASSUME NEW k \in DOMAIN rows' PROVE \E i \in DOMAIN rs : rows'[k] = rs[i]
    <3>1. rows'[k] \in Range(rows')
      BY Zenon DEF Range
    <3>2. rows'[k] \in Range(rs)
      BY <1>5, <3>1
    <3> QED  BY <3>2, Zenon DEF Range
  <2>3. r \in Tags(rows') <=> r \in Tags(rs)
    BY <2>1, <2>2 DEF Tags
  <2>4. r \in Dropped(rs) => r \in Dropped(rows')
    BY <2>1 DEF Dropped
  <2> QED  BY <2>3, <2>4
<1>8. \A r \in gone : outcome'[r] # "none"
  BY <1>6
<1>9. ASSUME NEW r \in Requests
      PROVE  /\ \/ outcome'[r] = outcome[r]
                \/ r \in Tags(rows) \ Dropped(rows) /\ outcome'[r] \in {"OK", "FAILED"}
                \/ r \in Dropped(rows) /\ outcome'[r] = "CANCELLED"
             /\ outcome'[r] = "none" => (r \in Tags(rows') <=> r \in Tags(rows))
             /\ outcome'[r] = "none" /\ r \in Dropped(rows) => r \in Dropped(rows')
  BY <1>5, <1>6, <1>7, <1>8
<1> QED  BY <1>9, SettlesPromise

LEMMA RetirePromise ==
  ASSUME DriverInv, DriverInv', Retire
  PROVE  Promise!Next
<1>1. RetirePass(rows, audio) /\ UNCHANGED <<queue, audio>>
  BY DEF Retire
<1>2. rows \in Seq(Row) /\ OneEach(rows) /\ audio \in [Requests -> Sound]
  BY DEF DriverInv, RowsTyped, ListsOK, AudioTyped
<1>3. \A r \in Requests : Heard(r)
  BY <1>1 DEF Heard
<1> QED  BY <1>1, <1>2, <1>3, RetiredPromise

LEMMA CollectPromise ==
  ASSUME DriverInv, DriverInv', Collect
  PROVE  Promise!Next
<1>1. PICK bad \in SUBSET Ganged :
       LET rs == [i \in DOMAIN rows |-> [FailAll(rows, bad)[i] EXCEPT !.held = FALSE]]
           au == Delivered(rows, audio, bad)
       IN /\ audio' = au
          /\ IF ahead = {} THEN RetirePass(rs, au) ELSE rows' = rs /\ UNCHANGED outcome
  BY DEF Collect
<1> DEFINE ss == FailAll(rows, bad)
           rs == [i \in DOMAIN rows |-> [ss[i] EXCEPT !.held = FALSE]]
           au == Delivered(rows, audio, bad)
<1>2. audio' = au /\ (IF ahead = {} THEN RetirePass(rs, au) ELSE rows' = rs /\ UNCHANGED outcome)
  BY <1>1, Zenon
<1>3. queue' = queue
  BY DEF Collect
<1>4. rows \in Seq(Row) /\ OneEach(rows) /\ mode \in Modes /\ DeviceTyped /\ AudioTyped /\ RequestsOK
  BY DEF DriverInv, LoopTyped, RowsTyped, ListsOK
<1>5. rs \in Seq(Row) /\ OneEach(rs) /\ Tags(rs) = Tags(rows)
  BY FreedFacts, Zenon
<1>6. Dropped(rs) = Dropped(rows)
  <2>1. ASSUME NEW i \in DOMAIN rows PROVE rs[i].tag = rows[i].tag /\ rs[i].cancelled = rows[i].cancelled
    <3>1. rows[i] \in Row
      BY <1>4, SeqDomain
    <3>2. ss[i] = IF rows[i].tag \in bad THEN Fail(rows[i]) ELSE rows[i]
      BY <1>4, FailAllFacts
    <3>3. ss[i] \in Row /\ ss[i].tag = rows[i].tag /\ ss[i].cancelled = rows[i].cancelled
      BY <3>1, <3>2, RowEdits
    <3> DEFINE row == ss[i]
    <3>4. rs[i] = [row EXCEPT !.held = FALSE]
      OBVIOUS
    <3> HIDE DEF rs, row
    <3>5. [row EXCEPT !.held = FALSE].tag = row.tag /\ [row EXCEPT !.held = FALSE].cancelled = row.cancelled
      BY <3>3 DEF Row, row
    <3> QED  BY <3>3, <3>4, <3>5 DEF row
  <2>2. DOMAIN rs = DOMAIN rows
    OBVIOUS
  <2> HIDE DEF rs
  <2> QED  BY <2>1, <2>2, DroppedHaveRows
<1>7. au \in [Requests -> Sound]
  BY <1>4, DeliveredFacts
<1>8. \A r \in Requests : Heard(r)
  BY <1>2, <1>4, DeliveredAsPromised
<1> HIDE DEF rs, au
<1>9. CASE ahead = {}
  <2>1. RetirePass(rs, au)
    BY <1>2, <1>9
  <2> QED  BY <1>3, <1>5, <1>6, <1>7, <1>8, <2>1, RetiredPromise
<1>10. CASE ahead # {}
  <2>1. rows' = rs /\ outcome' = outcome
    BY <1>2, <1>10
  <2> QED  BY <1>3, <1>5, <1>6, <1>8, <2>1, SettlesPromise
<1> QED  BY <1>9, <1>10

\* Nobody who failed joins a gang, and a decode sends what it was charged or nothing.
LEMMA GangIsHealthy ==
  ASSUME NEW rs, NEW au, NEW results, NEW r \in Requests, GangOf(rs, au, results)[r] > 0
  PROVE  r \in DOMAIN results /\ \A i \in DOMAIN rs : rs[i].tag = r => ~rs[i].failed
<1> DEFINE failed == {rs[i].tag : i \in {k \in DOMAIN rs : rs[k].failed}}
           streams == {q \in DOMAIN results : q \notin Offline \cup failed /\ results[q] # "fail"}
           Ends(q) == results[q] \in {"eos", "segment"}
           leading == \E q \in streams : Leads(au, q, Ends(q))
           joins == {q \in streams : Ready(au, q, Ends(q)) \/ leading}
<1>1. GangOf(rs, au, results) = [q \in Requests |-> IF q \in joins THEN Pending(au, q) ELSE 0]
  BY Zenon DEF GangOf
<1>2. joins \subseteq streams
  OBVIOUS
<1>3. r \in joins
  <2> HIDE DEF joins
  <2>1. r \notin joins => GangOf(rs, au, results)[r] = 0
    BY <1>1
  <2> QED  BY <2>1
<1> HIDE DEF joins
<1>4. r \in streams
  BY <1>2, <1>3
<1> QED  BY <1>4

LEMMA DecodedSends ==
  ASSUME NEW au, NEW ranges, NEW bad, Decoded(au, ranges, bad), NEW r \in Requests, au \in [Requests -> Sound],
         mode \in Modes, ranges[r] \in Nat
  PROVE  audio'[r].sent = au[r].sent \/ (ranges[r] > 0 /\ audio'[r].sent = au[r].sent + ranges[r])
<1> DEFINE all == {q \in Requests : ranges[q] > 0}
           now == IF mode.decode THEN {q \in all : mode.firstFirst /\ au[q].charged = 0} ELSE all
           charged == Charge(au, ranges)
<1>1. audio' = SentBy(charged, ranges, now \ bad) /\ now \subseteq all
  BY DEF Decoded
<1>2. r \in now => ranges[r] > 0
  BY <1>1
<1> HIDE DEF now
<1>3. audio'[r] = IF r \in now \ bad THEN [charged[r] EXCEPT !.sent = @ + ranges[r]] ELSE charged[r]
  BY <1>1 DEF SentBy
<1>4. charged[r] = IF ranges[r] > 0 THEN [au[r] EXCEPT !.charged = @ + ranges[r]] ELSE au[r]
  BY DEF Charge
<1>5. au[r] \in Sound
  OBVIOUS
<1> DEFINE a == au[r]
           c == charged[r]
           more == a.charged + ranges[r]
<1>6. c = [a EXCEPT !.charged = more] \/ c = a
  BY <1>4
<1> HIDE DEF charged, a, c, more
<1>7. [a EXCEPT !.charged = more].sent = a.sent /\ "sent" \in DOMAIN [a EXCEPT !.charged = more] /\ "sent" \in DOMAIN a
  BY <1>5 DEF Sound, a
<1>8. c.sent = a.sent /\ "sent" \in DOMAIN c
  BY <1>6, <1>7
<1> DEFINE later == c.sent + ranges[r]
<1>9. audio'[r] = IF r \in now \ bad THEN [c EXCEPT !.sent = later] ELSE c
  BY <1>3 DEF c
<1> HIDE DEF later
<1>10. [c EXCEPT !.sent = later].sent = later
  BY <1>8
<1> QED  BY <1>2, <1>8, <1>9, <1>10 DEF a, later

\* A step sends to streams that are active, or were until it was over.
LEMMA StepLivePromise ==
  ASSUME DriverInv, DriverInv', UNCHANGED <<queue, outcome>>,
         NEW rs \in Seq(Row), OneEach(rs), Tags(rs) = Tags(rows), Dropped(rs) = Dropped(rows),
         NEW who, who \subseteq Tags(rs),
         \A row \in Range(rs) : /\ row.cancelled => row.st = "ended"
                                /\ row.tag \in who => row.st = "active" \/ row.failed,
         StepLive(rs, who)
  PROVE  Promise!Next
<1>1. PICK emitted \in BOOLEAN : \E results \in Results(rs, who, emitted) :
        LET au == Made(who, results)
            ranges == IF emitted THEN GangOf(rs, au, results) ELSE Idle
        IN \E bad \in SUBSET {r \in Requests : ranges[r] > 0} :
             Decoded(au, ranges, bad) /\ rows' = AfterStep(rs, results, bad, emitted)
  BY Zenon DEF StepLive
<1>2. PICK results \in Results(rs, who, emitted) :
        LET au == Made(who, results)
            ranges == IF emitted THEN GangOf(rs, au, results) ELSE Idle
        IN \E bad \in SUBSET {r \in Requests : ranges[r] > 0} :
             Decoded(au, ranges, bad) /\ rows' = AfterStep(rs, results, bad, emitted)
  BY <1>1, Zenon
<1> DEFINE au == Made(who, results)
           ranges == IF emitted THEN GangOf(rs, au, results) ELSE Idle
<1>3. PICK bad \in SUBSET {r \in Requests : ranges[r] > 0} :
             Decoded(au, ranges, bad) /\ rows' = AfterStep(rs, results, bad, emitted)
  BY <1>2, Zenon
<1>4. /\ results \in [who -> Answers]
      /\ \A r \in who : results[r] = "frame" => audio[r].made < mode.frames
  BY <1>2, Zenon DEF Results, Answers
<1>5. mode \in Modes /\ AudioTyped /\ RequestsOK /\ mode.decode \in BOOLEAN
  BY ModeFacts DEF DriverInv, LoopTyped
<1>6. /\ au \in [Requests -> Sound]
      /\ \A r \in Requests : au[r].sent = audio[r].sent /\ au[r].charged <= au[r].made
  BY <1>4, <1>5, MadeFacts
<1> HIDE DEF au
<1>7. ASSUME NEW r \in Requests, audio'[r].sent # audio[r].sent
      PROVE  r \in Tags(rows) \ Dropped(rows) /\ audio'[r].sent > audio[r].sent
  <2>1. ranges[r] \in Nat
    <3>1. CASE emitted
      BY <1>4, <1>5, <1>6, <3>1, GangFacts
    <3>2. CASE ~emitted
      BY <3>2 DEF Idle
    <3> QED  BY <3>1, <3>2
  <2>2. Decoded(au, ranges, bad)
    BY <1>3
  <2>3. audio'[r].sent = au[r].sent \/ (ranges[r] > 0 /\ audio'[r].sent = au[r].sent + ranges[r])
    <3> HIDE DEF ranges
    <3> QED  BY <1>5, <1>6, <2>1, <2>2, DecodedSends
  <2>4. ranges[r] > 0 /\ audio'[r].sent = audio[r].sent + ranges[r]
    <3> HIDE DEF ranges
    <3> QED  BY <1>6, <1>7, <2>3
  <2>5. audio[r].sent \in Nat
    <3>1. audio[r] \in Sound /\ mode.frames \in Nat
      BY <1>5, ModeFacts DEF AudioTyped
    <3> QED  BY <3>1 DEF Sound
  <2>6. audio'[r].sent > audio[r].sent
    <3> HIDE DEF ranges
    <3> QED  BY <2>1, <2>4, <2>5
  <2>7. emitted
    BY <2>4 DEF Idle
  <2>8. GangOf(rs, au, results)[r] > 0
    BY <2>4, <2>7
  <2> HIDE DEF ranges
  <2>9. r \in who /\ \A i \in DOMAIN rs : rs[i].tag = r => ~rs[i].failed
    BY <1>4, <2>8, GangIsHealthy
  <2>10. \A i \in DOMAIN rs : rs[i].tag = r => ~rs[i].cancelled
    BY <2>9 DEF Range
  <2>11. r \notin Dropped(rs)
    BY <2>10 DEF Dropped
  <2> QED  BY <2>6, <2>9, <2>11
<1>8. \A r \in Requests : Heard(r)
  BY <1>7 DEF Heard
<1>9. Tags(rows') = Tags(rs) /\ Dropped(rows') = Dropped(rs)
  <2> DEFINE ss == AfterStep(rs, results, bad, emitted)
  <2>1. /\ DOMAIN ss = DOMAIN rs
        /\ \A i \in DOMAIN rs : ss[i].tag = rs[i].tag /\ ss[i].cancelled = rs[i].cancelled
    BY <1>4, <1>5, AfterStepFacts
  <2>2. rows' = ss
    BY <1>3
  <2> HIDE DEF ss
  <2> QED  BY <2>1, <2>2, DroppedHaveRows
<1> QED  BY <1>8, <1>9, SettlesPromise

LEMMA StepPromise ==
  ASSUME DriverInv, DriverInv', Step
  PROVE  Promise!Next
<1>1. UNCHANGED <<queue, outcome>>
  BY Zenon DEF Step
<1>2. \/ StepLive(RideAlong(rows), ahead)
      \/ StepLive(rows, Turn(rows, rr).who)
  BY Zenon DEF Step
<1>3. /\ mode \in Modes /\ rows \in Seq(Row) /\ OneEach(rows) /\ rr \in 0..mode.capacity
      /\ ahead \subseteq Tags(rows)
  BY DEF DriverInv, LoopTyped, RowsTyped, ListsOK
<1>4. \A row \in Range(rows) : row.cancelled => row.st = "ended"
  BY DEF DriverInv, RowsOK, RowOK
<1>5. CASE StepLive(RideAlong(rows), ahead)
  <2> DEFINE rs == RideAlong(rows)
  <2>1. /\ DOMAIN rs = DOMAIN rows /\ rs = [i \in DOMAIN rows |-> rs[i]]
        /\ \A i \in DOMAIN rows :
              /\ rs[i] \in Row /\ rs[i].tag = rows[i].tag /\ rs[i].st = rows[i].st
              /\ rs[i].cancelled = rows[i].cancelled
              /\ rows[i].tag \in ahead => rows[i].st = "active" \/ rs[i].failed
    BY <1>3, RideAlongFacts
  <2>2. StepLive(rs, ahead)
    BY <1>5
  <2> HIDE DEF rs
  <2>3. /\ rs \in Seq(Row) /\ OneEach(rs) /\ Tags(rs) = Tags(rows)
        /\ \A new \in Range(rs) : \E i \in DOMAIN rows : rows[i] \in Range(rows) /\ new = rs[i]
    BY <1>3, <2>1, InPlace
  <2>4. Dropped(rs) = Dropped(rows)
    BY <2>1, DroppedHaveRows
  <2>5. \A row \in Range(rs) : /\ row.cancelled => row.st = "ended"
                               /\ row.tag \in ahead => row.st = "active" \/ row.failed
    BY <1>4, <2>1, <2>3
  <2> QED  BY <1>1, <1>3, <2>2, <2>3, <2>4, <2>5, StepLivePromise
<1>6. CASE StepLive(rows, Turn(rows, rr).who)
  <2> DEFINE who == Turn(rows, rr).who
  <2>1. who \subseteq {rows[i].tag : i \in {k \in DOMAIN rows : rows[k].st = "active"}}
    <3>1. rr \in Nat /\ mode.batch \in Nat
      BY <1>3, ModeFacts
    <3> QED  BY <1>3, <3>1, TurnFacts
  <2>2. StepLive(rows, who)
    BY <1>6
  <2> HIDE DEF who
  <2>3. who \subseteq Tags(rows)
    BY <2>1 DEF Tags
  <2>4. \A row \in Range(rows) : row.tag \in who => row.st = "active" \/ row.failed
    BY <1>3, <2>1 DEF OneEach, Range
  <2> QED  BY <1>1, <1>3, <1>4, <2>2, <2>3, <2>4, StepLivePromise
<1> QED  BY <1>2, <1>5, <1>6

LEMMA StepsKeepPromise ==
  ASSUME DriverInv, DriverInv', [Next]_vars
  PROVE  Promise!Next
<1>1. ASSUME UNCHANGED <<rows, queue, audio, outcome>> PROVE Promise!Next
  BY <1>1, QuietPromise
<1>2. CASE Driver
  <2>1. ASSUME NEW r \in Requests, Admit(r) PROVE Promise!Next
    BY <2>1, AdmitPromise
  <2>2. CASE AdmitDone \/ LateDone \/ StepNobody \/ Launch
    BY <1>1, <2>2 DEF AdmitDone, LateDone, StepNobody, Launch
  <2>3. CASE Prefill \/ PrefillAgain
    <3>1. PICK done, bad : Prefilled(done, bad)
      BY <2>3, Zenon DEF Prefill, PrefillAgain
    <3>2. UNCHANGED <<queue, audio, outcome>>
      BY <2>3 DEF Prefill, PrefillAgain
    <3> QED  BY <3>1, <3>2, PrefilledPromise
  <2> QED  BY <1>2, <2>1, <2>2, <2>3, AttachPromise, CancelPromise, CollectPromise, StepPromise,
              RetirePromise DEF Driver
<1>3. CASE Helper \/ Stop
  BY <1>1, <1>3 DEF Helper, HelperBuilds, Stop
<1>4. CASE \E r \in Requests : Offer(r)
  BY <1>4, OfferPromise
<1>5. CASE UNCHANGED vars
  BY <1>1, <1>5 DEF vars
<1> QED  BY <1>2, <1>3, <1>4, <1>5 DEF Next

\* The driver implements ServePromise, for any requests and slots and in every
\* combination of its overlaps: it reports what it takes exactly once, as
\* cancelled if and only if it found the client gone, and sends sound to the
\* clients of rows it holds and to no other (src/graph.h, mynah_graph_sink).
THEOREM DriverKeepsPromise == Spec => ImplementsPromise
<1>1. Init => Promise!Init
  BY DEF Init, Promise!Init, StateOf, Tags
<1>2. DriverInv /\ DriverInv' /\ [Next]_vars =>
        [Promise!Next]_<<[r \in Requests |-> StateOf(r)], [r \in Requests |-> audio[r].sent]>>
  BY StepsKeepPromise
<1> QED  BY <1>1, <1>2, DriverInvariant, PTL DEF Spec, ImplementsPromise, Promise!Spec
==============================================================================
