--------------------------- MODULE SlotPoolProofs ---------------------------
(***************************************************************************)
(* Theorems about the pool of device sets, for any number of contexts, any *)
(* shapes of text and any limits: the accounts are exact, and a row is     *)
(* seated only on what can hold it.                                        *)
(***************************************************************************)
EXTENDS SlotPool, SequenceTheorems, FiniteSetTheorems, FunctionTheorems,
        WellFoundedInduction, TLAPS

-----------------------------------------------------------------------------
(* Numbers.                                                                *)

\* A set of numbers that is not empty has a least one.
LEMMA LeastNumber ==
  ASSUME NEW T \in SUBSET Nat, T # {}
  PROVE  \E x \in T : \A y \in T : x <= y
<1> DEFINE R == OpToRel(<,Nat)
<1>1. IsWellFoundedOn(R, Nat)
  BY NatLessThanWellFounded
<1>2. \A x, y \in Nat : x < y => <<x, y>> \in R
  BY DEF OpToRel
<1> HIDE DEF R
<1>3. PICK x \in T : \A y \in T : ~(<<y, x>> \in R)
  BY <1>1, WFMin, T \subseteq Nat
<1>4. \A y \in T : ~(y < x)
  BY <1>2, <1>3
<1> QED  BY <1>3, <1>4

\* A bounded one has a greatest: the least of its bounds.
LEMMA GreatestNumber ==
  ASSUME NEW T \in SUBSET Nat, T # {}, NEW b \in Nat, \A x \in T : x <= b
  PROVE  \E x \in T : \A y \in T : x >= y
<1> DEFINE B == {c \in Nat : \A x \in T : x <= c}
<1>1. PICK c \in B : \A d \in B : c <= d
  <2>1. B \in SUBSET Nat /\ B # {}
    OBVIOUS
  <2> HIDE DEF B
  <2> QED  BY <2>1, LeastNumber
<1>2. c \in T
  <2> SUFFICES ASSUME c \notin T  PROVE FALSE
    OBVIOUS
  <2>1. PICK x \in T : TRUE
    OBVIOUS
  <2>2. \A y \in T : y <= c - 1
    OBVIOUS
  <2>3. c - 1 \in Nat
    BY <2>1, <2>2
  <2> QED  BY <1>1, <2>2, <2>3
<1> QED  BY <1>1, <1>2

\* A finite set of numbers is bounded: no least cardinality without a bound.
LEMMA FiniteIsBounded ==
  ASSUME NEW T \in SUBSET Nat, IsFiniteSet(T)
  PROVE  \E b \in Nat : \A x \in T : x <= b
<1> DEFINE Unbounded(S) == \A b \in Nat : \E x \in S : ~(x <= b)
           N == {n \in Nat : \E S \in SUBSET Nat : IsFiniteSet(S) /\ Cardinality(S) = n /\ Unbounded(S)}
<1> SUFFICES ASSUME Unbounded(T)  PROVE FALSE
  OBVIOUS
<1>1. Cardinality(T) \in N
  BY FS_CardinalityType
<1>2. PICK n \in N : \A m \in N : n <= m
  <2>1. N \in SUBSET Nat /\ N # {}
    BY <1>1
  <2> HIDE DEF N
  <2> QED  BY <2>1, LeastNumber
<1>3. PICK S \in SUBSET Nat : IsFiniteSet(S) /\ Cardinality(S) = n /\ Unbounded(S)
  BY <1>2
<1>4. PICK a \in S : ~(a <= 0)
  BY <1>3
<1>5. /\ IsFiniteSet(S \ {a}) /\ Cardinality(S \ {a}) = n - 1
  BY <1>3, <1>4, FS_RemoveElement
<1>6. n - 1 \in Nat
  BY <1>5, FS_CardinalityType
<1>7. Unbounded(S \ {a})
  <2> SUFFICES ASSUME NEW b \in Nat  PROVE \E x \in S \ {a} : ~(x <= b)
    OBVIOUS
  <2>1. CASE b <= a
    <3>1. PICK x \in S : ~(x <= a)
      BY <1>3, <1>4
    <3> QED  BY <2>1, <3>1, <1>4
  <2>2. CASE ~(b <= a)
    <3>1. PICK x \in S : ~(x <= b)
      BY <1>3
    <3> QED  BY <2>2, <3>1, <1>4
  <2> QED  BY <2>1, <2>2
<1>8. n - 1 \in N
  BY <1>3, <1>5, <1>6, <1>7
<1> QED  BY <1>2, <1>8

LEMMA LeastOfNumbers ==
  ASSUME NEW T \in SUBSET Nat, T # {}
  PROVE  Least(T) \in T /\ \A y \in T : Least(T) <= y
BY LeastNumber DEF Least

LEMMA MostOfNumbers ==
  ASSUME NEW T \in SUBSET Nat, T # {}, NEW b \in Nat, \A x \in T : x <= b
  PROVE  Most(T) \in T /\ \A y \in T : y <= Most(T)
<1>1. \E x \in T : \A y \in T : x >= y
  BY GreatestNumber
<1>2. Most(T) \in T /\ \A y \in T : Most(T) >= y
  BY <1>1 DEF Most
<1> QED  BY <1>2

\* The places where a bounded quantity is least, and greatest.
LEMMA SomeSmallest ==
  ASSUME NEW I, I # {}, NEW f, \A i \in I : f[i] \in Nat
  PROVE  \E i \in I : \A j \in I : f[i] <= f[j]
<1> DEFINE V == {f[i] : i \in I}
<1>1. PICK v \in V : \A w \in V : v <= w
  <2>1. V \in SUBSET Nat /\ V # {}
    OBVIOUS
  <2> HIDE DEF V
  <2> QED  BY <2>1, LeastNumber
<1> QED  BY <1>1

LEMMA SomeLargest ==
  ASSUME NEW I, I # {}, NEW f, NEW b \in Nat, \A i \in I : f[i] \in 0..b
  PROVE  \E i \in I : \A j \in I : f[i] >= f[j]
<1> DEFINE V == {f[i] : i \in I}
<1>1. PICK v \in V : \A w \in V : v >= w
  <2>1. V \in SUBSET Nat /\ V # {} /\ \A x \in V : x <= b
    OBVIOUS
  <2> HIDE DEF V
  <2> QED  BY <2>1, GreatestNumber
<1> QED  BY <1>1

-----------------------------------------------------------------------------
(* What is counted in a list.                                              *)

Marked(s, A) == {i \in Indices(s) : s[i] \in A}
Bit(b) == IF b THEN 1 ELSE 0

LEMMA CountIsNat ==
  ASSUME NEW S, NEW s \in Seq(S), NEW A
  PROVE  IsFiniteSet(Marked(s, A)) /\ Cardinality(Marked(s, A)) \in Nat
<1>1. Len(s) \in Nat /\ Marked(s, A) \in SUBSET (1..Len(s))
  BY DEF Marked, Indices
<1>2. IsFiniteSet(1..Len(s))
  BY <1>1, FS_Interval
<1> QED  BY <1>1, <1>2, FS_Subset, FS_CardinalityType

\* A set with one element more or less.
LEMMA OneMore ==
  ASSUME NEW T, IsFiniteSet(T), NEW x, x \notin T
  PROVE  IsFiniteSet(T \cup {x}) /\ Cardinality(T \cup {x}) = Cardinality(T) + 1
BY FS_AddElement

LEMMA OneLess ==
  ASSUME NEW T, IsFiniteSet(T), NEW x \in T
  PROVE  IsFiniteSet(T \ {x}) /\ Cardinality(T \ {x}) = Cardinality(T) - 1
BY FS_RemoveElement

\* Places renumbered one to one are as many.
LEMMA Renumbered ==
  ASSUME NEW T, NEW U, IsFiniteSet(T), NEW f \in [T -> U],
         \A a, b \in T : f[a] = f[b] => a = b, \A u \in U : \E a \in T : f[a] = u
  PROVE  IsFiniteSet(U) /\ Cardinality(U) = Cardinality(T)
<1>1. f \in Bijection(T, U)
  BY Fun_IsBij
<1> QED  BY <1>1, FS_Bijection DEF ExistsBijection

LEMMA CountUpdated ==
  ASSUME NEW S, NEW s \in Seq(S), NEW i \in Indices(s), NEW x \in S, NEW A
  PROVE  Cardinality(Marked([s EXCEPT ![i] = x], A)) =
           Cardinality(Marked(s, A)) - Bit(s[i] \in A) + Bit(x \in A)
<1> DEFINE t == [s EXCEPT ![i] = x]
<1>1. Len(t) = Len(s) /\ \A j \in Indices(s) : t[j] = IF j = i THEN x ELSE s[j]
  BY ExceptSeq DEF Indices
<1>2. Indices(t) = Indices(s)
  BY <1>1 DEF Indices
<1>3. IsFiniteSet(Marked(s, A)) /\ Cardinality(Marked(s, A)) \in Nat
  BY CountIsNat
<1>4. IsFiniteSet(Marked(s, A) \ {i}) /\ Cardinality(Marked(s, A) \ {i}) = Cardinality(Marked(s, A)) - Bit(s[i] \in A)
  <2>1. CASE s[i] \in A
    <3>1. i \in Marked(s, A)
      BY <2>1 DEF Marked
    <3>2. IsFiniteSet(Marked(s, A) \ {i}) /\ Cardinality(Marked(s, A) \ {i}) = Cardinality(Marked(s, A)) - 1
      BY <1>3, <3>1, OneLess
    <3>3. Bit(s[i] \in A) = 1
      BY <2>1 DEF Bit
    <3> QED  BY <3>2, <3>3
  <2>2. CASE s[i] \notin A
    <3>1. Marked(s, A) \ {i} = Marked(s, A)
      BY <2>2 DEF Marked
    <3>2. Cardinality(Marked(s, A) \ {i}) = Cardinality(Marked(s, A))
      BY <3>1, Zenon
    <3>3. IsFiniteSet(Marked(s, A) \ {i})
      BY <1>3, <3>1
    <3>4. Bit(s[i] \in A) = 0
      BY <2>2 DEF Bit
    <3> QED  BY <1>3, <3>2, <3>3, <3>4
  <2> QED  BY <2>1, <2>2
<1>5. CASE x \in A
  <2>1. Marked(t, A) = (Marked(s, A) \ {i}) \cup {i}
    BY <1>1, <1>2, <1>5 DEF Marked
  <2>2. Cardinality((Marked(s, A) \ {i}) \cup {i}) = Cardinality(Marked(s, A) \ {i}) + 1
    BY <1>4, OneMore
  <2>3. Cardinality(Marked(t, A)) = Cardinality((Marked(s, A) \ {i}) \cup {i})
    BY <2>1, Zenon
  <2> QED  BY <1>4, <1>5, <2>2, <2>3 DEF Bit
<1>6. CASE x \notin A
  <2>1. Marked(t, A) = Marked(s, A) \ {i}
    BY <1>1, <1>2, <1>6 DEF Marked
  <2>2. Cardinality(Marked(t, A)) = Cardinality(Marked(s, A) \ {i})
    BY <2>1, Zenon
  <2> QED  BY <1>3, <1>4, <1>6, <2>2 DEF Bit
<1> QED  BY <1>5, <1>6

LEMMA CountPrepended ==
  ASSUME NEW S, NEW s \in Seq(S), NEW x \in S, NEW A
  PROVE  Cardinality(Marked(<<x>> \o s, A)) = Cardinality(Marked(s, A)) + Bit(x \in A)
<1> DEFINE t == <<x>> \o s
           f == [i \in Marked(s, A) |-> i + 1]
<1>1. /\ Len(s) \in Nat /\ Len(t) = Len(s) + 1
      /\ t[1] = x /\ \A i \in Indices(s) : t[i + 1] = s[i]
  <2>1. <<x>> \in Seq(S) /\ Len(<<x>>) = 1 /\ <<x>>[1] = x
    OBVIOUS
  <2>2. Len(t) = 1 + Len(s) /\ \A i \in 1 .. 1 + Len(s) : t[i] = IF i <= 1 THEN <<x>>[i] ELSE s[i - 1]
    BY <2>1, ConcatProperties
  <2> QED  BY <2>1, <2>2 DEF Indices
<1>2. IsFiniteSet(Marked(s, A)) /\ Cardinality(Marked(s, A)) \in Nat
  BY CountIsNat
<1>3. IsFiniteSet(Marked(t, A) \ {1}) /\ Cardinality(Marked(t, A) \ {1}) = Cardinality(Marked(s, A))
  <2>1. f \in [Marked(s, A) -> Marked(t, A) \ {1}]
    BY <1>1 DEF Marked, Indices
  <2>2. \A a, b \in Marked(s, A) : f[a] = f[b] => a = b
    BY DEF Marked, Indices
  <2>3. \A u \in Marked(t, A) \ {1} : \E a \in Marked(s, A) : f[a] = u
    <3> TAKE u \in Marked(t, A) \ {1}
    <3>1. u - 1 \in Indices(s) /\ u = (u - 1) + 1
      BY <1>1 DEF Marked, Indices
    <3>2. u - 1 \in Marked(s, A)
      BY <1>1, <3>1 DEF Marked
    <3> QED  BY <3>1, <3>2
  <2> HIDE DEF f
  <2> QED  BY <1>2, <2>1, <2>2, <2>3, Renumbered
<1>4. CASE x \in A
  <2>1. 1 \in Marked(t, A)
    BY <1>1, <1>4 DEF Marked, Indices
  <2>2. Marked(t, A) = (Marked(t, A) \ {1}) \cup {1}
    BY <2>1
  <2>3. Cardinality((Marked(t, A) \ {1}) \cup {1}) = Cardinality(Marked(t, A) \ {1}) + 1
    BY <1>3, OneMore
  <2>4. Cardinality(Marked(t, A)) = Cardinality((Marked(t, A) \ {1}) \cup {1})
    BY <2>2, Zenon
  <2> QED  BY <1>2, <1>3, <1>4, <2>3, <2>4 DEF Bit
<1>5. CASE x \notin A
  <2>1. Marked(t, A) = Marked(t, A) \ {1}
    BY <1>1, <1>5 DEF Marked
  <2>2. Cardinality(Marked(t, A)) = Cardinality(Marked(t, A) \ {1})
    BY <2>1, Zenon
  <2> QED  BY <1>2, <1>3, <1>5, <2>2 DEF Bit
<1> QED  BY <1>4, <1>5

LEMMA WithoutOne ==
  ASSUME NEW S, NEW s \in Seq(S), NEW i \in Indices(s)
  PROVE  /\ Without(s, i) \in Seq(S) /\ Len(s) \in Nat /\ Len(Without(s, i)) = Len(s) - 1
         /\ \A j \in 1..(Len(s) - 1) : Without(s, i)[j] = IF j < i THEN s[j] ELSE s[j + 1]
<1> DEFINE a == SubSeq(s, 1, i - 1)
           b == SubSeq(s, i + 1, Len(s))
<1>1. Len(s) \in Nat /\ i \in 1..Len(s) /\ \A j \in 1..Len(s) : s[j] \in S
  BY LenProperties, ElementOfSeq DEF Indices
<1>2. a \in Seq(S) /\ Len(a) = i - 1 /\ \A j \in 1..(i - 1) : a[j] = s[j]
  <2>1. 1 \in Int /\ i - 1 \in Int /\ \A j \in 1..(i - 1) : s[j] \in S
    BY <1>1
  <2>2. /\ a \in Seq(S) /\ Len(a) = IF 1 <= i - 1 THEN (i - 1) - 1 + 1 ELSE 0
        /\ \A j \in 1 .. (i - 1) - 1 + 1 : a[j] = s[1 + j - 1]
    BY <2>1, SubSeqProperties
  <2> QED  BY <1>1, <2>2
<1>3. b \in Seq(S) /\ Len(b) = Len(s) - i /\ \A j \in 1..(Len(s) - i) : b[j] = s[i + j]
  <2>1. i + 1 \in Int /\ Len(s) \in Int /\ \A j \in (i + 1)..Len(s) : s[j] \in S
    BY <1>1
  <2>2. /\ b \in Seq(S) /\ Len(b) = IF i + 1 <= Len(s) THEN Len(s) - (i + 1) + 1 ELSE 0
        /\ \A j \in 1 .. Len(s) - (i + 1) + 1 : b[j] = s[(i + 1) + j - 1]
    BY <2>1, SubSeqProperties
  <2> QED  BY <1>1, <2>2
<1> HIDE DEF a, b
<1>4. /\ a \o b \in Seq(S) /\ Len(a \o b) = Len(a) + Len(b)
      /\ \A j \in 1 .. Len(a) + Len(b) : (a \o b)[j] = IF j <= Len(a) THEN a[j] ELSE b[j - Len(a)]
  BY <1>2, <1>3, ConcatProperties
<1>5. \A j \in 1..(Len(s) - 1) : (a \o b)[j] = IF j < i THEN s[j] ELSE s[j + 1]
  <2> TAKE j \in 1..(Len(s) - 1)
  <2>1. CASE j < i
    BY <1>1, <1>2, <1>3, <1>4, <2>1
  <2>2. CASE ~(j < i)
    <3>1. (a \o b)[j] = b[j - (i - 1)] /\ j - (i - 1) \in 1..(Len(s) - i)
      BY <1>1, <1>2, <1>3, <1>4, <2>2
    <3>2. i + (j - (i - 1)) = j + 1
      BY <1>1
    <3> QED  BY <1>3, <2>2, <3>1, <3>2
  <2> QED  BY <2>1, <2>2
<1>6. Without(s, i) = a \o b
  BY DEF Without, a, b
<1>7. Len(a \o b) = Len(s) - 1
  BY <1>1, <1>2, <1>3, <1>4
<1> QED  BY <1>1, <1>4, <1>5, <1>6, <1>7

LEMMA CountWithout ==
  ASSUME NEW S, NEW s \in Seq(S), NEW i \in Indices(s), NEW A
  PROVE  Cardinality(Marked(Without(s, i), A)) = Cardinality(Marked(s, A)) - Bit(s[i] \in A)
<1> DEFINE t == Without(s, i)
           f == [j \in Marked(t, A) |-> IF j < i THEN j ELSE j + 1]
<1>1. /\ t \in Seq(S) /\ Len(s) \in Nat /\ Len(t) = Len(s) - 1 /\ i \in 1..Len(s)
      /\ \A j \in 1..(Len(s) - 1) : t[j] = IF j < i THEN s[j] ELSE s[j + 1]
  BY WithoutOne DEF Indices
<1>2. /\ IsFiniteSet(Marked(s, A)) /\ Cardinality(Marked(s, A)) \in Nat
      /\ IsFiniteSet(Marked(t, A)) /\ Cardinality(Marked(t, A)) \in Nat
  BY <1>1, CountIsNat
<1> HIDE DEF t
<1>3. Cardinality(Marked(s, A) \ {i}) = Cardinality(Marked(t, A))
  <2>1. f \in [Marked(t, A) -> Marked(s, A) \ {i}]
    <3>1. \A j \in Marked(t, A) : (IF j < i THEN j ELSE j + 1) \in Marked(s, A) \ {i}
      BY <1>1 DEF Marked, Indices
    <3> QED  BY <3>1
  <2>2. \A a, b \in Marked(t, A) : f[a] = f[b] => a = b
    BY <1>1 DEF Marked, Indices
  <2>3. \A u \in Marked(s, A) \ {i} : \E a \in Marked(t, A) : f[a] = u
    <3> TAKE u \in Marked(s, A) \ {i}
    <3>1. CASE u < i
      <4>1. u \in Marked(t, A)
        BY <1>1, <3>1 DEF Marked, Indices
      <4> QED  BY <3>1, <4>1
    <3>2. CASE ~(u < i)
      <4>1. u \in 1..Len(s) /\ u > i /\ s[u] \in A
        BY <1>1, <3>2 DEF Marked, Indices
      <4>2. u - 1 \in 1..(Len(s) - 1) /\ ~(u - 1 < i) /\ (u - 1) + 1 = u
        BY <1>1, <4>1
      <4>3. t[u - 1] = s[u]
        BY <1>1, <4>2
      <4>4. u - 1 \in Marked(t, A)
        BY <1>1, <4>1, <4>2, <4>3 DEF Marked, Indices
      <4> QED  BY <4>2, <4>4
    <3> QED  BY <3>1, <3>2
  <2> HIDE DEF f
  <2> QED  BY <1>2, <2>1, <2>2, <2>3, Renumbered
<1>4. CASE s[i] \in A
  <2>1. i \in Marked(s, A)
    BY <1>4 DEF Marked
  <2> QED  BY <1>2, <1>3, <1>4, <2>1, OneLess DEF Bit, t
<1>5. CASE s[i] \notin A
  <2>1. Marked(s, A) \ {i} = Marked(s, A)
    BY <1>5 DEF Marked
  <2>2. Cardinality(Marked(s, A) \ {i}) = Cardinality(Marked(s, A))
    BY <2>1, Zenon
  <2> QED  BY <1>2, <1>3, <1>5, <2>2 DEF Bit, t
<1> QED  BY <1>4, <1>5

-----------------------------------------------------------------------------
(* The accounts of a pool: what rows must hold for them to be right.       *)

\* No size exceeds Top, and the band of a fixed size does not.
LEMMA SizesFit ==
  /\ Top \in Nat /\ Top >= 1
  /\ \A s \in Shapes : /\ s = [floor |-> s.floor, est |-> s.est, top |-> s.top]
                       /\ s.floor \in Nat /\ s.est \in Nat /\ s.top \in Nat
                       /\ 1 <= s.floor /\ s.floor < s.est /\ s.est <= s.top /\ s.top <= Top
  /\ \A x \in {FirstSize} \cup LaterSizes : x \in Nat /\ 1 <= x /\ x + Chunk <= Top
<1> DEFINE E == {s.est : s \in Shapes}
           T == {s.top : s \in Shapes}
<1>1. /\ FirstSize \in Nat /\ FirstSize >= 1 /\ Chunk \in Nat /\ Chunk >= 1
      /\ \A x \in LaterSizes : x \in Nat /\ x >= 1
      /\ \A s \in Shapes : /\ s = [floor |-> s.floor, est |-> s.est, top |-> s.top]
                           /\ s.floor \in Nat /\ s.est \in Nat /\ s.top \in Nat
                           /\ 1 <= s.floor /\ s.floor < s.est /\ s.est <= s.top
  <2>1. \A s \in Shapes : /\ s = [floor |-> s.floor, est |-> s.est, top |-> s.top]
                          /\ s.floor \in Nat \ {0} /\ s.est \in Nat \ {0} /\ s.top \in Nat \ {0}
                          /\ s.floor < s.est /\ s.est <= s.top
    BY SlotAssumption
  <2>2. /\ FirstSize \in Nat \ {0} /\ LaterSizes \subseteq Nat \ {0} /\ Chunk \in Nat \ {0}
    BY SlotAssumption
  <2> QED  BY <2>1, <2>2
<1>2. IsFiniteSet(E)
  <2>1. [s \in Shapes |-> s.est] \in Surjection(Shapes, E)
    BY DEF Surjection
  <2> QED  BY <2>1, FS_Surjection, SlotAssumption
<1>3. IsFiniteSet(T)
  <2>1. [s \in Shapes |-> s.top] \in Surjection(Shapes, T)
    BY DEF Surjection
  <2> QED  BY <2>1, FS_Surjection, SlotAssumption
<1>4. IsFiniteSet({FirstSize})
  BY FS_Singleton
<1>5. IsFiniteSet(Sizes)
  <2>1. IsFiniteSet(E \cup T)
    BY <1>2, <1>3, FS_Union
  <2>2. IsFiniteSet((E \cup T) \cup {FirstSize})
    BY <1>4, <2>1, FS_Union
  <2>3. IsFiniteSet(((E \cup T) \cup {FirstSize}) \cup LaterSizes)
    BY <2>2, FS_Union, SlotAssumption
  <2> QED  BY <2>3 DEF Sizes
<1>6. Sizes \in SUBSET Nat /\ Sizes # {}
  BY <1>1 DEF Sizes
<1>7. PICK b \in Nat : \A x \in Sizes : x <= b
  BY <1>5, <1>6, FiniteIsBounded
<1>8. Most(Sizes) \in Nat /\ \A x \in Sizes : x <= Most(Sizes)
  BY <1>6, <1>7, MostOfNumbers
<1>9. Top \in Nat /\ Top >= 1 /\ Top >= Most(Sizes) + Chunk
  BY <1>1, <1>8 DEF Top, AtLeast
<1>10. (\A s \in Shapes : s.top \in Sizes) /\ (\A x \in {FirstSize} \cup LaterSizes : x \in Sizes)
  BY DEF Sizes
<1>11. \A s \in Shapes : s.top <= Top
  BY <1>1, <1>8, <1>9, <1>10
<1>12. \A x \in {FirstSize} \cup LaterSizes : x + Chunk <= Top
  BY <1>1, <1>8, <1>9, <1>10
<1> QED  BY <1>1, <1>9, <1>11, <1>12

\* A set that has something queued has a fence to wait on.
Sets == {s \in [kv : 0..Top, fixed : BOOLEAN, busy : BOOLEAN, fence : BOOLEAN] :
           (s.fixed => s.kv > 0) /\ (s.busy => s.fence)}
PoolType == [sets : Seq(Sets), spares : Seq(1..Top), live : Int, made : Int, cap : Nat,
             size : {FirstSize} \cup LaterSizes, moved : BOOLEAN, mark : Nat, open : BOOLEAN]
Good(p) == p \in PoolType /\ Len(p.sets) <= PoolCap /\ Len(p.spares) <= SpareMax

\* Bounds are numbers.
LEMMA BoundsAreNat ==
  /\ PoolCap \in Nat /\ SpareMax \in Nat /\ Reserve \in Nat /\ FirstCap \in Nat
  /\ PlanRows \in Nat /\ Marks \in Nat /\ Budgets \subseteq Nat /\ Chunk \in Nat
BY SlotAssumption

\* Caches that neither a parked set nor the spare list accounts for, and
\* fixed ones: those are what the rows hold.
Held(p) == p.made - Cardinality(Stocked(p.sets)) - Len(p.spares)
Booked(p) == p.live - Cardinality(FixedIn(p.sets)) - Len(p.spares)

\* From p to q so many caches, and fixed ones, go from the pool to rows.
Moves(p, q, caches, fixed) ==
  /\ Good(q) /\ q.open = p.open
  /\ Held(q) = Held(p) + caches /\ Booked(q) = Booked(p) + fixed

WithCache == {x \in Sets : x.kv > 0}
WithFixed == {x \in Sets : x.fixed}

LEMMA SetTypes ==
  ASSUME NEW s \in Sets
  PROVE  /\ s = [kv |-> s.kv, fixed |-> s.fixed, busy |-> s.busy, fence |-> s.fence]
         /\ s.kv \in Nat /\ s.kv <= Top /\ s.fixed \in BOOLEAN /\ s.busy \in BOOLEAN
         /\ s.fence \in BOOLEAN /\ (s.fixed => s.kv > 0) /\ (s.busy => s.fence)
         /\ (s \in WithCache <=> s.kv > 0) /\ (s \in WithFixed <=> s.fixed)
BY SizesFit DEF Sets, WithCache, WithFixed

LEMMA SetFilled ==
  ASSUME NEW s \in Sets, NEW kv \in 1..Top
  PROVE  LET x == [s EXCEPT !.kv = kv, !.fixed = TRUE] IN x \in Sets /\ x.kv = kv /\ x.fixed
<1>1. kv \in 0..Top /\ kv > 0
  BY SizesFit
<1> QED  BY <1>1 DEF Sets

LEMMA SetEmptied ==
  ASSUME NEW s \in Sets
  PROVE  LET x == [s EXCEPT !.kv = 0, !.fixed = FALSE] IN x \in Sets /\ x.kv = 0 /\ ~x.fixed
<1>1. 0 \in 0..Top
  BY SizesFit
<1> QED  BY <1>1 DEF Sets

LEMMA CountsOfSets ==
  ASSUME NEW s \in Seq(Sets)
  PROVE  /\ Stocked(s) = Marked(s, WithCache) /\ FixedIn(s) = Marked(s, WithFixed)
         /\ IsFiniteSet(Stocked(s)) /\ IsFiniteSet(FixedIn(s))
         /\ Cardinality(Stocked(s)) \in Nat /\ Cardinality(FixedIn(s)) \in Nat
         /\ FixedIn(s) \subseteq Stocked(s)
<1>1. \A i \in Indices(s) : s[i] \in Sets
  BY ElementOfSeq DEF Indices
<1>2. Stocked(s) = Marked(s, WithCache)
  BY <1>1, SetTypes DEF Stocked, Marked
<1>3. FixedIn(s) = Marked(s, WithFixed)
  BY <1>1, SetTypes DEF FixedIn, Marked
<1>4. FixedIn(s) \subseteq Stocked(s)
  BY <1>1, SetTypes DEF FixedIn, Stocked
<1> QED  BY <1>2, <1>3, <1>4, CountIsNat

LEMMA SetsUpdated ==
  ASSUME NEW s \in Seq(Sets), NEW i \in Indices(s), NEW x \in Sets
  PROVE  LET t == [s EXCEPT ![i] = x] IN
         /\ t \in Seq(Sets) /\ Len(t) = Len(s)
         /\ Cardinality(Stocked(t)) = Cardinality(Stocked(s)) - Bit(s[i].kv > 0) + Bit(x.kv > 0)
         /\ Cardinality(FixedIn(t)) = Cardinality(FixedIn(s)) - Bit(s[i].fixed) + Bit(x.fixed)
<1> DEFINE t == [s EXCEPT ![i] = x]
<1>1. t \in Seq(Sets) /\ Len(t) = Len(s) /\ s[i] \in Sets
  BY ExceptSeq, ElementOfSeq DEF Indices
<1>2. /\ Cardinality(Marked(t, WithCache)) =
           Cardinality(Marked(s, WithCache)) - Bit(s[i] \in WithCache) + Bit(x \in WithCache)
      /\ Cardinality(Marked(t, WithFixed)) =
           Cardinality(Marked(s, WithFixed)) - Bit(s[i] \in WithFixed) + Bit(x \in WithFixed)
  BY CountUpdated
<1> HIDE DEF t
<1>3. /\ Bit(s[i] \in WithCache) = Bit(s[i].kv > 0) /\ Bit(x \in WithCache) = Bit(x.kv > 0)
      /\ Bit(s[i] \in WithFixed) = Bit(s[i].fixed) /\ Bit(x \in WithFixed) = Bit(x.fixed)
  BY <1>1, SetTypes DEF Bit
<1>4. /\ Stocked(t) = Marked(t, WithCache) /\ FixedIn(t) = Marked(t, WithFixed)
      /\ Stocked(s) = Marked(s, WithCache) /\ FixedIn(s) = Marked(s, WithFixed)
  BY <1>1, CountsOfSets
<1>5. /\ Cardinality(Stocked(t)) = Cardinality(Stocked(s)) - Bit(s[i].kv > 0) + Bit(x.kv > 0)
      /\ Cardinality(FixedIn(t)) = Cardinality(FixedIn(s)) - Bit(s[i].fixed) + Bit(x.fixed)
  BY <1>2, <1>3, <1>4
<1> QED  BY <1>1, <1>5 DEF t

LEMMA SetsPrepended ==
  ASSUME NEW s \in Seq(Sets), NEW x \in Sets
  PROVE  LET t == <<x>> \o s IN
         /\ t \in Seq(Sets) /\ Len(t) = Len(s) + 1
         /\ Cardinality(Stocked(t)) = Cardinality(Stocked(s)) + Bit(x.kv > 0)
         /\ Cardinality(FixedIn(t)) = Cardinality(FixedIn(s)) + Bit(x.fixed)
<1> DEFINE t == <<x>> \o s
<1>1. t \in Seq(Sets) /\ Len(t) = Len(s) + 1
  OBVIOUS
<1>2. /\ Cardinality(Marked(t, WithCache)) = Cardinality(Marked(s, WithCache)) + Bit(x \in WithCache)
      /\ Cardinality(Marked(t, WithFixed)) = Cardinality(Marked(s, WithFixed)) + Bit(x \in WithFixed)
  BY CountPrepended
<1> HIDE DEF t
<1>3. Bit(x \in WithCache) = Bit(x.kv > 0) /\ Bit(x \in WithFixed) = Bit(x.fixed)
  BY SetTypes DEF Bit
<1>4. /\ Stocked(t) = Marked(t, WithCache) /\ FixedIn(t) = Marked(t, WithFixed)
      /\ Stocked(s) = Marked(s, WithCache) /\ FixedIn(s) = Marked(s, WithFixed)
  BY <1>1, CountsOfSets
<1>5. /\ Cardinality(Stocked(t)) = Cardinality(Stocked(s)) + Bit(x.kv > 0)
      /\ Cardinality(FixedIn(t)) = Cardinality(FixedIn(s)) + Bit(x.fixed)
  BY <1>2, <1>3, <1>4
<1> QED  BY <1>1, <1>5 DEF t

LEMMA SetsWithout ==
  ASSUME NEW s \in Seq(Sets), NEW i \in Indices(s)
  PROVE  LET t == Without(s, i) IN
         /\ t \in Seq(Sets) /\ Len(t) = Len(s) - 1
         /\ Cardinality(Stocked(t)) = Cardinality(Stocked(s)) - Bit(s[i].kv > 0)
         /\ Cardinality(FixedIn(t)) = Cardinality(FixedIn(s)) - Bit(s[i].fixed)
<1> DEFINE t == Without(s, i)
<1>1. t \in Seq(Sets) /\ Len(t) = Len(s) - 1 /\ s[i] \in Sets
  BY WithoutOne, ElementOfSeq DEF Indices
<1>2. /\ Cardinality(Marked(t, WithCache)) = Cardinality(Marked(s, WithCache)) - Bit(s[i] \in WithCache)
      /\ Cardinality(Marked(t, WithFixed)) = Cardinality(Marked(s, WithFixed)) - Bit(s[i] \in WithFixed)
  BY CountWithout
<1> HIDE DEF t
<1>3. Bit(s[i] \in WithCache) = Bit(s[i].kv > 0) /\ Bit(s[i] \in WithFixed) = Bit(s[i].fixed)
  BY <1>1, SetTypes DEF Bit
<1>4. /\ Stocked(t) = Marked(t, WithCache) /\ FixedIn(t) = Marked(t, WithFixed)
      /\ Stocked(s) = Marked(s, WithCache) /\ FixedIn(s) = Marked(s, WithFixed)
  BY <1>1, CountsOfSets
<1>5. /\ Cardinality(Stocked(t)) = Cardinality(Stocked(s)) - Bit(s[i].kv > 0)
      /\ Cardinality(FixedIn(t)) = Cardinality(FixedIn(s)) - Bit(s[i].fixed)
  BY <1>2, <1>3, <1>4
<1> QED  BY <1>1, <1>5 DEF t

-----------------------------------------------------------------------------
(* What the pool's operations do to the accounts.                          *)

LEMMA PoolParts ==
  ASSUME NEW p, Good(p)
  PROVE  /\ p.sets \in Seq(Sets) /\ p.spares \in Seq(1..Top)
         /\ p.live \in Int /\ p.made \in Int /\ p.cap \in Nat
         /\ p.size \in {FirstSize} \cup LaterSizes /\ p.moved \in BOOLEAN
         /\ p.mark \in Nat /\ p.open \in BOOLEAN
         /\ Len(p.sets) \in Nat /\ Len(p.sets) <= PoolCap
         /\ Len(p.spares) \in Nat /\ Len(p.spares) <= SpareMax
         /\ Cardinality(Stocked(p.sets)) \in Nat /\ Cardinality(FixedIn(p.sets)) \in Nat
         /\ Held(p) \in Int /\ Booked(p) \in Int
<1>1. /\ p.sets \in Seq(Sets) /\ p.spares \in Seq(1..Top)
      /\ p.live \in Int /\ p.made \in Int /\ p.cap \in Nat
      /\ p.size \in {FirstSize} \cup LaterSizes /\ p.moved \in BOOLEAN
      /\ p.mark \in Nat /\ p.open \in BOOLEAN
  BY DEF Good, PoolType
<1>2. /\ Len(p.sets) \in Nat /\ Len(p.sets) <= PoolCap
      /\ Len(p.spares) \in Nat /\ Len(p.spares) <= SpareMax
  BY <1>1, LenProperties DEF Good
<1>3. Cardinality(Stocked(p.sets)) \in Nat /\ Cardinality(FixedIn(p.sets)) \in Nat
  BY <1>1, CountsOfSets
<1> QED  BY <1>1, <1>2, <1>3 DEF Held, Booked

LEMMA MovesInTurn ==
  ASSUME NEW p, NEW q, NEW r, NEW a \in Int, NEW b \in Int, NEW c \in Int, NEW d \in Int,
         Good(p), Moves(p, q, a, b), Moves(q, r, c, d)
  PROVE  Moves(p, r, a + c, b + d)
<1>1. Held(p) \in Int /\ Booked(p) \in Int
  BY PoolParts
<1> QED  BY <1>1 DEF Moves

\* A record with other counts, or with other lists.
LEMMA CountsMoved ==
  ASSUME NEW p, Good(p), NEW a \in Int, NEW b \in Int
  PROVE  Moves(p, [p EXCEPT !.made = @ + a, !.live = @ + b], a, b)
<1> DEFINE q == [p EXCEPT !.made = @ + a, !.live = @ + b]
<1>1. /\ q.sets = p.sets /\ q.spares = p.spares /\ q.open = p.open
      /\ q.made = p.made + a /\ q.live = p.live + b
  BY DEF Good, PoolType
<1>2. q \in PoolType
  <2>1. p \in PoolType /\ p.made + a \in Int /\ p.live + b \in Int
    BY PoolParts DEF Good
  <2> QED  BY <2>1 DEF PoolType
<1> HIDE DEF q
<1>3. Good(q)
  BY <1>1, <1>2 DEF Good
<1>4. Held(q) = Held(p) + a /\ Booked(q) = Booked(p) + b
  <2>1. /\ p.made \in Int /\ p.live \in Int /\ Len(p.spares) \in Nat
        /\ Cardinality(Stocked(p.sets)) \in Nat /\ Cardinality(FixedIn(p.sets)) \in Nat
    BY PoolParts
  <2>2. /\ Held(p) = p.made - Cardinality(Stocked(p.sets)) - Len(p.spares)
        /\ Held(q) = (p.made + a) - Cardinality(Stocked(p.sets)) - Len(p.spares)
        /\ Booked(p) = p.live - Cardinality(FixedIn(p.sets)) - Len(p.spares)
        /\ Booked(q) = (p.live + b) - Cardinality(FixedIn(p.sets)) - Len(p.spares)
    BY <1>1, Zenon DEF Held, Booked
  <2>3. Held(q) = Held(p) + a
    BY <2>1, <2>2
  <2>4. Booked(q) = Booked(p) + b
    BY <2>1, <2>2
  <2> QED  BY <2>3, <2>4
<1> QED  BY <1>1, <1>3, <1>4 DEF Moves, q

LEMMA CountedOnce ==
  ASSUME NEW p, Good(p)
  PROVE  /\ Moves(p, Allocated(p), 1, 0) /\ Moves(p, Freed(p), -1, 0)
         /\ Moves(p, Adopt(p), 0, 1) /\ Moves(p, Gone(p), 0, -1)
         /\ Moves(p, Adopt(Allocated(p)), 1, 1) /\ Moves(p, Gone(Freed(p)), -1, -1)
<1>1. /\ p.made - 1 = p.made + (-1) /\ p.live - 1 = p.live + (-1)
      /\ p.made = p.made + 0 /\ p.live = p.live + 0
  BY PoolParts
<1>2. /\ Allocated(p) = [p EXCEPT !.made = @ + 1, !.live = @ + 0]
      /\ Freed(p) = [p EXCEPT !.made = @ + (-1), !.live = @ + 0]
  BY <1>1 DEF Good, PoolType, Allocated, Freed
<1>3. /\ Adopt(p) = [p EXCEPT !.made = @ + 0, !.live = @ + 1]
      /\ Gone(p) = [p EXCEPT !.made = @ + 0, !.live = @ + (-1)]
  BY <1>1 DEF Good, PoolType, Adopt, Gone
<1>4. /\ Adopt(Allocated(p)) = [p EXCEPT !.made = @ + 1, !.live = @ + 1]
      /\ Gone(Freed(p)) = [p EXCEPT !.made = @ + (-1), !.live = @ + (-1)]
  BY <1>1 DEF Good, PoolType, Allocated, Freed, Adopt, Gone
<1>5. 0 \in Int /\ 1 \in Int /\ -1 \in Int
  OBVIOUS
<1>6. \A a, b \in {-1, 0, 1} : Moves(p, [p EXCEPT !.made = @ + a, !.live = @ + b], a, b)
  BY <1>5, CountsMoved
<1> QED  BY <1>2, <1>3, <1>4, <1>6

LEMMA Unmoved ==
  ASSUME NEW p, Good(p)
  PROVE  Moves(p, p, 0, 0)
BY PoolParts DEF Moves

LEMMA CountedOrNot ==
  ASSUME NEW p, Good(p), NEW f \in BOOLEAN, NEW kv \in Nat
  PROVE  /\ Moves(p, Counted(p, f), 0, 1 - Bit(f))
         /\ Moves(p, GoneIf(p, f), 0, 0 - Bit(f)) /\ Moves(p, FreedIf(p, kv), 0 - Bit(kv > 0), 0)
         /\ Moves(p, GoneIf(FreedIf(p, kv), f), 0 - Bit(kv > 0), 0 - Bit(f))
         /\ Moves(p, GoneIf(Freed(p), f), -1, 0 - Bit(f))
<1>1. Bit(f) \in {0, 1} /\ Bit(kv > 0) \in {0, 1}
  BY DEF Bit
<1>2. Moves(p, Counted(p, f), 0, 1 - Bit(f))
  <2>1. CASE f
    BY <2>1, Unmoved DEF Counted, Bit
  <2>2. CASE ~f
    BY <2>2, CountedOnce DEF Counted, Bit
  <2> QED  BY <2>1, <2>2
<1>3. ASSUME NEW q, Good(q)  PROVE Moves(q, GoneIf(q, f), 0, 0 - Bit(f))
  <2>1. CASE f
    BY <1>3, <2>1, CountedOnce DEF GoneIf, Bit
  <2>2. CASE ~f
    BY <1>3, <2>2, Unmoved DEF GoneIf, Bit
  <2> QED  BY <2>1, <2>2
<1>4. Moves(p, FreedIf(p, kv), 0 - Bit(kv > 0), 0)
  <2>1. CASE kv > 0
    BY <2>1, CountedOnce DEF FreedIf, Bit
  <2>2. CASE ~(kv > 0)
    BY <2>2, Unmoved DEF FreedIf, Bit
  <2> QED  BY <2>1, <2>2
<1>5. Moves(p, GoneIf(FreedIf(p, kv), f), 0 - Bit(kv > 0), 0 - Bit(f))
  <2>1. Moves(FreedIf(p, kv), GoneIf(FreedIf(p, kv), f), 0, 0 - Bit(f))
    BY <1>3, <1>4 DEF Moves
  <2>2. Moves(p, GoneIf(FreedIf(p, kv), f), 0 - Bit(kv > 0) + 0, 0 - Bit(f))
    BY <1>1, <1>4, <2>1, MovesInTurn
  <2> QED  BY <1>1, <2>2
<1>6. Moves(p, GoneIf(Freed(p), f), -1, 0 - Bit(f))
  <2>1. Moves(p, Freed(p), -1, 0)
    BY CountedOnce
  <2>2. Moves(Freed(p), GoneIf(Freed(p), f), 0, 0 - Bit(f))
    BY <1>3, <2>1 DEF Moves
  <2>3. Moves(p, GoneIf(Freed(p), f), -1 + 0, 0 - Bit(f))
    BY <1>1, <2>1, <2>2, MovesInTurn
  <2> QED  BY <1>1, <2>3
<1> QED  BY <1>2, <1>3, <1>4, <1>5, <1>6

\* Other parked sets: the caches they gained, the rows have no more.
LEMMA SetsMoved ==
  ASSUME NEW p, Good(p), NEW t \in Seq(Sets), Len(t) <= PoolCap
  PROVE  Moves(p, [p EXCEPT !.sets = t],
               Cardinality(Stocked(p.sets)) - Cardinality(Stocked(t)),
               Cardinality(FixedIn(p.sets)) - Cardinality(FixedIn(t)))
<1> DEFINE q == [p EXCEPT !.sets = t]
<1>1. /\ q.sets = t /\ q.spares = p.spares /\ q.open = p.open
      /\ q.made = p.made /\ q.live = p.live
  BY DEF Good, PoolType
<1>2. q \in PoolType
  BY DEF Good, PoolType
<1> HIDE DEF q
<1>3. Good(q)
  BY <1>1, <1>2 DEF Good
<1>4. Cardinality(Stocked(t)) \in Nat /\ Cardinality(FixedIn(t)) \in Nat
  BY CountsOfSets
<1>5. /\ Held(q) = Held(p) + (Cardinality(Stocked(p.sets)) - Cardinality(Stocked(t)))
      /\ Booked(q) = Booked(p) + (Cardinality(FixedIn(p.sets)) - Cardinality(FixedIn(t)))
  <2>1. /\ p.made \in Int /\ p.live \in Int /\ Len(p.spares) \in Nat
        /\ Cardinality(Stocked(p.sets)) \in Nat /\ Cardinality(FixedIn(p.sets)) \in Nat
    BY PoolParts
  <2>2. /\ Held(p) = p.made - Cardinality(Stocked(p.sets)) - Len(p.spares)
        /\ Held(q) = p.made - Cardinality(Stocked(t)) - Len(p.spares)
        /\ Booked(p) = p.live - Cardinality(FixedIn(p.sets)) - Len(p.spares)
        /\ Booked(q) = p.live - Cardinality(FixedIn(t)) - Len(p.spares)
    BY <1>1, Zenon DEF Held, Booked
  <2>3. Held(q) = Held(p) + (Cardinality(Stocked(p.sets)) - Cardinality(Stocked(t)))
    BY <1>4, <2>1, <2>2
  <2>4. Booked(q) = Booked(p) + (Cardinality(FixedIn(p.sets)) - Cardinality(FixedIn(t)))
    BY <1>4, <2>1, <2>2
  <2> QED  BY <2>3, <2>4
<1> QED  BY <1>1, <1>3, <1>5 DEF Moves, q

LEMMA SparesMoved ==
  ASSUME NEW p, Good(p), NEW t \in Seq(1..Top), Len(t) <= SpareMax
  PROVE  Moves(p, [p EXCEPT !.spares = t], Len(p.spares) - Len(t), Len(p.spares) - Len(t))
<1> DEFINE q == [p EXCEPT !.spares = t]
<1>1. /\ q.sets = p.sets /\ q.spares = t /\ q.open = p.open
      /\ q.made = p.made /\ q.live = p.live
  BY DEF Good, PoolType
<1>2. q \in PoolType
  BY DEF Good, PoolType
<1> HIDE DEF q
<1>3. Good(q)
  BY <1>1, <1>2 DEF Good
<1>4. Len(t) \in Nat
  OBVIOUS
<1>5. /\ Held(q) = Held(p) + (Len(p.spares) - Len(t))
      /\ Booked(q) = Booked(p) + (Len(p.spares) - Len(t))
  <2>1. /\ p.made \in Int /\ p.live \in Int /\ Len(p.spares) \in Nat
        /\ Cardinality(Stocked(p.sets)) \in Nat /\ Cardinality(FixedIn(p.sets)) \in Nat
    BY PoolParts
  <2> QED  BY <1>1, <1>4, <2>1 DEF Held, Booked
<1> QED  BY <1>1, <1>3, <1>5 DEF Moves, q

\* A list of sets of which no two places differ in what is counted.
LEMMA CountsAlike ==
  ASSUME NEW s \in Seq(Sets), NEW t, Len(t) = Len(s), DOMAIN t = Indices(s),
         \A i \in Indices(s) : /\ t[i] \in Sets /\ t[i].kv = s[i].kv
                               /\ t[i].fixed = s[i].fixed
  PROVE  /\ Cardinality(Stocked(t)) = Cardinality(Stocked(s))
         /\ Cardinality(FixedIn(t)) = Cardinality(FixedIn(s))
<1>1. Stocked(t) = Stocked(s) /\ FixedIn(t) = FixedIn(s)
  BY DEF Stocked, FixedIn, Indices
<1> QED  BY <1>1, Zenon

LEMMA ListOfSets ==
  ASSUME NEW S, NEW n \in Nat, NEW t \in [1..n -> S]
  PROVE  t \in Seq(S) /\ Len(t) = n
<1>1. t \in Seq(S)
  BY SeqDef
<1> QED  BY <1>1, LenProperties

LEMMA QuietMoves ==
  ASSUME NEW p, Good(p)
  PROVE  Moves(p, Quiet(p), 0, 0) /\ Len(Quiet(p).sets) = Len(p.sets)
<1> DEFINE t == [i \in Indices(p.sets) |-> [p.sets[i] EXCEPT !.busy = FALSE]]
<1>1. p.sets \in Seq(Sets) /\ Len(p.sets) \in Nat /\ Len(p.sets) <= PoolCap
  BY PoolParts
<1>2. \A i \in Indices(p.sets) : /\ t[i] \in Sets /\ t[i].kv = p.sets[i].kv
                                 /\ t[i].fixed = p.sets[i].fixed
  <2>1. \A i \in Indices(p.sets) : p.sets[i] \in Sets
    BY <1>1, ElementOfSeq DEF Indices
  <2> QED  BY <2>1 DEF Sets
<1>3. DOMAIN t = Indices(p.sets)
  OBVIOUS
<1>4. t \in Seq(Sets) /\ Len(t) = Len(p.sets)
  <2>1. t \in [1..Len(p.sets) -> Sets]
    BY <1>2 DEF Indices
  <2> HIDE DEF t
  <2> QED  BY <1>1, <2>1, ListOfSets
<1>5. Quiet(p) = [p EXCEPT !.sets = t] /\ Quiet(p).sets = t
  BY DEF Quiet, Good, PoolType
<1> HIDE DEF t
<1>6. /\ Cardinality(Stocked(t)) = Cardinality(Stocked(p.sets))
      /\ Cardinality(FixedIn(t)) = Cardinality(FixedIn(p.sets))
  BY <1>1, <1>2, <1>3, <1>4, CountsAlike
<1>7. Moves(p, Quiet(p), Cardinality(Stocked(p.sets)) - Cardinality(Stocked(t)),
            Cardinality(FixedIn(p.sets)) - Cardinality(FixedIn(t)))
  BY <1>1, <1>4, <1>5, SetsMoved
<1> QED  BY <1>4, <1>5, <1>6, <1>7, PoolParts

\* A cache set aside leaves the rows for a parked set or the spare list.
LEMMA StashMoves ==
  ASSUME NEW p, Good(p), NEW kv \in 1..Top, NEW node \in BOOLEAN, Placed(p, node)
  PROVE  Moves(p, Stash(p, kv), -1, -1) /\ Len(Stash(p, kv).sets) = Len(p.sets)
<1>1. /\ p.sets \in Seq(Sets) /\ p.spares \in Seq(1..Top)
      /\ Len(p.sets) \in Nat /\ Len(p.sets) <= PoolCap
      /\ Len(p.spares) \in Nat /\ Len(p.spares) <= SpareMax
      /\ Cardinality(Stocked(p.sets)) \in Nat /\ Cardinality(FixedIn(p.sets)) \in Nat
  BY PoolParts
<1>2. CASE Holes(p) # {}
  <2> DEFINE i == Least(Holes(p))
             x == [p.sets[i] EXCEPT !.kv = kv, !.fixed = TRUE]
             t == [p.sets EXCEPT ![i] = x]
  <2>1. i \in Holes(p)
    <3>1. Holes(p) \in SUBSET Nat
      BY DEF Holes, Indices
    <3> QED  BY <1>2, <3>1, LeastOfNumbers
  <2>2. i \in Indices(p.sets) /\ p.sets[i].kv = 0 /\ p.sets[i] \in Sets
    <3>1. i \in Indices(p.sets) /\ p.sets[i].kv = 0
      BY <2>1 DEF Holes
    <3> QED  BY <1>1, <3>1, ElementOfSeq DEF Indices
  <2>3. ~p.sets[i].fixed
    BY <2>2, SetTypes
  <2>4. Stash(p, kv) = [p EXCEPT !.sets = t]
    <3>1. Stash(p, kv) = [p EXCEPT !.sets[i].kv = kv, !.sets[i].fixed = TRUE]
      BY <1>2 DEF Stash
    <3>2. p.sets \in [Indices(p.sets) -> Sets] /\ p \in PoolType
      BY <1>1, LenProperties DEF Good, Indices
    <3> HIDE DEF i
    <3> QED  BY <2>2, <3>1, <3>2 DEF PoolType, Sets
  <2>5. Stash(p, kv).sets = t
    BY <2>4 DEF Good, PoolType
  <2> HIDE DEF i
  <2>6. x \in Sets /\ x.kv > 0 /\ x.fixed
    <3>1. kv > 0
      BY SizesFit
    <3> QED  BY <2>2, <3>1, SetFilled
  <2>7. Bit(x.kv > 0) = 1 /\ Bit(x.fixed) = 1 /\ Bit(p.sets[i].kv > 0) = 0 /\ Bit(p.sets[i].fixed) = 0
    <3>1. ~(p.sets[i].kv > 0)
      BY <2>2
    <3> QED  BY <2>3, <2>6, <3>1 DEF Bit
  <2> HIDE DEF x
  <2>8. /\ t \in Seq(Sets) /\ Len(t) = Len(p.sets)
        /\ Cardinality(Stocked(t)) = Cardinality(Stocked(p.sets)) + 1
        /\ Cardinality(FixedIn(t)) = Cardinality(FixedIn(p.sets)) + 1
    <3>1. /\ t \in Seq(Sets) /\ Len(t) = Len(p.sets)
          /\ Cardinality(Stocked(t)) =
               Cardinality(Stocked(p.sets)) - Bit(p.sets[i].kv > 0) + Bit(x.kv > 0)
          /\ Cardinality(FixedIn(t)) =
               Cardinality(FixedIn(p.sets)) - Bit(p.sets[i].fixed) + Bit(x.fixed)
      BY <1>1, <2>2, <2>6, SetsUpdated
    <3> QED  BY <1>1, <2>7, <3>1
  <2> HIDE DEF t
  <2>9. Moves(p, Stash(p, kv), Cardinality(Stocked(p.sets)) - Cardinality(Stocked(t)),
              Cardinality(FixedIn(p.sets)) - Cardinality(FixedIn(t)))
    BY <1>1, <2>4, <2>8, SetsMoved
  <2>10. /\ Cardinality(Stocked(p.sets)) - Cardinality(Stocked(t)) = -1
         /\ Cardinality(FixedIn(p.sets)) - Cardinality(FixedIn(t)) = -1
    BY <1>1, <2>8
  <2> QED  BY <2>5, <2>8, <2>9, <2>10
<1>3. CASE Holes(p) = {}
  <2> DEFINE t == <<kv>> \o p.spares
  <2>1. Len(p.spares) < SpareMax
    BY <1>3 DEF Placed
  <2>2. t \in Seq(1..Top) /\ Len(t) = Len(p.spares) + 1
    BY <1>1
  <2>3. Stash(p, kv) = [p EXCEPT !.spares = t] /\ Stash(p, kv).sets = p.sets
    BY <1>3 DEF Stash, Good, PoolType
  <2> HIDE DEF t
  <2>4. Len(t) <= SpareMax
    BY <1>1, <2>1, <2>2, BoundsAreNat
  <2>5. Moves(p, Stash(p, kv), Len(p.spares) - Len(t), Len(p.spares) - Len(t))
    BY <2>2, <2>3, <2>4, SparesMoved
  <2>6. Len(p.spares) - Len(t) = -1
    BY <1>1, <2>2
  <2> QED  BY <2>3, <2>5, <2>6
<1> QED  BY <1>2, <1>3

LEMMA StashOrFreeMoves ==
  ASSUME NEW p, Good(p), NEW kv \in 1..Top, NEW node \in BOOLEAN
  PROVE  Moves(p, StashOrFree(p, kv, node), -1, -1)
BY StashMoves, CountedOnce DEF StashOrFree

\* The spare found is large enough.
LEMMA SpareFits ==
  ASSUME NEW p, Good(p), NEW least \in Nat, NEW want \in Nat
  PROVE  LET i == Spare(p, least, want) IN
         i \in Nat /\ (i > 0 => i \in Indices(p.spares) /\ p.spares[i] >= least)
<1> DEFINE Big == {i \in Indices(p.spares) : p.spares[i] >= least}
           Full == {i \in Big : p.spares[i] >= want}
           Tight == {i \in Full : \A j \in Full : p.spares[i] <= p.spares[j]}
           Large == {i \in Big : \A j \in Big : p.spares[i] >= p.spares[j]}
<1>1. p.spares \in Seq(1..Top) /\ Len(p.spares) \in Nat
  BY PoolParts
<1>2. \A i \in Indices(p.spares) : p.spares[i] \in 0..Top /\ p.spares[i] \in Nat
  BY <1>1, ElementOfSeq, SizesFit DEF Indices
<1>3. Big \subseteq Indices(p.spares) /\ Full \subseteq Big /\ Indices(p.spares) \subseteq Nat \ {0}
  BY <1>1 DEF Indices
<1>4. CASE Full # {}
  <2>1. \E i \in Full : \A j \in Full : p.spares[i] <= p.spares[j]
    <3>1. \A i \in Full : p.spares[i] \in Nat
      BY <1>2, <1>3
    <3> HIDE DEF Full
    <3> QED  BY <1>4, <3>1, SomeSmallest
  <2>2. Tight # {} /\ Tight \in SUBSET Nat
    BY <1>3, <2>1
  <2>3. Least(Tight) \in Tight
    <3> HIDE DEF Tight
    <3> QED  BY <2>2, LeastOfNumbers
  <2>4. Spare(p, least, want) = Least(Tight)
    BY <1>4, Zenon DEF Spare
  <2>5. Least(Tight) \in Big
    BY <2>3
  <2> HIDE DEF Tight, Full
  <2> QED  BY <1>3, <2>4, <2>5
<1>5. CASE Full = {} /\ Big # {}
  <2>1. \E i \in Big : \A j \in Big : p.spares[i] >= p.spares[j]
    <3>1. \A i \in Big : p.spares[i] \in 0..Top
      BY <1>2, <1>3
    <3> HIDE DEF Big, Full
    <3> QED  BY <1>5, <3>1, SomeLargest, SizesFit
  <2>2. Large # {} /\ Large \in SUBSET Nat
    BY <1>3, <2>1
  <2>3. Least(Large) \in Large
    <3> HIDE DEF Large
    <3> QED  BY <2>2, LeastOfNumbers
  <2>4. Spare(p, least, want) = Least(Large)
    BY <1>5, Zenon DEF Spare
  <2>5. Least(Large) \in Big
    BY <2>3
  <2> HIDE DEF Large, Full
  <2> QED  BY <1>3, <2>4, <2>5
<1>6. CASE Full = {} /\ Big = {}
  <2>1. Spare(p, least, want) = 0
    BY <1>6, Zenon DEF Spare
  <2> QED  BY <2>1
<1> QED  BY <1>4, <1>5, <1>6

LEMMA SpareTakenMoves ==
  ASSUME NEW p, Good(p), NEW i \in Indices(p.spares)
  PROVE  Moves(p, SpareTaken(p, i), 1, 1) /\ p.spares[i] \in 1..Top
<1>1. p.spares \in Seq(1..Top) /\ Len(p.spares) \in Nat /\ Len(p.spares) <= SpareMax
  BY PoolParts
<1>2. Without(p.spares, i) \in Seq(1..Top) /\ Len(Without(p.spares, i)) = Len(p.spares) - 1
  BY <1>1, WithoutOne
<1>3. Len(Without(p.spares, i)) <= SpareMax
  BY <1>1, <1>2, BoundsAreNat
<1>4. Moves(p, SpareTaken(p, i), Len(p.spares) - Len(Without(p.spares, i)),
            Len(p.spares) - Len(Without(p.spares, i)))
  BY <1>2, <1>3, SparesMoved DEF SpareTaken
<1>5. Len(p.spares) - Len(Without(p.spares, i)) = 1
  BY <1>1, <1>2
<1> QED  BY <1>1, <1>4, <1>5, ElementOfSeq DEF Indices

\* The parked set found holds a fixed cache that is large enough.
LEMMA DonorFits ==
  ASSUME NEW p, Good(p), NEW least \in Nat
  PROVE  LET d == Donor(p, least) IN
         d \in Nat /\ (d > 0 => d \in Indices(p.sets) /\ p.sets[d].fixed /\ p.sets[d].kv >= least)
<1> DEFINE Can == {i \in Indices(p.sets) : p.sets[i].fixed /\ p.sets[i].kv >= least}
           kv == [i \in Indices(p.sets) |-> p.sets[i].kv]
           Tight == {i \in Can : \A j \in Can : p.sets[i].kv <= p.sets[j].kv}
<1>1. p.sets \in Seq(Sets) /\ Len(p.sets) \in Nat
  BY PoolParts
<1>2. \A i \in Indices(p.sets) : p.sets[i].kv \in Nat
  BY <1>1, ElementOfSeq, SetTypes DEF Indices
<1>3. Can \subseteq Indices(p.sets) /\ Indices(p.sets) \subseteq Nat \ {0}
  BY <1>1 DEF Indices
<1>4. CASE Can # {}
  <2>1. \E i \in Can : \A j \in Can : kv[i] <= kv[j]
    <3>1. \A i \in Can : kv[i] \in Nat
      BY <1>2, <1>3
    <3> HIDE DEF Can, kv
    <3> QED  BY <1>4, <3>1, SomeSmallest
  <2>2. Tight # {} /\ Tight \in SUBSET Nat
    BY <1>3, <2>1
  <2>3. Least(Tight) \in Tight
    <3> HIDE DEF Tight
    <3> QED  BY <2>2, LeastOfNumbers
  <2>4. Donor(p, least) = Least(Tight)
    BY <1>4, Zenon DEF Donor
  <2>5. Least(Tight) \in Can
    BY <2>3
  <2> HIDE DEF Tight
  <2> QED  BY <1>3, <2>4, <2>5
<1>5. CASE Can = {}
  <2>1. Donor(p, least) = 0
    BY <1>5, Zenon DEF Donor
  <2> QED  BY <2>1
<1> QED  BY <1>4, <1>5

LEMMA DonatedMoves ==
  ASSUME NEW p, Good(p), NEW i \in Indices(p.sets), p.sets[i].fixed
  PROVE  Moves(p, Donated(p, i), 1, 1) /\ p.sets[i].kv \in 1..Top
<1> DEFINE x == [p.sets[i] EXCEPT !.kv = 0, !.fixed = FALSE]
           t == [p.sets EXCEPT ![i] = x]
<1>1. /\ p.sets \in Seq(Sets) /\ Len(p.sets) \in Nat /\ Len(p.sets) <= PoolCap
      /\ Cardinality(Stocked(p.sets)) \in Nat /\ Cardinality(FixedIn(p.sets)) \in Nat
  BY PoolParts
<1>2. p.sets[i] \in Sets
  BY <1>1, ElementOfSeq DEF Indices
<1>3. Donated(p, i) = [p EXCEPT !.sets = t]
  <2>1. p.sets \in [Indices(p.sets) -> Sets] /\ p \in PoolType
    BY <1>1, LenProperties DEF Good, Indices
  <2> QED  BY <1>2, <2>1 DEF Donated, PoolType, Sets
<1>4. p.sets[i].kv \in Nat /\ p.sets[i].kv > 0 /\ p.sets[i].kv <= Top
  BY <1>2, SetTypes
<1>5. x \in Sets /\ x.kv = 0 /\ ~x.fixed
  BY <1>2, SetEmptied
<1>6. Bit(x.kv > 0) = 0 /\ Bit(x.fixed) = 0 /\ Bit(p.sets[i].kv > 0) = 1 /\ Bit(p.sets[i].fixed) = 1
  <2>1. ~(x.kv > 0)
    BY <1>5
  <2> HIDE DEF x
  <2> QED  BY <1>4, <1>5, <2>1 DEF Bit
<1> HIDE DEF x
<1>7. /\ t \in Seq(Sets) /\ Len(t) = Len(p.sets)
      /\ Cardinality(Stocked(t)) = Cardinality(Stocked(p.sets)) - 1
      /\ Cardinality(FixedIn(t)) = Cardinality(FixedIn(p.sets)) - 1
  <2>1. /\ t \in Seq(Sets) /\ Len(t) = Len(p.sets)
        /\ Cardinality(Stocked(t)) =
             Cardinality(Stocked(p.sets)) - Bit(p.sets[i].kv > 0) + Bit(x.kv > 0)
        /\ Cardinality(FixedIn(t)) =
             Cardinality(FixedIn(p.sets)) - Bit(p.sets[i].fixed) + Bit(x.fixed)
    BY <1>1, <1>2, <1>5, SetsUpdated
  <2>2. Cardinality(Stocked(t)) = Cardinality(Stocked(p.sets)) - 1
    BY <1>1, <1>6, <2>1
  <2>3. Cardinality(FixedIn(t)) = Cardinality(FixedIn(p.sets)) - 1 + 0
    BY <1>6, <2>1, Zenon
  <2>4. Cardinality(FixedIn(t)) = Cardinality(FixedIn(p.sets)) - 1
    BY <1>1, <2>3
  <2> QED  BY <2>1, <2>2, <2>4
<1> HIDE DEF t
<1>8. Moves(p, Donated(p, i), Cardinality(Stocked(p.sets)) - Cardinality(Stocked(t)),
            Cardinality(FixedIn(p.sets)) - Cardinality(FixedIn(t)))
  BY <1>1, <1>3, <1>7, SetsMoved
<1>9. /\ Cardinality(Stocked(p.sets)) - Cardinality(Stocked(t)) = 1
      /\ Cardinality(FixedIn(p.sets)) - Cardinality(FixedIn(t)) = 1
  BY <1>1, <1>7
<1> QED  BY <1>4, <1>8, <1>9, SizesFit

-----------------------------------------------------------------------------
(* The re-plan, and what an admission is given.                            *)

LEMMA SweptMoves ==
  ASSUME NEW p, Good(p)
  PROVE  Moves(p, Swept(p), 0, 0)
<1> DEFINE s == p.sets
           t == [i \in Indices(s) |-> Sorted(p, s[i])]
           F == FixedIn(s)
           kept == {i \in Stocked(s) : Kept(p, s[i])}
           freed == Stocked(s) \ kept
           counted == [p EXCEPT !.made = @ + (0 - Cardinality(freed)),
                                !.live = @ + (Cardinality(kept \ F) - Cardinality(freed \cap F))]
<1>1. s \in Seq(Sets) /\ Len(s) \in Nat /\ Len(s) <= PoolCap /\ p.live \in Int /\ p.made \in Int
  BY PoolParts
<1>2. \A i \in Indices(s) : s[i] \in Sets
  BY <1>1, ElementOfSeq DEF Indices
<1>3. \A i \in Indices(s) : /\ t[i] \in Sets
                            /\ t[i].kv > 0 <=> i \in kept
                            /\ t[i].fixed <=> i \in kept
  <2> SUFFICES ASSUME NEW i \in Indices(s)
               PROVE  /\ Sorted(p, s[i]) \in Sets
                      /\ Sorted(p, s[i]).kv > 0 <=> i \in kept
                      /\ Sorted(p, s[i]).fixed <=> i \in kept
    OBVIOUS
  <2> DEFINE x == Sorted(p, s[i])
  <2>1. s[i] \in Sets /\ s[i].kv \in Nat
    BY <1>2, SetTypes
  <2>2. i \in kept <=> s[i].kv > 0 /\ Kept(p, s[i])
    BY DEF Stocked
  <2> HIDE DEF kept
  <2>3. CASE s[i].kv > 0 /\ Kept(p, s[i])
    <3>1. Sorted(p, s[i]) = [s[i] EXCEPT !.fixed = TRUE]
      BY <2>3, <2>1 DEF Sorted, Sets
    <3>2. [s[i] EXCEPT !.fixed = TRUE] \in Sets /\ [s[i] EXCEPT !.fixed = TRUE].fixed
      BY <2>1, <2>3 DEF Sets
    <3>3. [s[i] EXCEPT !.fixed = TRUE].kv = s[i].kv
      BY <2>1 DEF Sets
    <3>4. x \in Sets /\ x.fixed /\ x.kv = s[i].kv
      BY <3>1, <3>2, <3>3, Zenon
    <3> HIDE DEF x
    <3>5. i \in kept /\ x.kv > 0
      BY <2>2, <2>3, <3>4
    <3>6. x.kv > 0 <=> i \in kept
      BY <3>5
    <3>7. x.fixed <=> i \in kept
      BY <3>4, <3>5
    <3> QED  BY <3>4, <3>6, <3>7 DEF x
  <2>4. CASE s[i].kv > 0 /\ ~Kept(p, s[i])
    <3>1. Sorted(p, s[i]) = [s[i] EXCEPT !.kv = 0, !.fixed = FALSE]
      BY <2>1, <2>4 DEF Sorted
    <3>2. x \in Sets /\ x.kv = 0 /\ ~x.fixed
      BY <2>1, <3>1, SetEmptied
    <3> HIDE DEF x
    <3>3. i \notin kept /\ ~(x.kv > 0)
      BY <2>2, <2>4, <3>2
    <3> QED  BY <3>2, <3>3 DEF x
  <2>5. CASE ~(s[i].kv > 0)
    <3>1. s[i].kv = 0
      BY <2>1, <2>5
    <3>2. ~s[i].fixed
      BY <2>1, <2>5, SetTypes
    <3>0. (s[i].kv > 0) = FALSE
      BY <2>1, <2>5
    <3>3. Sorted(p, s[i]) = [s[i] EXCEPT !.fixed = FALSE]
      BY <3>0, <3>1, Zenon DEF Sorted
    <3>4. [s[i] EXCEPT !.fixed = FALSE] \in Sets /\ ~[s[i] EXCEPT !.fixed = FALSE].fixed
      BY <2>1 DEF Sets
    <3>5. [s[i] EXCEPT !.fixed = FALSE].kv = s[i].kv
      BY <2>1 DEF Sets
    <3> QED  BY <2>2, <2>5, <3>3, <3>4, <3>5
  <2> QED  BY <2>3, <2>4, <2>5
<1>4. t \in Seq(Sets) /\ Len(t) = Len(s)
  <2>1. t \in [1..Len(s) -> Sets]
    BY <1>3 DEF Indices
  <2> HIDE DEF t
  <2> QED  BY <1>1, <2>1, ListOfSets
<1>5. Stocked(t) = kept /\ FixedIn(t) = kept
  <2>1. kept \subseteq Indices(s) /\ Indices(t) = Indices(s)
    BY <1>4 DEF Stocked, Indices
  <2> HIDE DEF kept, t
  <2> QED  BY <1>3, <2>1 DEF Stocked, FixedIn
<1>6. /\ IsFiniteSet(Stocked(s)) /\ IsFiniteSet(F) /\ F \subseteq Stocked(s)
      /\ Cardinality(Stocked(s)) \in Nat /\ Cardinality(F) \in Nat
  BY <1>1, CountsOfSets
<1>7. /\ kept \subseteq Stocked(s) /\ IsFiniteSet(kept) /\ Cardinality(kept) \in Nat
  <2>1. kept \subseteq Stocked(s)
    OBVIOUS
  <2> QED  BY <1>6, <2>1, FS_Subset, FS_CardinalityType
<1>8. Cardinality(freed) = Cardinality(Stocked(s)) - Cardinality(kept)
  <2>1. Cardinality(Stocked(s) \ kept) = Cardinality(Stocked(s)) - Cardinality(Stocked(s) \cap kept)
    BY <1>6, <1>7, FS_Difference
  <2>2. Stocked(s) \cap kept = kept
    BY <1>7
  <2> QED  BY <2>1, <2>2
<1>9. /\ IsFiniteSet(F \cap kept) /\ Cardinality(F \cap kept) \in Nat
      /\ Cardinality(kept \ F) = Cardinality(kept) - Cardinality(F \cap kept)
  <2>1. Cardinality(kept \ F) = Cardinality(kept) - Cardinality(kept \cap F)
    BY <1>6, <1>7, FS_Difference
  <2>2. kept \cap F = F \cap kept
    OBVIOUS
  <2>3. IsFiniteSet(F \cap kept) /\ Cardinality(F \cap kept) \in Nat
    BY <1>6, FS_Intersection, FS_CardinalityType
  <2> QED  BY <2>1, <2>2, <2>3
<1>10. Cardinality(freed \cap F) = Cardinality(F) - Cardinality(F \cap kept)
  <2>1. Cardinality(F \ kept) = Cardinality(F) - Cardinality(F \cap kept)
    BY <1>6, <1>7, FS_Difference
  <2>2. freed \cap F = F \ kept
    BY <1>6
  <2> HIDE DEF freed, F, kept
  <2> QED  BY <2>1, <2>2
<1>11. Swept(p) = [counted EXCEPT !.sets = t]
  <2>1. Swept(p) = [p EXCEPT !.made = @ - Cardinality(freed),
                             !.live = @ + Cardinality(kept \ F) - Cardinality(freed \cap F),
                             !.sets = t]
    BY Zenon DEF Swept
  <2> HIDE DEF t, F, kept, freed
  <2>2. Cardinality(freed) \in Int /\ Cardinality(kept \ F) \in Int /\ Cardinality(freed \cap F) \in Int
    BY <1>6, <1>7, <1>8, <1>9, <1>10
  <2>3. p.made - Cardinality(freed) = p.made + (0 - Cardinality(freed))
    BY <1>1, <2>2
  <2>4. p.live + Cardinality(kept \ F) - Cardinality(freed \cap F)
          = p.live + (Cardinality(kept \ F) - Cardinality(freed \cap F))
    BY <1>1, <2>2
  <2>5. p \in PoolType
    BY DEF Good
  <2> QED  BY <2>1, <2>3, <2>4, <2>5 DEF PoolType
<1> HIDE DEF t, F, kept, freed, counted
<1>12. Moves(p, counted, 0 - Cardinality(freed), Cardinality(kept \ F) - Cardinality(freed \cap F))
  <2>1. 0 - Cardinality(freed) \in Int /\ Cardinality(kept \ F) - Cardinality(freed \cap F) \in Int
    BY <1>6, <1>7, <1>8, <1>9, <1>10
  <2> QED  BY <2>1, CountsMoved DEF counted
<1>13. counted.sets = s
  BY DEF Good, PoolType, counted
<1>14. Moves(counted, Swept(p), Cardinality(Stocked(s)) - Cardinality(kept), Cardinality(F) - Cardinality(kept))
  <2>1. Good(counted)
    BY <1>12 DEF Moves
  <2>2. Moves(counted, [counted EXCEPT !.sets = t],
              Cardinality(Stocked(counted.sets)) - Cardinality(Stocked(t)),
              Cardinality(FixedIn(counted.sets)) - Cardinality(FixedIn(t)))
    BY <1>1, <1>4, <2>1, SetsMoved
  <2> QED  BY <1>5, <1>11, <1>13, <2>2, Zenon DEF F
<1>15. Moves(p, Swept(p), 0 - Cardinality(freed) + (Cardinality(Stocked(s)) - Cardinality(kept)),
             (Cardinality(kept \ F) - Cardinality(freed \cap F)) + (Cardinality(F) - Cardinality(kept)))
  <2>1. /\ 0 - Cardinality(freed) \in Int /\ Cardinality(kept \ F) - Cardinality(freed \cap F) \in Int
        /\ Cardinality(Stocked(s)) - Cardinality(kept) \in Int /\ Cardinality(F) - Cardinality(kept) \in Int
    BY <1>6, <1>7, <1>8, <1>9, <1>10
  <2> QED  BY <1>12, <1>14, <2>1, MovesInTurn
<1>16. /\ 0 - Cardinality(freed) + (Cardinality(Stocked(s)) - Cardinality(kept)) = 0
       /\ (Cardinality(kept \ F) - Cardinality(freed \cap F)) + (Cardinality(F) - Cardinality(kept)) = 0
  BY <1>6, <1>7, <1>8, <1>9, <1>10
<1> QED  BY <1>15, <1>16

LEMMA MakeMoves ==
  ASSUME NEW p, Good(p), NEW kv \in 1..Top
  PROVE  Moves(p, Make(p, kv), 0, 0)
<1>1. CASE p.live < p.cap /\ Placed(p, TRUE)
  <2> DEFINE q == Adopt(Allocated(p))
  <2>1. Moves(p, q, 1, 1) /\ Good(q)
    BY CountedOnce DEF Moves
  <2>2. q.sets = p.sets /\ q.spares = p.spares
    BY DEF Adopt, Allocated, Good, PoolType
  <2>3. Placed(q, TRUE)
    BY <1>1, <2>2, Zenon DEF Placed, Holes
  <2>4. Make(p, kv) = Stash(q, kv)
    BY <1>1 DEF Make
  <2> HIDE DEF q
  <2>5. Moves(q, Make(p, kv), -1, -1)
    BY <2>1, <2>3, <2>4, StashMoves
  <2>6. Moves(p, Make(p, kv), 1 + -1, 1 + -1)
    BY <2>1, <2>5, MovesInTurn
  <2> QED  BY <2>6
<1>2. CASE ~(p.live < p.cap /\ Placed(p, TRUE))
  BY <1>2, Unmoved DEF Make
<1> QED  BY <1>1, <1>2

\* The loop of makes is a function on how many were tried: it exists, because
\* there is no least number of tries at which it would not, ...
LEMMA MakeLoop ==
  ASSUME NEW p, NEW kv, NEW n \in Nat
  PROVE  \E g : g = [i \in 0..n |-> IF i = 0 THEN p ELSE Make(g[i-1], kv)]
<1> DEFINE Loop(g, m) == g = [i \in 0..m |-> IF i = 0 THEN p ELSE Make(g[i-1], kv)]
           N == {m \in Nat : ~ \E g : Loop(g, m)}
<1> SUFFICES ASSUME N # {}  PROVE FALSE
  OBVIOUS
<1>1. PICK m \in N : \A k \in N : m <= k
  <2>1. N \in SUBSET Nat
    OBVIOUS
  <2> HIDE DEF N
  <2> QED  BY <2>1, LeastNumber
<1>2. m # 0
  <2>1. Loop([i \in 0..0 |-> p], 0)
    OBVIOUS
  <2> HIDE DEF Loop
  <2> QED  BY <2>1
<1>3. PICK g : Loop(g, m - 1)
  <2>1. m - 1 \in Nat /\ ~(m <= m - 1)
    BY <1>2
  <2> HIDE DEF Loop
  <2> QED  BY <1>1, <2>1
<1> DEFINE h == [i \in 0..m |-> IF i = m THEN Make(g[m-1], kv) ELSE g[i]]
<1>4. \A i \in 0..m : h[i] = IF i = 0 THEN p ELSE Make(h[i-1], kv)
  <2> TAKE i \in 0..m
  <2>0. \A k \in 0..(m-1) : g[k] = IF k = 0 THEN p ELSE Make(g[k-1], kv)
    BY <1>3
  <2>1. CASE i = 0
    BY <1>2, <2>0, <2>1
  <2>2. CASE i = m
    <3>1. h[m] = Make(g[m-1], kv)
      OBVIOUS
    <3>2. m - 1 \in 0..m /\ m - 1 # m
      BY <1>2
    <3>3. h[m-1] = g[m-1]
      BY <3>2
    <3> HIDE DEF h
    <3> QED  BY <1>2, <2>2, <3>1, <3>3
  <2>3. CASE i # 0 /\ i # m
    <3>1. i \in 0..(m-1) /\ i - 1 \in 0..m /\ i - 1 # m
      BY <2>3
    <3>2. h[i] = g[i] /\ h[i-1] = g[i-1]
      BY <2>3, <3>1
    <3>3. g[i] = Make(g[i-1], kv)
      BY <2>0, <2>3, <3>1
    <3> HIDE DEF h
    <3> QED  BY <2>3, <3>2, <3>3
  <2> QED  BY <2>1, <2>2, <2>3
<1>5. Loop(h, m)
  <2>1. h = [i \in 0..m |-> h[i]]
    OBVIOUS
  <2> HIDE DEF h
  <2>2. [i \in 0..m |-> h[i]] = [i \in 0..m |-> IF i = 0 THEN p ELSE Make(h[i-1], kv)]
    BY <1>4
  <2> QED  BY <2>1, <2>2
<1> HIDE DEF Loop
<1> QED  BY <1>1, <1>5

\* ... and no least one after which it would have changed the accounts.
LEMMA MakeSomeMoves ==
  ASSUME NEW p, Good(p), NEW kv \in 1..Top, NEW n \in Nat
  PROVE  Moves(p, MakeSome(p, n, kv), 0, 0)
<1> DEFINE f[i \in 0..n] == IF i = 0 THEN p ELSE Make(f[i-1], kv)
           N == {m \in Nat : m <= n /\ ~Moves(p, f[m], 0, 0)}
<1>1. f = [i \in 0..n |-> IF i = 0 THEN p ELSE Make(f[i-1], kv)]
  BY MakeLoop
<1>2. MakeSome(p, n, kv) = f[n]
  BY DEF MakeSome
<1> HIDE DEF f
<1> SUFFICES ASSUME N # {}  PROVE FALSE
  BY <1>2
<1>3. PICK m \in N : \A k \in N : m <= k
  <2>1. N \in SUBSET Nat
    OBVIOUS
  <2> HIDE DEF N
  <2> QED  BY <2>1, LeastNumber
<1>4. m \in Nat /\ m <= n /\ ~Moves(p, f[m], 0, 0)
  OBVIOUS
<1>5. m # 0
  <2>1. f[0] = p
    BY <1>1
  <2> QED  BY <1>4, <2>1, Unmoved
<1>6. Moves(p, f[m-1], 0, 0)
  BY <1>3, <1>4, <1>5
<1>7. f[m] = Make(f[m-1], kv)
  BY <1>1, <1>4, <1>5
<1>8. Moves(f[m-1], f[m], 0, 0)
  BY <1>6, <1>7, MakeMoves DEF Moves
<1>9. Moves(p, f[m], 0 + 0, 0 + 0)
  BY <1>6, <1>8, MovesInTurn
<1> QED  BY <1>4, <1>9

\* A pool with other limits.
LEMMA LimitsMoved ==
  ASSUME NEW p, Good(p), NEW mark \in Nat, NEW cap \in Nat
  PROVE  /\ Moves(p, [p EXCEPT !.mark = mark], 0, 0)
         /\ Moves(p, [p EXCEPT !.cap = cap], 0, 0)
<1>1. ASSUME NEW q, q \in PoolType, q.sets = p.sets, q.spares = p.spares, q.open = p.open,
             q.made = p.made, q.live = p.live
      PROVE  Moves(p, q, 0, 0)
  <2>1. Good(q)
    BY <1>1 DEF Good
  <2>2. Held(q) = Held(p) /\ Booked(q) = Booked(p)
    BY <1>1, Zenon DEF Held, Booked
  <2>3. Held(p) + 0 = Held(p) /\ Booked(p) + 0 = Booked(p)
    BY PoolParts
  <2> QED  BY <1>1, <2>1, <2>2, <2>3 DEF Moves
<1>2. Moves(p, [p EXCEPT !.mark = mark], 0, 0)
  <2> DEFINE q == [p EXCEPT !.mark = mark]
  <2>1. /\ q \in PoolType /\ q.sets = p.sets /\ q.spares = p.spares /\ q.open = p.open
        /\ q.made = p.made /\ q.live = p.live
    BY DEF Good, PoolType
  <2> HIDE DEF q
  <2> QED  BY <1>1, <2>1 DEF q
<1>3. Moves(p, [p EXCEPT !.cap = cap], 0, 0)
  <2> DEFINE q == [p EXCEPT !.cap = cap]
  <2>1. /\ q \in PoolType /\ q.sets = p.sets /\ q.spares = p.spares /\ q.open = p.open
        /\ q.made = p.made /\ q.live = p.live
    BY DEF Good, PoolType
  <2> HIDE DEF q
  <2> QED  BY <1>1, <2>1 DEF q
<1> QED  BY <1>2, <1>3

LEMMA StocksMove ==
  ASSUME NEW p, Good(p), NEW h \in Nat, NEW n \in Nat
  PROVE  Moves(p, Stocks(p, h, n), 0, 0)
<1> DEFINE q == MakeSome(p, h, p.size)
<1>1. p.size \in 1..Top /\ Band(p) \in 1..Top
  <2>1. p.size \in {FirstSize} \cup LaterSizes
    BY PoolParts
  <2>2. p.size \in Nat /\ 1 <= p.size /\ p.size + Chunk <= Top /\ Chunk \in Nat /\ Top \in Nat
    BY <2>1, SizesFit, BoundsAreNat
  <2>3. Band(p) = p.size + Chunk
    BY DEF Band
  <2> QED  BY <2>2, <2>3
<1>2. Moves(p, q, 0, 0) /\ Good(q)
  BY <1>1, MakeSomeMoves DEF Moves
<1> HIDE DEF q
<1>3. Moves(q, MakeSome(q, n, Band(p)), 0, 0)
  BY <1>1, <1>2, MakeSomeMoves
<1>4. Moves(p, MakeSome(q, n, Band(p)), 0 + 0, 0 + 0)
  BY <1>2, <1>3, MovesInTurn
<1> QED  BY <1>4 DEF Stocks, q

\* A pool swept at a mark, and the spares it is short of.
Remarked(p) == [Swept(Quiet(p)) EXCEPT !.mark = marks]
Short(p) == IF Reserve > Len(p.spares) THEN Reserve - Len(p.spares) ELSE 0

LEMMA ReplansAre ==
  ASSUME NEW p
  PROVE  Replans(p) = {Remarked(p)} \cup
           {Stocks([Remarked(p) EXCEPT !.cap = Refit(Remarked(p), budget)], h, n) :
              budget \in Budgets, h \in 0..Cardinality(Holes(Remarked(p))), n \in 0..Short(p)}
BY DEF Replans, Remarked, Short

LEMMA ReplansMove ==
  ASSUME NEW p, Good(p), Booked(p) \in Nat, marks \in Nat, NEW q, q \in Replans(p)
  PROVE  Moves(p, q, 0, 0)
<1> DEFINE swept == Remarked(p)
           planned(budget) == [swept EXCEPT !.cap = Refit(swept, budget)]
<1>1. Moves(p, swept, 0, 0)
  <2>1. Moves(p, Quiet(p), 0, 0)
    BY QuietMoves
  <2>2. Moves(Quiet(p), Swept(Quiet(p)), 0, 0)
    BY <2>1, SweptMoves DEF Moves
  <2>3. Moves(p, Swept(Quiet(p)), 0 + 0, 0 + 0)
    BY <2>1, <2>2, MovesInTurn
  <2>4. Moves(Swept(Quiet(p)), swept, 0, 0)
    BY <2>2, LimitsMoved DEF Moves, Remarked
  <2>5. Moves(p, Swept(Quiet(p)), 0, 0)
    BY <2>3
  <2> HIDE DEF swept
  <2>6. Moves(p, swept, 0 + 0, 0 + 0)
    BY <2>5, <2>4, MovesInTurn
  <2> QED  BY <2>6
<1> HIDE DEF swept
<1>2. \/ q = swept
      \/ \E budget \in Budgets : \E h \in 0..Cardinality(Holes(swept)) : \E n \in 0..Short(p) :
           q = Stocks(planned(budget), h, n)
  BY ReplansAre DEF swept
<1>3. ASSUME NEW budget \in Budgets, NEW h \in 0..Cardinality(Holes(swept)), NEW n \in 0..Short(p),
             q = Stocks(planned(budget), h, n)
      PROVE  Moves(p, q, 0, 0)
  <2>1. Good(swept) /\ Booked(swept) \in Nat
    BY <1>1, PoolParts DEF Moves
  <2>2. Refit(swept, budget) \in Nat
    <3>1. /\ Booked(swept) = swept.live - Cardinality(FixedIn(swept.sets)) - Len(swept.spares)
          /\ Cardinality(FixedIn(swept.sets)) \in Nat /\ Len(swept.spares) \in Nat /\ swept.live \in Int
      BY <2>1, PoolParts DEF Booked
    <3>2. swept.live \in Nat
      BY <2>1, <3>1
    <3> QED  BY <3>2, BoundsAreNat DEF Refit
  <2>3. Moves(swept, planned(budget), 0, 0)
    BY <2>1, <2>2, LimitsMoved, 0 \in Nat
  <2>4. h \in Nat /\ n \in Nat
    OBVIOUS
  <2> HIDE DEF planned
  <2>5. Moves(planned(budget), q, 0, 0)
    BY <1>3, <2>3, <2>4, StocksMove DEF Moves
  <2>6. Moves(p, planned(budget), 0 + 0, 0 + 0)
    BY <1>1, <2>3, MovesInTurn
  <2>7. Moves(p, planned(budget), 0, 0)
    BY <2>6
  <2>8. Moves(p, q, 0 + 0, 0 + 0)
    BY <2>7, <2>5, MovesInTurn
  <2> QED  BY <2>8
<1> HIDE DEF planned
<1> QED  BY <1>1, <1>2, <1>3

LEMMA AdaptsMove ==
  ASSUME NEW p, Good(p), NEW q \in Adapts(p)
  PROVE  Moves(p, q, 0, 0)
<1>1. CASE q = p
  BY <1>1, Unmoved
<1>2. CASE \E s \in LaterSizes : q = [p EXCEPT !.size = s, !.moved = TRUE]
  <2>1. /\ q \in PoolType /\ q.sets = p.sets /\ q.spares = p.spares /\ q.open = p.open
        /\ q.made = p.made /\ q.live = p.live
    BY <1>2 DEF Good, PoolType
  <2>2. Good(q)
    BY <2>1 DEF Good
  <2>3. Held(q) = Held(p) /\ Booked(q) = Booked(p)
    BY <2>1, Zenon DEF Held, Booked
  <2>4. Held(p) + 0 = Held(p) /\ Booked(p) + 0 = Booked(p)
    BY PoolParts
  <2> QED  BY <2>1, <2>2, <2>3, <2>4 DEF Moves
<1> QED  BY <1>1, <1>2 DEF Adapts

\* The set an admission takes is one of those parked.
LEMMA PickIsParked ==
  ASSUME NEW p, Good(p), NEW shape \in Shapes, Pick(p, shape) # 0
  PROVE  Pick(p, shape) \in Indices(p.sets)
<1> DEFINE kv == [i \in Indices(p.sets) |-> p.sets[i].kv]
           All == Indices(p.sets)
           Fixed == {i \in All : Growable(shape) /\ p.sets[i].fixed}
           Holding == {i \in Fixed : p.sets[i].kv >= shape.est}
           Fitting == {i \in All : KvFits(p.sets[i].kv, shape.est, Growable(shape))}
           Tight(I) == {i \in I : \A j \in I : p.sets[i].kv <= p.sets[j].kv}
           Large(I) == {i \in I : \A j \in I : p.sets[i].kv >= p.sets[j].kv}
<1>1. p.sets \in Seq(Sets) /\ Len(p.sets) \in Nat
  BY PoolParts
<1>2. \A i \in All : kv[i] \in Nat /\ kv[i] \in 0..Top /\ kv[i] = p.sets[i].kv
  BY <1>1, ElementOfSeq, SetTypes, SizesFit DEF Indices
<1>3. All \in SUBSET Nat /\ \A i \in All : i <= Len(p.sets)
  BY <1>1 DEF Indices
<1> HIDE DEF kv, All
<1>4. ASSUME NEW I \in SUBSET All, I # {}
      PROVE  /\ Least(Tight(I)) \in All /\ Most(Tight(I)) \in All
             /\ Least(Large(I)) \in All /\ Most(Large(I)) \in All
  <2>1. \E i \in I : \A j \in I : kv[i] <= kv[j]
    BY <1>2, <1>4, SomeSmallest
  <2>2. \E i \in I : \A j \in I : kv[i] >= kv[j]
    BY <1>2, <1>4, SomeLargest, SizesFit
  <2>3. Tight(I) # {} /\ Tight(I) \in SUBSET All
    BY <1>2, <2>1
  <2>4. Large(I) # {} /\ Large(I) \in SUBSET All
    BY <1>2, <2>2
  <2>5. ASSUME NEW T \in SUBSET All, T # {}  PROVE Least(T) \in All /\ Most(T) \in All
    <3>1. T \in SUBSET Nat /\ \A i \in T : i <= Len(p.sets)
      BY <1>3
    <3> QED  BY <1>1, <2>5, <3>1, LeastOfNumbers, MostOfNumbers
  <2> HIDE DEF Tight, Large
  <2> QED  BY <2>3, <2>4, <2>5
<1>5. Fixed \in SUBSET All /\ Holding \in SUBSET All /\ Fitting \in SUBSET All
  OBVIOUS
<1>6. CASE Holding # {}
  <2>1. Pick(p, shape) = Most(Tight(Holding))
    BY <1>6 DEF Pick, All
  <2> HIDE DEF Tight, Holding
  <2> QED  BY <1>4, <1>5, <1>6, <2>1 DEF All
<1>7. CASE Holding = {} /\ Fixed # {}
  <2>1. Pick(p, shape) = Most(Large(Fixed))
    BY <1>7 DEF Pick, All
  <2> HIDE DEF Large, Fixed
  <2> QED  BY <1>4, <1>5, <1>7, <2>1 DEF All
<1>8. CASE Holding = {} /\ Fixed = {} /\ Fitting # {}
  <2>1. Pick(p, shape) = Least(Tight(Fitting))
    BY <1>8 DEF Pick, All
  <2> HIDE DEF Tight, Fitting
  <2> QED  BY <1>4, <1>5, <1>8, <2>1 DEF All
<1>9. CASE Holding = {} /\ Fixed = {} /\ Fitting = {}
  <2>1. CASE p.sets # <<>>
    <3>1. Pick(p, shape) = Least(Large(All))
      BY <1>9, <2>1 DEF Pick, All
    <3>2. All # {}
      BY <1>1, <2>1, EmptySeq DEF All, Indices
    <3> HIDE DEF Large
    <3> QED  BY <1>4, <3>1, <3>2 DEF All
  <2>2. CASE p.sets = <<>>
    <3>1. Pick(p, shape) = 0
      BY <1>9, <2>2 DEF Pick, All
    <3> QED  BY <3>1
  <2> QED  BY <2>1, <2>2
<1> QED  BY <1>6, <1>7, <1>8, <1>9

LEMMA TakenMoves ==
  ASSUME NEW p, Good(p), NEW i \in Indices(p.sets)
  PROVE  /\ Moves(p, [p EXCEPT !.sets = Without(@, i)], Bit(p.sets[i].kv > 0), Bit(p.sets[i].fixed))
         /\ p.sets[i] \in Sets
<1>1. /\ p.sets \in Seq(Sets) /\ Len(p.sets) \in Nat /\ Len(p.sets) <= PoolCap
      /\ Cardinality(Stocked(p.sets)) \in Nat /\ Cardinality(FixedIn(p.sets)) \in Nat
  BY PoolParts
<1> DEFINE t == Without(p.sets, i)
           c == Bit(p.sets[i].kv > 0)
           f == Bit(p.sets[i].fixed)
<1>2. /\ t \in Seq(Sets) /\ Len(t) = Len(p.sets) - 1
      /\ Cardinality(Stocked(t)) = Cardinality(Stocked(p.sets)) - c
      /\ Cardinality(FixedIn(t)) = Cardinality(FixedIn(p.sets)) - f
  BY <1>1, SetsWithout
<1>3. c \in Int /\ f \in Int
  BY DEF Bit
<1> HIDE DEF t, c, f
<1>4. Len(t) <= PoolCap
  BY <1>1, <1>2, BoundsAreNat
<1>5. Moves(p, [p EXCEPT !.sets = t], Cardinality(Stocked(p.sets)) - Cardinality(Stocked(t)),
            Cardinality(FixedIn(p.sets)) - Cardinality(FixedIn(t)))
  BY <1>2, <1>4, SetsMoved
<1>6. Cardinality(Stocked(p.sets)) - Cardinality(Stocked(t)) = c
  BY <1>1, <1>2, <1>3
<1>7. Cardinality(FixedIn(p.sets)) - Cardinality(FixedIn(t)) = f
  BY <1>1, <1>2, <1>3
<1> QED  BY <1>1, <1>5, <1>6, <1>7, ElementOfSeq DEF t, c, f, Indices

\* What a row that holds no cache is given can hold its voice, its text and
\* its first step.
LEMMA ProvidedMoves ==
  ASSUME NEW p, Good(p), NEW shape \in Shapes, NEW o \in Provided(p, shape)
  PROVE  /\ Moves(p, o.p, Bit(o.kv > 0), Bit(o.fixed))
         /\ o.kv \in 0..Top /\ o.fixed \in BOOLEAN /\ (o.fixed => o.kv > 0)
         /\ o.kv > 0 => o.kv > shape.floor
<1>1. /\ shape.floor \in Nat /\ shape.est \in Nat /\ 1 <= shape.floor /\ shape.floor < shape.est
      /\ shape.est <= Top /\ Top \in Nat
  BY SizesFit
<1> DEFINE i == IF Growable(shape) THEN Spare(p, shape.floor + 1, shape.est) ELSE 0
           fresh == AtLeast(p.size, shape.est)
<1>2. \/ i > 0 /\ o = [p |-> SpareTaken(p, i), kv |-> p.spares[i], fixed |-> TRUE]
      \/ o = [p |-> Allocated(p), kv |-> shape.est, fixed |-> FALSE]
      \/ o = [p |-> p, kv |-> 0, fixed |-> FALSE]
      \/ o = [p |-> Adopt(Allocated(p)), kv |-> fresh, fixed |-> TRUE]
  BY DEF Provided
<1>3. ASSUME i > 0, o = [p |-> SpareTaken(p, i), kv |-> p.spares[i], fixed |-> TRUE]
      PROVE  /\ Moves(p, o.p, 1, 1) /\ o.kv \in 1..Top /\ o.fixed = TRUE /\ o.kv > shape.floor
  <2>1. i = Spare(p, shape.floor + 1, shape.est)
    BY <1>3
  <2>2. i \in Indices(p.spares) /\ p.spares[i] >= shape.floor + 1
    <3>1. shape.floor + 1 \in Nat /\ shape.est \in Nat
      BY <1>1
    <3>2. Spare(p, shape.floor + 1, shape.est) > 0
      BY <1>3, <2>1
    <3> HIDE DEF i
    <3> QED  BY <2>1, <3>1, <3>2, SpareFits
  <2> HIDE DEF i
  <2>3. Moves(p, SpareTaken(p, i), 1, 1) /\ p.spares[i] \in 1..Top
    BY <2>2, SpareTakenMoves
  <2>4. o.p = SpareTaken(p, i) /\ o.kv = p.spares[i] /\ o.fixed = TRUE
    BY <1>3
  <2> QED  BY <1>1, <2>2, <2>3, <2>4
<1>4. ASSUME o = [p |-> Adopt(Allocated(p)), kv |-> fresh, fixed |-> TRUE]
      PROVE  /\ Moves(p, o.p, 1, 1) /\ o.kv \in 1..Top /\ o.fixed = TRUE /\ o.kv > shape.floor
  <2>1. p.size \in {FirstSize} \cup LaterSizes
    BY PoolParts
  <2>2. p.size \in Nat /\ p.size <= Top
    BY <2>1, SizesFit, BoundsAreNat
  <2>3. fresh \in Nat /\ fresh >= shape.est /\ fresh <= Top
    BY <1>1, <2>2 DEF AtLeast
  <2> HIDE DEF fresh
  <2>4. o.p = Adopt(Allocated(p)) /\ o.kv = fresh /\ o.fixed = TRUE
    BY <1>4
  <2> QED  BY <1>1, <2>3, <2>4, CountedOnce
<1>5. ASSUME o = [p |-> Allocated(p), kv |-> shape.est, fixed |-> FALSE]
      PROVE  /\ Moves(p, o.p, 1, 0) /\ o.kv \in 1..Top /\ o.fixed = FALSE /\ o.kv > shape.floor
  <2>1. o.p = Allocated(p) /\ o.kv = shape.est /\ o.fixed = FALSE
    BY <1>5
  <2> QED  BY <1>1, <2>1, CountedOnce
<1>6. ASSUME o = [p |-> p, kv |-> 0, fixed |-> FALSE]
      PROVE  Moves(p, o.p, 0, 0) /\ o.kv = 0 /\ o.fixed = FALSE
  BY <1>6, Unmoved
<1>7. Bit(TRUE) = 1 /\ Bit(FALSE) = 0
  BY DEF Bit
<1>8. CASE o.kv \in 1..Top /\ o.fixed = TRUE /\ o.kv > shape.floor /\ Moves(p, o.p, 1, 1)
  <2>1. (o.kv > 0) = TRUE
    BY <1>1, <1>8
  <2>2. Bit(o.kv > 0) = 1 /\ Bit(o.fixed) = 1
    BY <1>7, <1>8, <2>1, Zenon
  <2>3. Moves(p, o.p, Bit(o.kv > 0), Bit(o.fixed))
    BY <1>8, <2>2, Zenon
  <2>4. o.kv \in 0..Top /\ (o.kv > 0 => o.kv > shape.floor)
    BY <1>1, <1>8
  <2>5. o.fixed \in BOOLEAN /\ (o.fixed => o.kv > 0)
    BY <1>8, <2>1, Zenon
  <2> QED  BY <2>3, <2>4, <2>5
<1>9. CASE o.kv \in 1..Top /\ o.fixed = FALSE /\ o.kv > shape.floor /\ Moves(p, o.p, 1, 0)
  <2>1. (o.kv > 0) = TRUE
    BY <1>1, <1>9
  <2>2. Bit(o.kv > 0) = 1 /\ Bit(o.fixed) = 0
    BY <1>7, <1>9, <2>1, Zenon
  <2>3. Moves(p, o.p, Bit(o.kv > 0), Bit(o.fixed))
    BY <1>9, <2>2, Zenon
  <2>4. o.kv \in 0..Top /\ (o.kv > 0 => o.kv > shape.floor)
    BY <1>1, <1>9
  <2>5. o.fixed \in BOOLEAN /\ (o.fixed => o.kv > 0)
    BY <1>9, <2>1, Zenon
  <2> QED  BY <2>3, <2>4, <2>5
<1>10. CASE o.kv = 0 /\ o.fixed = FALSE /\ Moves(p, o.p, 0, 0)
  <2>1. (o.kv > 0) = FALSE
    BY <1>1, <1>10
  <2>2. Bit(o.kv > 0) = 0 /\ Bit(o.fixed) = 0
    BY <1>7, <1>10, <2>1, Zenon
  <2>3. Moves(p, o.p, Bit(o.kv > 0), Bit(o.fixed))
    BY <1>10, <2>2, Zenon
  <2>4. o.kv \in 0..Top /\ (o.kv > 0 => o.kv > shape.floor)
    BY <1>1, <1>10
  <2>5. o.fixed \in BOOLEAN /\ (o.fixed => o.kv > 0)
    BY <1>10, <2>1, Zenon
  <2> QED  BY <2>3, <2>4, <2>5
<1> HIDE DEF i, fresh
<1> QED  BY <1>2, <1>3, <1>4, <1>5, <1>6, <1>8, <1>9, <1>10

\* A row as the pool sees it.
Holder(c) == c.kv \in 0..Top /\ c.fixed \in BOOLEAN /\ (c.fixed => c.kv > 0)

LEMMA SeatsMove ==
  ASSUME NEW p, Good(p), NEW c, Holder(c), c.need \in Shapes, NEW node \in BOOLEAN,
         NEW o \in Seats(p, c, node)
  PROVE  /\ Moves(p, o.p, Bit(o.kv > 0) - Bit(c.kv > 0), Bit(o.fixed) - Bit(c.fixed))
         /\ Holder(o) /\ (o.kv > 0 => o.kv > c.need.floor)
<1>1. c.kv \in Nat /\ c.fixed \in BOOLEAN /\ (c.fixed => c.kv > 0) /\ c.kv <= Top /\ Top \in Nat
  BY SizesFit DEF Holder
<1>2. /\ c.need.floor \in Nat /\ c.need.est \in Nat /\ c.need.floor < c.need.est
  BY SizesFit
<1>3. /\ Bit(c.kv > 0) \in {0, 1} /\ Bit(c.fixed) \in {0, 1}
      /\ Bit(o.kv > 0) \in {0, 1} /\ Bit(o.fixed) \in {0, 1}
  BY DEF Bit
<1>4. CASE KeepsCache(c.kv, c.need)
  <2>1. o = [p |-> p, kv |-> c.kv, fixed |-> c.fixed]
    BY <1>4 DEF Seats
  <2>2. o.p = p /\ o.kv = c.kv /\ o.fixed = c.fixed
    BY <2>1
  <2>3. c.kv > c.need.floor
    BY <1>1, <1>2, <1>4 DEF KeepsCache, StartsOn, KvFits
  <2>4. Bit(o.kv > 0) = Bit(c.kv > 0) /\ Bit(o.fixed) = Bit(c.fixed)
    BY <2>2, Zenon
  <2>5. Bit(o.kv > 0) - Bit(c.kv > 0) = 0 /\ Bit(o.fixed) - Bit(c.fixed) = 0
    BY <1>3, <2>4
  <2>6. Holder(o)
    BY <2>2, Holder(c), Zenon DEF Holder
  <2>7. Moves(p, o.p, 0, 0)
    BY <2>2, Unmoved
  <2> QED  BY <2>2, <2>3, <2>5, <2>6, <2>7
<1>5. CASE ~KeepsCache(c.kv, c.need)
  <2> DEFINE q == CASE c.kv = 0 -> p
                    [] c.kv > 0 /\ Growable(c.need) -> StashOrFree(Counted(p, c.fixed), c.kv, node)
                    [] OTHER -> GoneIf(Freed(p), c.fixed)
  <2>1. o \in Provided(q, c.need)
    BY <1>5 DEF Seats
  <2>2. Moves(p, q, 0 - Bit(c.kv > 0), 0 - Bit(c.fixed))
    <3>1. CASE c.kv = 0
      <4>1. q = p /\ ~(c.kv > 0) /\ ~c.fixed
        BY <1>1, <3>1
      <4> HIDE DEF q
      <4>0. Bit(c.kv > 0) = 0 /\ Bit(c.fixed) = 0
        BY <4>1, Zenon DEF Bit
      <4>2. 0 - Bit(c.kv > 0) = 0 /\ 0 - Bit(c.fixed) = 0
        BY <4>0
      <4> QED  BY <4>1, <4>2, Unmoved
    <3>2. CASE c.kv > 0 /\ Growable(c.need)
      <4>1. q = StashOrFree(Counted(p, c.fixed), c.kv, node)
        BY <1>1, <3>2
      <4>2. Moves(p, Counted(p, c.fixed), 0, 1 - Bit(c.fixed))
        BY <1>1, CountedOrNot
      <4>3. c.kv \in 1..Top
        BY <1>1, <3>2
      <4> HIDE DEF q
      <4>4. Moves(Counted(p, c.fixed), q, -1, -1)
        BY <4>1, <4>2, <4>3, StashOrFreeMoves DEF Moves
      <4>5. 1 - Bit(c.fixed) \in Int /\ 0 \in Int /\ -1 \in Int
        BY <1>3
      <4>6. Moves(p, q, 0 + -1, (1 - Bit(c.fixed)) + -1)
        BY <4>2, <4>4, <4>5, MovesInTurn
      <4>7. (1 - Bit(c.fixed)) + -1 = 0 - Bit(c.fixed)
        BY <1>3
      <4>8. 0 - Bit(c.kv > 0) = 0 + -1
        BY <3>2 DEF Bit
      <4> QED  BY <4>6, <4>7, <4>8, Zenon
    <3>3. CASE c.kv > 0 /\ ~Growable(c.need)
      <4>1. q = GoneIf(Freed(p), c.fixed)
        BY <1>1, <3>3
      <4>2. Moves(p, GoneIf(Freed(p), c.fixed), -1, 0 - Bit(c.fixed))
        BY <1>1, CountedOrNot
      <4> HIDE DEF q
      <4>3. 0 - Bit(c.kv > 0) = -1
        BY <3>3 DEF Bit
      <4> QED  BY <4>1, <4>2, <4>3, Zenon
    <3> QED  BY <1>1, <3>1, <3>2, <3>3
  <2> HIDE DEF q
  <2>3. Good(q)
    BY <2>2 DEF Moves
  <2>4. /\ Moves(q, o.p, Bit(o.kv > 0), Bit(o.fixed))
        /\ Holder(o) /\ (o.kv > 0 => o.kv > c.need.floor)
    BY <2>1, <2>3, ProvidedMoves DEF Holder
  <2>5. /\ 0 - Bit(c.kv > 0) \in Int /\ 0 - Bit(c.fixed) \in Int
        /\ Bit(o.kv > 0) \in Int /\ Bit(o.fixed) \in Int
    BY <1>3
  <2>6. Moves(p, o.p, 0 - Bit(c.kv > 0) + Bit(o.kv > 0), 0 - Bit(c.fixed) + Bit(o.fixed))
    BY <2>2, <2>4, <2>5, MovesInTurn
  <2>7. 0 - Bit(c.kv > 0) + Bit(o.kv > 0) = Bit(o.kv > 0) - Bit(c.kv > 0)
    BY <1>3
  <2>8. 0 - Bit(c.fixed) + Bit(o.fixed) = Bit(o.fixed) - Bit(c.fixed)
    BY <1>3
  <2> QED  BY <2>4, <2>6, <2>7, <2>8, Zenon
<1> QED  BY <1>4, <1>5

\* A cache that was found may be freed again.
LEMMA UnseatedMoves ==
  ASSUME NEW p, Good(p), NEW a \in Int, NEW b \in Int, NEW o, Holder(o),
         Moves(p, o.p, Bit(o.kv > 0) - a, Bit(o.fixed) - b), NEW u, u = Unseated(o)
  PROVE  /\ Moves(p, u.p, Bit(u.kv > 0) - a, Bit(u.fixed) - b)
         /\ Holder(u) /\ u.kv = 0
<1>1. u.p = GoneIf(FreedIf(o.p, o.kv), o.fixed) /\ u.kv = 0 /\ u.fixed = FALSE
  BY DEF Unseated
<1>2. o.kv \in Nat /\ o.fixed \in BOOLEAN /\ 0 \in 0..Top
  BY SizesFit DEF Holder
<1>3. /\ Bit(o.kv > 0) \in Int /\ Bit(o.fixed) \in Int
      /\ 0 - Bit(o.kv > 0) \in Int /\ 0 - Bit(o.fixed) \in Int
      /\ Bit(o.kv > 0) - a \in Int /\ Bit(o.fixed) - b \in Int
  BY DEF Bit
<1>4. Moves(o.p, u.p, 0 - Bit(o.kv > 0), 0 - Bit(o.fixed))
  <2>1. Good(o.p)
    BY DEF Moves
  <2>2. Moves(o.p, GoneIf(FreedIf(o.p, o.kv), o.fixed), 0 - Bit(o.kv > 0), 0 - Bit(o.fixed))
    BY <1>2, <2>1, CountedOrNot
  <2> QED  BY <1>1, <2>2, Zenon
<1>5. Moves(p, u.p, (Bit(o.kv > 0) - a) + (0 - Bit(o.kv > 0)), (Bit(o.fixed) - b) + (0 - Bit(o.fixed)))
  BY <1>3, <1>4, MovesInTurn
<1>6. /\ (Bit(o.kv > 0) - a) + (0 - Bit(o.kv > 0)) = 0 - a
      /\ (Bit(o.fixed) - b) + (0 - Bit(o.fixed)) = 0 - b
  BY <1>3
<1>7. Bit(u.kv > 0) = 0 /\ Bit(u.fixed) = 0
  <2>1. (u.kv > 0) = FALSE
    BY <1>1
  <2> QED  BY <1>1, <2>1, Zenon DEF Bit
<1>8. Moves(p, u.p, Bit(u.kv > 0) - a, Bit(u.fixed) - b)
  BY <1>5, <1>6, <1>7, Zenon
<1>9. Holder(u)
  BY <1>1, <1>2 DEF Holder
<1> QED  BY <1>1, <1>8, <1>9

LEMMA SeatedMove ==
  ASSUME NEW p, Good(p), NEW c, Holder(c), c.need \in Shapes, NEW node \in BOOLEAN,
         NEW o \in OrUnseated(Seats(p, c, node))
  PROVE  /\ Moves(p, o.p, Bit(o.kv > 0) - Bit(c.kv > 0), Bit(o.fixed) - Bit(c.fixed))
         /\ Holder(o) /\ (o.kv > 0 => o.kv > c.need.floor)
<1>1. CASE o \in Seats(p, c, node)
  BY <1>1, SeatsMove
<1>2. ASSUME NEW x \in Seats(p, c, node), o = Unseated(x)
      PROVE  /\ Moves(p, o.p, Bit(o.kv > 0) - Bit(c.kv > 0), Bit(o.fixed) - Bit(c.fixed))
             /\ Holder(o) /\ o.kv = 0
  <2>1. Bit(c.kv > 0) \in Int /\ Bit(c.fixed) \in Int
    BY DEF Bit
  <2>2. /\ Moves(p, x.p, Bit(x.kv > 0) - Bit(c.kv > 0), Bit(x.fixed) - Bit(c.fixed))
        /\ Holder(x)
    BY SeatsMove
  <2> QED  BY <1>2, <2>1, <2>2, UnseatedMoves
<1> QED  BY <1>1, <1>2 DEF OrUnseated

LEMMA ReseatsMove ==
  ASSUME Good(pool), NEW c, Holder(c), NEW shape \in Shapes, NEW o \in Reseats(c, shape)
  PROVE  /\ Moves(pool, o.p, Bit(o.kv > 0) - Bit(c.kv > 0), Bit(o.fixed) - Bit(c.fixed))
         /\ Holder(o) /\ (o.kv > 0 => o.kv > shape.floor)
<1>1. c.kv \in Nat /\ c.fixed \in BOOLEAN /\ (c.fixed => c.kv > 0) /\ 0 \in 0..Top
  BY SizesFit DEF Holder
<1>2. /\ Bit(c.kv > 0) \in Int /\ Bit(c.fixed) \in Int
      /\ 0 - Bit(c.kv > 0) \in Int /\ 0 - Bit(c.fixed) \in Int
  BY DEF Bit
<1>3. CASE c.kv = 0
  <2>1. o.p = pool /\ o.kv = 0 /\ o.fixed = FALSE
    BY <1>3 DEF Reseats
  <2>2. o.kv = c.kv /\ o.fixed = c.fixed
    <3>1. ~(c.kv > 0)
      BY <1>3
    <3>2. c.fixed = FALSE
      BY <1>1, <3>1, Zenon
    <3> QED  BY <1>3, <2>1, <3>2, Zenon
  <2>3. Bit(o.kv > 0) = Bit(c.kv > 0) /\ Bit(o.fixed) = Bit(c.fixed)
    BY <2>2, Zenon
  <2>4. Bit(o.kv > 0) - Bit(c.kv > 0) = 0 /\ Bit(o.fixed) - Bit(c.fixed) = 0
    BY <1>2, <2>3
  <2>5. Moves(pool, o.p, 0, 0)
    BY <2>1, Unmoved
  <2>6. Holder(o) /\ ~(o.kv > 0)
    <3>1. Holder(o)
      BY <1>1, <2>1 DEF Holder
    <3>2. ~(o.kv > 0)
      BY <2>1
    <3> QED  BY <3>1, <3>2
  <2> QED  BY <2>4, <2>5, <2>6, Zenon
<1>4. CASE c.kv > 0
  <2> DEFINE q == GoneIf(Freed(pool), c.fixed)
  <2>1. o \in OrUnseated(Provided(q, shape))
    BY <1>4 DEF Reseats
  <2>2. Moves(pool, q, 0 - Bit(c.kv > 0), 0 - Bit(c.fixed))
    <3>1. Moves(pool, q, -1, 0 - Bit(c.fixed))
      BY <1>1, CountedOrNot
    <3> HIDE DEF q
    <3>2. 0 - Bit(c.kv > 0) = -1
      BY <1>4 DEF Bit
    <3> QED  BY <3>1, <3>2, Zenon
  <2> HIDE DEF q
  <2>3. Good(q)
    BY <2>2 DEF Moves
  <2>4. ASSUME NEW x \in Provided(q, shape)
        PROVE  /\ Moves(pool, x.p, Bit(x.kv > 0) - Bit(c.kv > 0), Bit(x.fixed) - Bit(c.fixed))
               /\ Holder(x) /\ (x.kv > 0 => x.kv > shape.floor)
    <3>1. /\ Moves(q, x.p, Bit(x.kv > 0), Bit(x.fixed))
          /\ Holder(x) /\ (x.kv > 0 => x.kv > shape.floor)
      BY <2>3, ProvidedMoves DEF Holder
    <3>2. Bit(x.kv > 0) \in Int /\ Bit(x.fixed) \in Int
      BY DEF Bit
    <3>3. Moves(pool, x.p, (0 - Bit(c.kv > 0)) + Bit(x.kv > 0), (0 - Bit(c.fixed)) + Bit(x.fixed))
      BY <1>2, <2>2, <3>1, <3>2, MovesInTurn
    <3>4. /\ (0 - Bit(c.kv > 0)) + Bit(x.kv > 0) = Bit(x.kv > 0) - Bit(c.kv > 0)
          /\ (0 - Bit(c.fixed)) + Bit(x.fixed) = Bit(x.fixed) - Bit(c.fixed)
      BY <1>2, <3>2
    <3> QED  BY <3>1, <3>3, <3>4, Zenon
  <2>5. ASSUME NEW x \in Provided(q, shape), o = Unseated(x)
        PROVE  /\ Moves(pool, o.p, Bit(o.kv > 0) - Bit(c.kv > 0), Bit(o.fixed) - Bit(c.fixed))
               /\ Holder(o) /\ o.kv = 0
    BY <1>2, <2>4, <2>5, UnseatedMoves
  <2> QED  BY <2>1, <2>4, <2>5 DEF OrUnseated
<1> QED  BY <1>1, <1>3, <1>4

LEMMA LargerMoves ==
  ASSUME NEW p, Good(p), NEW want \in 1..Top, NEW o \in Larger(p, want)
  PROVE  Moves(p, o.p, 1, 1) /\ o.kv \in 1..Top /\ o.kv >= want
<1> DEFINE i == Spare(p, want, want)
           d == Donor(p, want)
<1>1. want \in Nat /\ Top \in Nat
  BY SizesFit
<1>2. i \in Nat /\ (i > 0 => i \in Indices(p.spares) /\ p.spares[i] >= want)
  BY <1>1, SpareFits
<1>3. d \in Nat /\ (d > 0 => d \in Indices(p.sets) /\ p.sets[d].fixed /\ p.sets[d].kv >= want)
  BY <1>1, DonorFits
<1>4. \/ i > 0 /\ o = [p |-> SpareTaken(p, i), kv |-> p.spares[i]]
      \/ d > 0 /\ o = [p |-> Donated(p, d), kv |-> p.sets[d].kv]
      \/ o = [p |-> Adopt(Allocated(p)), kv |-> want]
  BY <1>2, <1>3 DEF Larger
<1> HIDE DEF i, d
<1>5. CASE i > 0 /\ o = [p |-> SpareTaken(p, i), kv |-> p.spares[i]]
  <2>1. o.p = SpareTaken(p, i) /\ o.kv = p.spares[i]
    BY <1>5
  <2> QED  BY <1>2, <1>5, <2>1, SpareTakenMoves
<1>6. CASE d > 0 /\ o = [p |-> Donated(p, d), kv |-> p.sets[d].kv]
  <2>1. o.p = Donated(p, d) /\ o.kv = p.sets[d].kv
    BY <1>6
  <2> QED  BY <1>3, <1>6, <2>1, DonatedMoves
<1>7. CASE o = [p |-> Adopt(Allocated(p)), kv |-> want]
  <2>1. o.p = Adopt(Allocated(p)) /\ o.kv = want
    BY <1>7
  <2> QED  BY <1>1, <2>1, CountedOnce
<1> QED  BY <1>4, <1>5, <1>6, <1>7

-----------------------------------------------------------------------------
(* The inductive invariant.                                                *)

RowType == [at : {"none", "taken", "seated"}, kv : 0..Top, fixed : BOOLEAN,
            busy : BOOLEAN, need : Shapes \cup {NoShape}, used : 0..Top]

\* A context that does not exist has no cache; one that was given its set may
\* zero its staging; one that is seated has room for what it wrote.
RowOK(c) ==
  /\ c.at = "none" => c.kv = 0 /\ ~c.busy
  /\ c.at # "none" => c.need \in Shapes
  /\ c.fixed => c.kv > 0
  /\ c.at = "taken" => ~c.busy
  /\ c.at = "seated" /\ c.kv > 0 => c.used <= Capacity(c) /\ c.need.floor < Capacity(c)

Owners(f) == {r \in Rows : f[r].kv > 0}
FixedOwners(f) == {r \in Rows : f[r].fixed}

RowsOK(f) == f \in [Rows -> RowType] /\ \A r \in Rows : RowOK(f[r])
Exact(p, f) == Held(p) = Cardinality(Owners(f)) /\ Booked(p) = Cardinality(FixedOwners(f))
Closed(p, f) ==
  ~p.open => p.sets = <<>> /\ p.spares = <<>> /\ \A r \in Rows : f[r].at = "none"

Inv(p, f) == Good(p) /\ RowsOK(f) /\ Exact(p, f) /\ Closed(p, f)
IInv == Inv(pool, row) /\ marks \in 0..Marks

LEMMA RowTypes ==
  ASSUME NEW c \in RowType
  PROVE  /\ c.at \in {"none", "taken", "seated"} /\ c.kv \in 0..Top /\ c.fixed \in BOOLEAN
         /\ c.busy \in BOOLEAN /\ c.need \in Shapes \cup {NoShape} /\ c.used \in 0..Top
         /\ c.kv \in Nat /\ c.kv <= Top /\ c.used \in Nat /\ c.used <= Top
BY SizesFit DEF RowType

LEMMA OneMayChange ==
  ASSUME NEW T, IsFiniteSet(T), NEW U, NEW r, \A q : q # r => (q \in U <=> q \in T)
  PROVE  IsFiniteSet(U) /\ Cardinality(U) = Cardinality(T) + (Bit(r \in U) - Bit(r \in T))
<1>0. Cardinality(T) \in Nat /\ Bit(TRUE) = 1 /\ Bit(FALSE) = 0
  BY FS_CardinalityType DEF Bit
<1>1. CASE r \in T /\ r \in U
  <2>1. U = T
    BY <1>1
  <2>2. Bit(r \in U) = 1 /\ Bit(r \in T) = 1
    BY <1>1 DEF Bit
  <2> QED  BY <1>0, <2>1, <2>2
<1>2. CASE r \notin T /\ r \notin U
  <2>1. U = T
    BY <1>2
  <2>2. Bit(r \in U) = 0 /\ Bit(r \in T) = 0
    BY <1>2 DEF Bit
  <2> QED  BY <1>0, <2>1, <2>2
<1>3. CASE r \notin T /\ r \in U
  <2>1. U = T \cup {r}
    BY <1>3
  <2>2. Bit(r \in U) = 1 /\ Bit(r \in T) = 0
    BY <1>3 DEF Bit
  <2>3. IsFiniteSet(T \cup {r}) /\ Cardinality(T \cup {r}) = Cardinality(T) + 1
    BY <1>3, OneMore
  <2> QED  BY <1>0, <2>1, <2>2, <2>3
<1>4. CASE r \in T /\ r \notin U
  <2>1. U = T \ {r}
    BY <1>4
  <2>2. Bit(r \in U) = 0 /\ Bit(r \in T) = 1
    BY <1>4 DEF Bit
  <2>3. IsFiniteSet(T \ {r}) /\ Cardinality(T \ {r}) = Cardinality(T) - 1
    BY <1>4, OneLess
  <2> QED  BY <1>0, <2>1, <2>2, <2>3
<1> QED  BY <1>1, <1>2, <1>3, <1>4

LEMMA OwnersFinite ==
  ASSUME NEW f
  PROVE  /\ IsFiniteSet(Owners(f)) /\ Cardinality(Owners(f)) \in Nat
         /\ IsFiniteSet(FixedOwners(f)) /\ Cardinality(FixedOwners(f)) \in Nat
<1>1. IsFiniteSet(Rows)
  BY SlotAssumption
<1>2. Owners(f) \in SUBSET Rows /\ FixedOwners(f) \in SUBSET Rows
  BY DEF Owners, FixedOwners
<1> QED  BY <1>1, <1>2, FS_Subset, FS_CardinalityType

\* One row changes by what the pool gives it, or takes.
LEMMA RowMoves ==
  ASSUME NEW p, NEW f, Inv(p, f), NEW r \in Rows, NEW q, NEW c \in RowType, RowOK(c),
         Moves(p, q, Bit(c.kv > 0) - Bit(f[r].kv > 0), Bit(c.fixed) - Bit(f[r].fixed)), q.open
  PROVE  Inv(q, [f EXCEPT ![r] = c])
<1> DEFINE g == [f EXCEPT ![r] = c]
<1>1. /\ f \in [Rows -> RowType] /\ \A s \in Rows : RowOK(f[s])
      /\ Held(p) = Cardinality(Owners(f)) /\ Booked(p) = Cardinality(FixedOwners(f))
  BY DEF Inv, RowsOK, Exact
<1>2. g \in [Rows -> RowType] /\ g[r] = c /\ \A s \in Rows \ {r} : g[s] = f[s]
  BY <1>1
<1> HIDE DEF g
<1>3. RowsOK(g)
  BY <1>1, <1>2 DEF RowsOK
<1>4. Good(q)
  BY DEF Moves
<1>5. Held(q) = Cardinality(Owners(g))
  <2>1. \A s : s # r => (s \in Owners(g) <=> s \in Owners(f))
    BY <1>2 DEF Owners
  <2>2. Cardinality(Owners(g)) = Cardinality(Owners(f)) + (Bit(r \in Owners(g)) - Bit(r \in Owners(f)))
    BY <2>1, OwnersFinite, OneMayChange
  <2>3. (r \in Owners(g)) = (c.kv > 0) /\ (r \in Owners(f)) = (f[r].kv > 0)
    BY <1>2 DEF Owners
  <2>4. Cardinality(Owners(g)) = Cardinality(Owners(f)) + (Bit(c.kv > 0) - Bit(f[r].kv > 0))
    BY <2>2, <2>3, Zenon
  <2>5. Held(q) = Held(p) + (Bit(c.kv > 0) - Bit(f[r].kv > 0))
    BY DEF Moves
  <2> QED  BY <1>1, <2>4, <2>5, Zenon
<1>6. Booked(q) = Cardinality(FixedOwners(g))
  <2>1. \A s : s # r => (s \in FixedOwners(g) <=> s \in FixedOwners(f))
    BY <1>2 DEF FixedOwners
  <2>2. Cardinality(FixedOwners(g))
          = Cardinality(FixedOwners(f)) + (Bit(r \in FixedOwners(g)) - Bit(r \in FixedOwners(f)))
    BY <2>1, OwnersFinite, OneMayChange
  <2>3. c.fixed \in BOOLEAN /\ f[r].fixed \in BOOLEAN
    BY <1>1, RowTypes
  <2>4. (r \in FixedOwners(g)) = c.fixed /\ (r \in FixedOwners(f)) = f[r].fixed
    <3>1. (r \in FixedOwners(g) <=> c.fixed) /\ (r \in FixedOwners(f) <=> f[r].fixed)
      BY <1>2 DEF FixedOwners
    <3> QED  BY <2>3, <3>1
  <2>5. Cardinality(FixedOwners(g)) = Cardinality(FixedOwners(f)) + (Bit(c.fixed) - Bit(f[r].fixed))
    BY <2>2, <2>4, Zenon
  <2>6. Booked(q) = Booked(p) + (Bit(c.fixed) - Bit(f[r].fixed))
    BY DEF Moves
  <2> QED  BY <1>1, <2>5, <2>6, Zenon
<1>7. Closed(q, g)
  BY DEF Closed
<1> QED  BY <1>3, <1>4, <1>5, <1>6, <1>7 DEF Inv, Exact, g

\* After a drain no row, and no parked set, has anything queued.
Quieted(f) == [r \in Rows |-> [f[r] EXCEPT !.busy = FALSE]]

LEMMA QuietedKeeps ==
  ASSUME NEW p, NEW f, Inv(p, f)
  PROVE  /\ Inv(p, Quieted(f))
         /\ \A r \in Rows : Quieted(f)[r].kv = f[r].kv /\ Quieted(f)[r].fixed = f[r].fixed
<1> DEFINE g == Quieted(f)
<1>1. f \in [Rows -> RowType] /\ (\A r \in Rows : RowOK(f[r])) /\ Exact(p, f) /\ Closed(p, f) /\ Good(p)
  BY DEF Inv, RowsOK
<1>2. \A r \in Rows : /\ g[r] \in RowType /\ g[r].at = f[r].at /\ g[r].kv = f[r].kv
                      /\ g[r].fixed = f[r].fixed /\ g[r].need = f[r].need /\ g[r].used = f[r].used
                      /\ g[r].busy = FALSE
  BY <1>1 DEF RowType, Quieted
<1>3. g \in [Rows -> RowType]
  BY <1>2 DEF Quieted
<1> HIDE DEF g
<1>4. \A r \in Rows : RowOK(g[r])
  BY <1>1, <1>2 DEF RowOK, Capacity
<1>5. Owners(g) = Owners(f) /\ FixedOwners(g) = FixedOwners(f)
  BY <1>2 DEF Owners, FixedOwners
<1>6. Exact(p, g)
  BY <1>1, <1>5, Zenon DEF Exact
<1>7. Closed(p, g)
  BY <1>1, <1>2 DEF Closed
<1> QED  BY <1>1, <1>2, <1>3, <1>4, <1>6, <1>7 DEF Inv, RowsOK, g

LEMMA PoolMoves ==
  ASSUME NEW p, NEW f, Inv(p, f), NEW q, Moves(p, q, 0, 0), q.open
  PROVE  Inv(q, f)
<1>1. Held(q) = Held(p) + 0 /\ Booked(q) = Booked(p) + 0 /\ Good(q)
  BY DEF Moves
<1>2. Held(p) \in Int /\ Booked(p) \in Int
  BY PoolParts DEF Inv
<1>3. Held(q) = Held(p) /\ Booked(q) = Booked(p)
  BY <1>1, <1>2
<1> QED  BY <1>1, <1>3 DEF Inv, Exact, Closed

-----------------------------------------------------------------------------
(* The initial state, and one lemma per action.                            *)

LEMMA Starts == Init => IInv
<1>1. SUFFICES ASSUME Init PROVE IInv
  OBVIOUS
<1>2. Top \in Nat /\ SpareMax \in Nat /\ PoolCap \in Nat /\ FirstCap \in Nat /\ Marks \in Nat
  BY SizesFit, BoundsAreNat
<1>3. /\ pool.sets = <<>> /\ pool.spares = <<>> /\ pool.made = 0 /\ pool.live = 0 /\ pool.open
      /\ row = [r \in Rows |-> NoRow] /\ marks = 0
  BY <1>1 DEF Init
<1>4. Good(pool)
  <2>1. <<>> \in Seq(Sets) /\ <<>> \in Seq(1..Top) /\ Len(<<>>) = 0
    OBVIOUS
  <2>2. pool \in PoolType
    BY <1>1, <1>2, <2>1 DEF Init, PoolType
  <2> QED BY <2>1, <2>2, <1>2, <1>3 DEF Good
<1>5. RowsOK(row)
  <2>1. NoRow \in RowType
    BY <1>2 DEF NoRow, RowType
  <2>2. RowOK(NoRow)
    BY DEF NoRow, RowOK
  <2> QED BY <2>1, <2>2, <1>3 DEF RowsOK
<1>6. Exact(pool, row)
  <2>1. Owners(row) = {} /\ FixedOwners(row) = {}
    BY <1>3 DEF Owners, FixedOwners, NoRow
  <2>2. Stocked(<<>>) = {} /\ FixedIn(<<>>) = {}
    BY DEF Stocked, FixedIn, Indices
  <2>3. Cardinality({}) = 0
    BY FS_EmptySet
  <2>a. /\ Cardinality(Stocked(pool.sets)) = 0 /\ Cardinality(FixedIn(pool.sets)) = 0
        /\ Len(pool.spares) = 0
    BY <1>3, <2>2, <2>3, Zenon, Len(<<>>) = 0
  <2>4. Held(pool) = 0 /\ Booked(pool) = 0
    BY <1>3, <2>a DEF Held, Booked
  <2> QED BY <2>1, <2>3, <2>4 DEF Exact
<1>7. Closed(pool, row)
  BY <1>3 DEF Closed
<1> QED BY <1>2, <1>3, <1>4, <1>5, <1>6, <1>7 DEF IInv, Inv

\* A context that exists: the pool is open, and what the row holds.
LEMMA Existing ==
  ASSUME IInv, NEW r \in Rows
  PROVE  /\ Inv(pool, row) /\ Good(pool) /\ pool.open \in BOOLEAN /\ marks \in Nat
         /\ row \in [Rows -> RowType] /\ row[r] \in RowType /\ RowOK(row[r])
         /\ row[r].at # "none" => pool.open
<1>1. Inv(pool, row) /\ marks \in 0..Marks
  BY DEF IInv
<1>2. Good(pool) /\ RowsOK(row) /\ Closed(pool, row)
  BY <1>1 DEF Inv
<1>3. row \in [Rows -> RowType] /\ row[r] \in RowType /\ RowOK(row[r])
  BY <1>2 DEF RowsOK
<1>4. pool.open \in BOOLEAN
  BY <1>2, PoolParts
<1>5. row[r].at # "none" => pool.open
  BY <1>2 DEF Closed
<1> QED BY <1>1, <1>2, <1>3, <1>4, <1>5, BoundsAreNat

LEMMA SeatKeeps ==
  ASSUME IInv, NEW r \in Rows, Seat(r)
  PROVE  IInv'
<1>1. /\ Inv(pool, row) /\ Good(pool) /\ pool.open /\ row \in [Rows -> RowType]
      /\ row[r] \in RowType /\ RowOK(row[r])
  BY Existing DEF Seat
<1>a. PICK node \in BOOLEAN : \E o \in OrUnseated(Seats(pool, row[r], node)) :
        /\ pool' = o.p
        /\ row' = [row EXCEPT ![r].at = "seated", ![r].kv = o.kv, ![r].fixed = o.fixed,
                              ![r].used = row[r].need.floor]
  BY DEF Seat
<1>2. PICK o \in OrUnseated(Seats(pool, row[r], node)) :
        /\ pool' = o.p
        /\ row' = [row EXCEPT ![r].at = "seated", ![r].kv = o.kv, ![r].fixed = o.fixed,
                              ![r].used = row[r].need.floor]
  BY <1>a
<1> DEFINE c == [row[r] EXCEPT !.at = "seated", !.kv = o.kv, !.fixed = o.fixed,
                               !.used = row[r].need.floor]
<1>3. row[r].need \in Shapes /\ Holder(row[r])
  BY <1>1 DEF Seat, RowOK, RowType, Holder
<1>4. /\ Moves(pool, o.p, Bit(o.kv > 0) - Bit(row[r].kv > 0), Bit(o.fixed) - Bit(row[r].fixed))
      /\ Holder(o) /\ (o.kv > 0 => o.kv > row[r].need.floor)
  BY <1>1, <1>2, <1>3, SeatedMove
<1>5. row' = [row EXCEPT ![r] = c]
  BY <1>1, <1>2 DEF RowType
<1>6. /\ c.at = "seated" /\ c.kv = o.kv /\ c.fixed = o.fixed /\ c.busy = row[r].busy
      /\ c.need = row[r].need /\ c.used = row[r].need.floor
  BY <1>1 DEF RowType
<1>7. /\ row[r].need.floor \in Nat /\ row[r].need.top \in Nat /\ row[r].need.floor < row[r].need.top
      /\ row[r].need.top <= Top /\ Top \in Nat
  BY <1>3, SizesFit
<1>8. c \in RowType
  <2>1. row[r].need.floor \in 0..Top
    BY <1>7
  <2> QED BY <1>1, <1>3, <1>4, <2>1 DEF RowType, Holder
<1>9. RowOK(c)
  <2> HIDE DEF c
  <2>1. c.kv > 0 => c.used <= Capacity(c) /\ c.need.floor < Capacity(c)
    BY <1>4, <1>6, <1>7 DEF Capacity, Holder
  <2> QED BY <1>3, <1>4, <1>6, <2>1 DEF RowOK, Holder
<1>10. Moves(pool, pool', Bit(c.kv > 0) - Bit(row[r].kv > 0), Bit(c.fixed) - Bit(row[r].fixed))
  <2> HIDE DEF c
  <2> QED BY <1>2, <1>4, <1>6
<1>11. pool'.open
  BY <1>1, <1>10 DEF Moves
<1>12. Inv(pool', row')
  <2> HIDE DEF c
  <2> QED BY <1>1, <1>5, <1>8, <1>9, <1>10, <1>11, RowMoves
<1> QED BY <1>12 DEF IInv, Seat

\* One row is stepped, or its queued work ends: what it holds is the same.
LEMMA RowKeeps ==
  ASSUME NEW p, NEW f, Inv(p, f), NEW r \in Rows, p.open, NEW c \in RowType, RowOK(c),
         c.kv = f[r].kv, c.fixed = f[r].fixed
  PROVE  Inv(p, [f EXCEPT ![r] = c])
<1>1. Moves(p, p, 0, 0)
  BY Unmoved DEF Inv
<1>2. Bit(c.kv > 0) - Bit(f[r].kv > 0) = 0 /\ Bit(c.fixed) - Bit(f[r].fixed) = 0
  <2>1. Bit(c.kv > 0) \in Int /\ Bit(c.fixed) \in Int
    BY DEF Bit
  <2> QED BY <2>1
<1> QED BY <1>1, <1>2, RowMoves

LEMMA StepKeeps ==
  ASSUME IInv, NEW r \in Rows, Step(r)
  PROVE  IInv'
<1>1. /\ Inv(pool, row) /\ pool.open /\ row \in [Rows -> RowType]
      /\ row[r] \in RowType /\ RowOK(row[r])
  BY Existing DEF Step
<1>2. /\ row[r].at = "seated" /\ row[r].kv > 0 /\ row[r].used < row[r].need.top
      /\ row[r].used < Capacity(row[r]) /\ pool' = pool /\ marks' = marks
      /\ row' = [row EXCEPT ![r].used = @ + 1, ![r].busy = TRUE]
  BY DEF Step
<1> DEFINE c == [row[r] EXCEPT !.used = @ + 1, !.busy = TRUE]
<1>3. row' = [row EXCEPT ![r] = c]
  BY <1>1, <1>2 DEF RowType
<1>4. /\ c.at = "seated" /\ c.kv = row[r].kv /\ c.fixed = row[r].fixed
      /\ c.need = row[r].need /\ c.used = row[r].used + 1
  BY <1>1, <1>2 DEF RowType
<1>5. row[r].need \in Shapes
  BY <1>1, <1>2 DEF RowOK
<1>6. row[r].need.top \in Nat /\ row[r].need.top <= Top /\ Top \in Nat
  BY <1>5, SizesFit
<1>7. row[r].used + 1 \in 0..Top /\ row[r].kv \in Nat /\ row[r].used \in Nat
  BY <1>1, <1>2, <1>6, RowTypes
<1>8. c \in RowType
  BY <1>1, <1>7 DEF RowType
<1>9. RowOK(c)
  <2> HIDE DEF c
  <2>1. Capacity(c) = Capacity(row[r]) /\ Capacity(row[r]) \in Nat
    BY <1>4, <1>6, <1>7 DEF Capacity
  <2>2. c.used <= Capacity(c) /\ c.need.floor < Capacity(c)
    BY <1>1, <1>2, <1>4, <1>7, <2>1 DEF RowOK
  <2> QED BY <1>2, <1>4, <1>5, <2>2 DEF RowOK
<1>10. Inv(pool, [row EXCEPT ![r] = c])
  <2> HIDE DEF c
  <2> QED BY <1>1, <1>4, <1>8, <1>9, RowKeeps
<1>11. Inv(pool', row')
  BY <1>2, <1>3, <1>10
<1> QED BY <1>2, <1>11 DEF IInv

LEMMA RowDoneKeeps ==
  ASSUME IInv, NEW r \in Rows, RowDone(r)
  PROVE  IInv'
<1>1. /\ row[r].busy /\ row' = [row EXCEPT ![r].busy = FALSE]
      /\ pool' = pool /\ marks' = marks
  BY DEF RowDone
<1>2. /\ Inv(pool, row) /\ row \in [Rows -> RowType] /\ row[r] \in RowType /\ RowOK(row[r])
  BY Existing
<1>3. pool.open
  BY <1>1, <1>2, Existing DEF RowOK, RowType
<1> DEFINE c == [row[r] EXCEPT !.busy = FALSE]
<1>4. row' = [row EXCEPT ![r] = c]
  BY <1>1, <1>2 DEF RowType
<1>5. /\ c.at = row[r].at /\ c.kv = row[r].kv /\ c.fixed = row[r].fixed
      /\ c.need = row[r].need /\ c.used = row[r].used /\ c.busy = FALSE
  BY <1>2 DEF RowType
<1>6. c \in RowType
  BY <1>2 DEF RowType
<1>7. RowOK(c)
  <2> HIDE DEF c
  <2>1. Capacity(c) = Capacity(row[r])
    BY <1>5 DEF Capacity
  <2> QED BY <1>2, <1>5, <2>1 DEF RowOK
<1>8. Inv(pool, [row EXCEPT ![r] = c])
  <2> HIDE DEF c
  <2> QED BY <1>2, <1>3, <1>5, <1>6, <1>7, RowKeeps
<1>9. Inv(pool', row')
  BY <1>1, <1>4, <1>8
<1> QED BY <1>1, <1>9 DEF IInv

LEMMA MarkKeeps ==
  ASSUME IInv, Mark
  PROVE  IInv'
<1>1. Inv(pool', row') /\ marks \in 0..Marks
  BY DEF IInv, Mark
<1>2. marks' \in 0..Marks
  BY <1>1, BoundsAreNat DEF Mark
<1> QED BY <1>1, <1>2 DEF IInv

LEMMA SetDoneKeeps ==
  ASSUME IInv, SetDone
  PROVE  IInv'
<1>1. PICK i \in Indices(pool.sets) :
        pool.sets[i].busy /\ pool' = [pool EXCEPT !.sets[i].busy = FALSE]
  BY DEF SetDone
<1>2. row' = row /\ marks' = marks
  BY DEF SetDone
<1>3. Inv(pool, row) /\ Good(pool) /\ Closed(pool, row)
  BY DEF IInv, Inv
<1> DEFINE x == [pool.sets[i] EXCEPT !.busy = FALSE]
           t == [pool.sets EXCEPT ![i] = x]
<1>4. /\ pool.sets \in Seq(Sets) /\ Len(pool.sets) \in Nat /\ Len(pool.sets) <= PoolCap
      /\ pool.open \in BOOLEAN /\ Cardinality(Stocked(pool.sets)) \in Nat
      /\ Cardinality(FixedIn(pool.sets)) \in Nat
  BY <1>3, PoolParts
<1>5. pool.sets[i] \in Sets
  BY <1>4, ElementOfSeq DEF Indices
<1>6. x \in Sets /\ x.kv = pool.sets[i].kv /\ x.fixed = pool.sets[i].fixed
  BY <1>5 DEF Sets
<1>7. /\ t \in Seq(Sets) /\ Len(t) = Len(pool.sets)
      /\ Cardinality(Stocked(t)) =
           Cardinality(Stocked(pool.sets)) - Bit(pool.sets[i].kv > 0) + Bit(x.kv > 0)
      /\ Cardinality(FixedIn(t)) =
           Cardinality(FixedIn(pool.sets)) - Bit(pool.sets[i].fixed) + Bit(x.fixed)
  <2> HIDE DEF x
  <2> QED BY <1>4, <1>6, SetsUpdated
<1>8. pool' = [pool EXCEPT !.sets = t]
  BY <1>1, <1>3 DEF Good, PoolType
<1>9. Moves(pool, pool', 0, 0)
  <2> HIDE DEF t
  <2>1. Moves(pool, pool', Cardinality(Stocked(pool.sets)) - Cardinality(Stocked(t)),
              Cardinality(FixedIn(pool.sets)) - Cardinality(FixedIn(t)))
    BY <1>3, <1>4, <1>7, <1>8, SetsMoved
  <2> HIDE DEF x
  <2>2. Bit(pool.sets[i].kv > 0) \in Int /\ Bit(pool.sets[i].fixed) \in Int
    BY DEF Bit
  <2>3. /\ Cardinality(Stocked(pool.sets)) - Cardinality(Stocked(t)) = 0
        /\ Cardinality(FixedIn(pool.sets)) - Cardinality(FixedIn(t)) = 0
    BY <1>4, <1>6, <1>7, <2>2
  <2> QED BY <2>1, <2>3
<1>10. pool'.open
  <2>1. pool.sets # <<>>
    BY DEF Indices
  <2> QED BY <1>3, <1>4, <1>9, <2>1 DEF Closed, Moves
<1>11. Inv(pool', row')
  BY <1>2, <1>3, <1>9, <1>10, PoolMoves
<1> QED BY <1>2, <1>11 DEF IInv

\* What a cache just given to a row makes of it.
LEMMA Refitted ==
  ASSUME NEW c \in RowType, NEW kv \in 0..Top, NEW fixed \in BOOLEAN, NEW shape \in Shapes,
         fixed => kv > 0, kv > 0 => kv > shape.floor,
         c.at = "seated", c.kv = kv, c.fixed = fixed, c.need = shape, c.used = shape.floor
  PROVE  RowOK(c)
<1>1. /\ shape.floor \in Nat /\ shape.top \in Nat /\ shape.floor < shape.top /\ Top \in Nat
  BY SizesFit
<1>2. c.kv > 0 => c.used <= Capacity(c) /\ c.need.floor < Capacity(c)
  BY <1>1 DEF Capacity
<1> QED BY <1>2 DEF RowOK

LEMMA ReserveTextKeeps ==
  ASSUME IInv, NEW r \in Rows, ReserveText(r)
  PROVE  IInv'
<1>1. /\ Inv(pool, row) /\ Good(pool) /\ pool.open /\ row \in [Rows -> RowType]
      /\ row[r] \in RowType /\ RowOK(row[r]) /\ row[r].at = "seated" /\ marks' = marks
  BY Existing DEF ReserveText
<1>2. PICK shape \in Shapes : \E o \in Reseats(row[r], shape) :
        /\ pool' = o.p
        /\ row' = [row EXCEPT ![r].kv = o.kv, ![r].fixed = o.fixed,
                              ![r].need = shape, ![r].used = shape.floor]
  BY DEF ReserveText
<1>3. PICK o \in Reseats(row[r], shape) :
        /\ pool' = o.p
        /\ row' = [row EXCEPT ![r].kv = o.kv, ![r].fixed = o.fixed,
                              ![r].need = shape, ![r].used = shape.floor]
  BY <1>2
<1> DEFINE c == [row[r] EXCEPT !.kv = o.kv, !.fixed = o.fixed,
                               !.need = shape, !.used = shape.floor]
<1>4. Holder(row[r])
  BY <1>1 DEF RowOK, RowType, Holder
<1>5. /\ Moves(pool, o.p, Bit(o.kv > 0) - Bit(row[r].kv > 0), Bit(o.fixed) - Bit(row[r].fixed))
      /\ Holder(o) /\ (o.kv > 0 => o.kv > shape.floor)
  BY <1>1, <1>3, <1>4, ReseatsMove
<1>7. o.kv \in 0..Top /\ o.fixed \in BOOLEAN /\ (o.fixed => o.kv > 0)
  BY <1>5 DEF Holder
<1>11. row' = [row EXCEPT ![r] = c]
  BY <1>1, <1>3 DEF RowType
<1>12. /\ c.at = "seated" /\ c.kv = o.kv /\ c.fixed = o.fixed /\ c.need = shape
       /\ c.used = shape.floor
  BY <1>1 DEF RowType
<1>13. c \in RowType
  <2>1. shape.floor \in 0..Top
    BY SizesFit
  <2> QED BY <1>1, <1>7, <2>1 DEF RowType
<1> HIDE DEF c
<1>14. RowOK(c)
  BY <1>5, <1>7, <1>12, <1>13, Refitted
<1>15. Moves(pool, pool', Bit(c.kv > 0) - Bit(row[r].kv > 0), Bit(c.fixed) - Bit(row[r].fixed))
  BY <1>3, <1>5, <1>12
<1>16. pool'.open
  BY <1>1, <1>15 DEF Moves
<1>17. Inv(pool', row')
  BY <1>1, <1>11, <1>13, <1>14, <1>15, <1>16, RowMoves
<1> QED BY <1>1, <1>17 DEF IInv

LEMMA PoolDrainKeeps ==
  ASSUME IInv, PoolDrain
  PROVE  IInv'
<1>1. /\ Good(pool) /\ RowsOK(row) /\ Exact(pool, row) /\ marks' = marks /\ row' = row
      /\ \A r \in Rows : row[r].at = "none"
  BY DEF IInv, Inv, PoolDrain
<1>2. pool' = [pool EXCEPT !.made = @ - Cardinality(Stocked(pool.sets)) - Len(pool.spares),
                           !.live = @ - Cardinality(FixedIn(pool.sets)) - Len(pool.spares),
                           !.sets = <<>>, !.spares = <<>>, !.open = FALSE]
  BY DEF PoolDrain
<1>3. /\ pool.live \in Int /\ pool.made \in Int /\ Len(pool.spares) \in Nat
      /\ Cardinality(Stocked(pool.sets)) \in Nat /\ Cardinality(FixedIn(pool.sets)) \in Nat
  BY <1>1, PoolParts
<1>4. Owners(row) = {} /\ FixedOwners(row) = {}
  <2>1. \A r \in Rows : row[r].kv = 0 /\ ~row[r].fixed
    <3>1. SUFFICES ASSUME NEW r \in Rows PROVE row[r].kv = 0 /\ ~row[r].fixed
      OBVIOUS
    <3>2. RowOK(row[r]) /\ row[r].at = "none"
      BY <1>1 DEF RowsOK
    <3> QED BY <3>2 DEF RowOK
  <2> QED BY <2>1 DEF Owners, FixedOwners
<1>5. Held(pool) = 0 /\ Booked(pool) = 0
  BY <1>1, <1>4, FS_EmptySet DEF Exact
<1>6. /\ pool'.sets = <<>> /\ pool'.spares = <<>> /\ pool'.open = FALSE
      /\ pool'.made = pool.made - Cardinality(Stocked(pool.sets)) - Len(pool.spares)
      /\ pool'.live = pool.live - Cardinality(FixedIn(pool.sets)) - Len(pool.spares)
  BY <1>1, <1>2 DEF Good, PoolType
<1>7. pool'.made = 0 /\ pool'.live = 0
  BY <1>3, <1>5, <1>6 DEF Held, Booked
<1>8. Good(pool')
  <2>1. <<>> \in Seq(Sets) /\ <<>> \in Seq(1..Top) /\ Len(<<>>) = 0
    OBVIOUS
  <2>2. pool' \in PoolType
    <3>1. /\ pool.made - Cardinality(Stocked(pool.sets)) - Len(pool.spares) \in Int
          /\ pool.live - Cardinality(FixedIn(pool.sets)) - Len(pool.spares) \in Int
      BY <1>3
    <3> QED BY <1>1, <1>2, <2>1, <3>1 DEF Good, PoolType
  <2> QED BY <1>6, <2>1, <2>2, BoundsAreNat DEF Good
<1>9. Exact(pool', row')
  <2>1. Stocked(<<>>) = {} /\ FixedIn(<<>>) = {}
    BY DEF Stocked, FixedIn, Indices
  <2>2. Cardinality({}) = 0
    BY FS_EmptySet
  <2>3. /\ Cardinality(Stocked(pool'.sets)) = 0 /\ Cardinality(FixedIn(pool'.sets)) = 0
        /\ Len(pool'.spares) = 0
    BY <1>6, <2>1, <2>2, Zenon, Len(<<>>) = 0
  <2>4. Held(pool') = 0 /\ Booked(pool') = 0
    BY <1>7, <2>3 DEF Held, Booked
  <2> QED BY <1>1, <1>4, <2>2, <2>4 DEF Exact
<1>10. Closed(pool', row')
  BY <1>1, <1>6 DEF Closed
<1>11. Inv(pool', row')
  BY <1>1, <1>8, <1>9, <1>10 DEF Inv
<1> QED BY <1>1, <1>11 DEF IInv

\* A row that was just given a set, or none.
LEMMA Given ==
  ASSUME NEW shape \in Shapes, NEW kv \in 0..Top, NEW fixed \in BOOLEAN, fixed => kv > 0
  PROVE  LET empty == [NoRow EXCEPT !.at = "taken", !.need = shape]
             c == [at |-> "taken", kv |-> kv, fixed |-> fixed, busy |-> FALSE,
                   need |-> shape, used |-> 0]
         IN /\ c \in RowType /\ RowOK(c)
            /\ empty = [at |-> "taken", kv |-> 0, fixed |-> FALSE, busy |-> FALSE,
                        need |-> shape, used |-> 0]
            /\ [empty EXCEPT !.kv = kv, !.fixed = fixed, !.busy = FALSE] = c
<1> DEFINE empty == [NoRow EXCEPT !.at = "taken", !.need = shape]
           bare == [at |-> "taken", kv |-> 0, fixed |-> FALSE, busy |-> FALSE,
                    need |-> shape, used |-> 0]
           c == [at |-> "taken", kv |-> kv, fixed |-> fixed, busy |-> FALSE,
                 need |-> shape, used |-> 0]
<1>1. ASSUME NEW x, x = empty PROVE x = bare
  BY <1>1 DEF NoRow
<1>2. ASSUME NEW x, x = [bare EXCEPT !.kv = kv, !.fixed = fixed, !.busy = FALSE] PROVE x = c
  BY <1>2
<1>3. c \in RowType
  <2>1. 0 \in 0..Top
    BY SizesFit
  <2> QED BY <2>1 DEF RowType
<1>4. RowOK(c)
  BY DEF RowOK
<1> HIDE DEF empty, bare, c
<1>5. [empty EXCEPT !.kv = kv, !.fixed = fixed, !.busy = FALSE] = c
  BY <1>1, <1>2
<1> QED BY <1>1, <1>3, <1>4, <1>5 DEF bare, empty, c

\* The pool after a re-plan, where one is due, and a move of the size; the
\* rows are drained exactly where it is.
LEMMA TakeKeeps ==
  ASSUME IInv, NEW r \in Rows, Take(r)
  PROVE  IInv'
<1>1. /\ Inv(pool, row) /\ Good(pool) /\ pool.open /\ row \in [Rows -> RowType] /\ marks \in Nat
      /\ row[r] \in RowType /\ RowOK(row[r]) /\ row[r].at = "none" /\ marks' = marks
  BY Existing DEF Take
<1> DEFINE drained == IF pool.mark = marks THEN row ELSE QuietRows
           empty(shape) == [NoRow EXCEPT !.at = "taken", !.need = shape]
           Takes(p, shape) ==
             IF Pick(p, shape) = 0
               THEN /\ pool' = p
                    /\ row' = [drained EXCEPT ![r] = empty(shape)]
               ELSE /\ pool' = [p EXCEPT !.sets = Without(@, Pick(p, shape))]
                    /\ row' = [drained EXCEPT ![r] =
                                 [empty(shape) EXCEPT !.kv = Settled(p.sets[Pick(p, shape)]).kv,
                                    !.fixed = Settled(p.sets[Pick(p, shape)]).fixed,
                                    !.busy = Settled(p.sets[Pick(p, shape)]).busy]]
<1>2. PICK shape \in Shapes :
        \E planned \in (IF pool.mark = marks THEN {pool} ELSE Replans(pool)) :
        \E p \in Adapts(planned) : Takes(p, shape)
  BY Zenon DEF Take
<1>3. PICK planned \in (IF pool.mark = marks THEN {pool} ELSE Replans(pool)) :
        \E p \in Adapts(planned) : Takes(p, shape)
  BY <1>2
<1>4. PICK p \in Adapts(planned) : Takes(p, shape)
  BY <1>3
<1> HIDE DEF Takes
<1>5. Moves(pool, planned, 0, 0)
  <2>1. Booked(pool) \in Nat
    BY <1>1, OwnersFinite DEF Inv, Exact
  <2>2. CASE pool.mark = marks
    BY <1>1, <1>3, <2>2, Unmoved
  <2>3. CASE pool.mark # marks
    BY <1>1, <1>3, <2>1, <2>3, ReplansMove
  <2> QED BY <2>2, <2>3
<1>6. Moves(pool, p, 0, 0)
  <2>1. Good(planned)
    BY <1>5 DEF Moves
  <2>2. Moves(planned, p, 0, 0)
    BY <1>4, <2>1, AdaptsMove
  <2>3. Moves(pool, p, 0 + 0, 0 + 0)
    BY <1>1, <1>5, <2>2, MovesInTurn
  <2> QED BY <2>3
<1>7. Good(p) /\ p.open
  BY <1>1, <1>6 DEF Moves
<1>8. /\ Inv(pool, drained) /\ drained \in [Rows -> RowType]
      /\ drained[r].kv = row[r].kv /\ drained[r].fixed = row[r].fixed
  <2>1. CASE pool.mark = marks
    BY <1>1, <2>1
  <2>2. CASE pool.mark # marks
    <3>1. drained = Quieted(row)
      BY <2>2 DEF QuietRows, Quieted
    <3>2. Inv(pool, Quieted(row)) /\ \A q \in Rows : /\ Quieted(row)[q].kv = row[q].kv
                                                     /\ Quieted(row)[q].fixed = row[q].fixed
      BY <1>1, QuietedKeeps
    <3>3. Quieted(row) \in [Rows -> RowType]
      BY <3>2 DEF Inv, RowsOK
    <3> HIDE DEF drained
    <3> QED BY <3>1, <3>2, <3>3
  <2> QED BY <2>1, <2>2
<1> HIDE DEF drained
<1>9. drained[r].kv = 0 /\ drained[r].fixed = FALSE
  BY <1>1, <1>8 DEF RowOK, RowType
<1>10. Inv(p, drained)
  BY <1>6, <1>7, <1>8, PoolMoves
<1>11. ASSUME NEW kv \in 0..Top, NEW fixed \in BOOLEAN, fixed => kv > 0,
              NEW q, Moves(p, q, Bit(kv > 0), Bit(fixed)),
              NEW c, c = [empty(shape) EXCEPT !.kv = kv, !.fixed = fixed, !.busy = FALSE]
       PROVE  Inv(q, [drained EXCEPT ![r] = c])
  <2> DEFINE d == [at |-> "taken", kv |-> kv, fixed |-> fixed, busy |-> FALSE, need |-> shape,
                   used |-> 0]
  <2>1. c = d /\ d \in RowType /\ RowOK(d)
    <3>1. /\ d \in RowType /\ RowOK(d)
          /\ [empty(shape) EXCEPT !.kv = kv, !.fixed = fixed, !.busy = FALSE] = d
      BY <1>11, Zenon, Given
    <3> QED BY <1>11, <3>1
  <2>2. c.kv = kv /\ c.fixed = fixed
    BY <2>1
  <2> HIDE DEF d
  <2>4. Bit(kv > 0) - Bit(drained[r].kv > 0) = Bit(kv > 0) /\ Bit(fixed) - Bit(drained[r].fixed) = Bit(fixed)
    BY <1>9 DEF Bit
  <2>5. Moves(p, q, Bit(c.kv > 0) - Bit(drained[r].kv > 0), Bit(c.fixed) - Bit(drained[r].fixed))
    BY <1>11, <2>2, <2>4
  <2>6. q.open
    BY <1>7, <1>11 DEF Moves
  <2> QED BY <1>10, <2>1, <2>5, <2>6, RowMoves
<1> HIDE DEF empty
<1>12. CASE Pick(p, shape) = 0
  <2>1. pool' = p /\ row' = [drained EXCEPT ![r] = empty(shape)]
    BY <1>4, <1>12 DEF Takes
  <2>2. empty(shape) = [empty(shape) EXCEPT !.kv = 0, !.fixed = FALSE, !.busy = FALSE]
    <3>1. 0 \in 0..Top /\ FALSE \in BOOLEAN
      BY SizesFit
    <3> QED BY <3>1, Given DEF empty
  <2>3. Moves(p, p, Bit(0 > 0), Bit(FALSE))
    BY <1>7, Unmoved DEF Bit
  <2>4. 0 \in 0..Top /\ FALSE \in BOOLEAN
    BY SizesFit
  <2>5. Inv(p, [drained EXCEPT ![r] = empty(shape)])
    BY <2>2, <2>3, <2>4, <1>11
  <2>6. Inv(pool', row')
    BY <2>1, <2>5
  <2> QED BY <1>1, <2>6 DEF IInv
<1>13. CASE Pick(p, shape) # 0
  <2> DEFINE i == Pick(p, shape)
             s == Settled(p.sets[i])
             q == [p EXCEPT !.sets = Without(@, i)]
  <2>1. /\ pool' = q
        /\ row' = [drained EXCEPT ![r] = [empty(shape) EXCEPT !.kv = s.kv, !.fixed = s.fixed,
                                                              !.busy = s.busy]]
    BY <1>4, <1>13 DEF Takes
  <2>2. i \in Indices(p.sets)
    BY <1>7, <1>13, PickIsParked
  <2> HIDE DEF i
  <2>3. Moves(p, q, Bit(p.sets[i].kv > 0), Bit(p.sets[i].fixed)) /\ p.sets[i] \in Sets
    BY <1>7, <2>2, TakenMoves
  <2>4. s.kv = p.sets[i].kv /\ s.fixed = p.sets[i].fixed /\ s.busy = FALSE
    BY <2>3 DEF Settled, Sets
  <2>5. s.kv \in 0..Top /\ s.fixed \in BOOLEAN /\ (s.fixed => s.kv > 0)
    BY <2>3, <2>4 DEF Sets
  <2> HIDE DEF s, q
  <2>6. Moves(p, q, Bit(s.kv > 0), Bit(s.fixed))
    BY <2>3, <2>4
  <2>7. Inv(q, [drained EXCEPT ![r] =
                  [empty(shape) EXCEPT !.kv = s.kv, !.fixed = s.fixed, !.busy = FALSE]])
    BY <2>5, <2>6, <1>11
  <2>8. Inv(pool', row')
    BY <2>1, <2>4, <2>7
  <2> QED BY <1>1, <2>8 DEF IInv
<1> QED BY <1>12, <1>13

\* A row that has used its cache up asks for a larger one, within its text.
LEMMA WantsMore ==
  ASSUME NEW c \in RowType, RowOK(c), c.at = "seated", c.kv > 0, c.used < c.need.top,
         c.used >= Capacity(c)
  PROVE  /\ Wanted(c) \in 1..Top /\ Wanted(c) > c.kv
         /\ \A d \in RowType : d.at = "seated" /\ d.kv >= Wanted(c) /\ d.need = c.need
                               /\ d.used = c.used => RowOK(d) /\ d.kv > 0
<1>1. c.need \in Shapes
  BY DEF RowOK
<1>2. /\ c.need.floor \in Nat /\ c.need.top \in Nat /\ c.need.top <= Top /\ Top \in Nat
      /\ Chunk \in Nat /\ Chunk > 0
  BY <1>1, SizesFit, SlotAssumption
<1>3. c.kv \in Nat /\ c.used \in Nat
  BY RowTypes
<1>4. c.used <= Capacity(c) /\ c.need.floor < Capacity(c)
  BY DEF RowOK
<1>5. Capacity(c) = c.kv /\ c.kv < c.need.top /\ c.used = c.kv
  BY <1>2, <1>3, <1>4 DEF Capacity
<1>6. Wanted(c) \in Nat /\ Wanted(c) > c.kv /\ Wanted(c) <= c.need.top
  BY <1>2, <1>3, <1>5 DEF Wanted
<1>7. ASSUME NEW d \in RowType, d.at = "seated", d.kv >= Wanted(c), d.need = c.need,
             d.used = c.used
      PROVE  RowOK(d) /\ d.kv > 0
  <2>1. d.kv \in Nat
    BY RowTypes
  <2>2. d.used <= Capacity(d) /\ d.need.floor < Capacity(d) /\ d.kv > 0
    BY <1>2, <1>3, <1>4, <1>5, <1>6, <1>7, <2>1 DEF Capacity
  <2> QED BY <1>1, <1>7, <2>2 DEF RowOK
<1> QED BY <1>2, <1>3, <1>6, <1>7

LEMMA ReservesKeeps ==
  ASSUME IInv, NEW r \in Rows, Reserves(r)
  PROVE  IInv'
<1> DEFINE c == [r |-> r, kv |-> row[r].kv, fixed |-> row[r].fixed, need |-> row[r].need,
                 used |-> row[r].used]
<1>1. /\ row[r].at = "seated" /\ row[r].kv > 0
      /\ row[r].used < row[r].need.top /\ row[r].used >= Capacity(row[r])
      /\ Grow(c) \/ GrowInPlace(c)
      /\ marks' = marks
  BY DEF Reserves
<1>2. /\ Inv(pool, row) /\ Good(pool) /\ pool.open /\ row \in [Rows -> RowType]
      /\ row[r] \in RowType /\ RowOK(row[r])
  BY <1>1, Existing
<1> DEFINE want == Wanted(row[r])
<1>3. /\ want \in 1..Top /\ want > row[r].kv
      /\ \A d \in RowType : d.at = "seated" /\ d.kv >= want /\ d.need = row[r].need
                            /\ d.used = row[r].used => RowOK(d) /\ d.kv > 0
  BY <1>1, <1>2, WantsMore
<1>4. Wanted(c) = want
  BY DEF Wanted, Capacity
<1>5. row[r].kv \in 1..Top /\ row[r].fixed \in BOOLEAN /\ Top \in Nat
  BY <1>1, <1>2, RowTypes, SizesFit
<1>6. /\ Bit(row[r].kv > 0) = 1 /\ Bit(row[r].fixed) \in Int /\ Bit(TRUE) = 1
      /\ 1 - Bit(row[r].fixed) \in Int
  BY <1>1 DEF Bit
<1>7. ASSUME Grow(c) PROVE Inv(pool', row')
  <2>1. PICK node \in BOOLEAN : \E o \in Larger(pool, want) :
          \/ /\ pool' = StashOrFree(Counted(o.p, row[r].fixed), row[r].kv, node)
             /\ row' = [row EXCEPT ![r].kv = o.kv, ![r].fixed = TRUE]
          \/ /\ pool' = StashOrFree(o.p, o.kv, node)
             /\ row' = row
    <3> HIDE DEF want
    <3> QED BY <1>4, <1>7 DEF Grow
  <2>2. PICK o \in Larger(pool, want) :
          \/ /\ pool' = StashOrFree(Counted(o.p, row[r].fixed), row[r].kv, node)
             /\ row' = [row EXCEPT ![r].kv = o.kv, ![r].fixed = TRUE]
          \/ /\ pool' = StashOrFree(o.p, o.kv, node)
             /\ row' = row
    BY <2>1
  <2> HIDE DEF want, c
  <2>3. Moves(pool, o.p, 1, 1) /\ o.kv \in 1..Top /\ o.kv >= want
    BY <1>2, <1>3, LargerMoves
  <2>4. Good(o.p)
    BY <2>3 DEF Moves
  <2>5. CASE /\ pool' = StashOrFree(o.p, o.kv, node)
             /\ row' = row
    <3>1. Moves(o.p, pool', -1, -1)
      BY <2>3, <2>4, <2>5, StashOrFreeMoves
    <3>2. Moves(pool, pool', 1 + -1, 1 + -1)
      BY <1>2, <2>3, <3>1, MovesInTurn
    <3>3. Moves(pool, pool', 0, 0)
      BY <3>2
    <3>4. pool'.open
      BY <1>2, <3>3 DEF Moves
    <3> QED BY <1>2, <2>5, <3>3, <3>4, PoolMoves
  <2>6. CASE /\ pool' = StashOrFree(Counted(o.p, row[r].fixed), row[r].kv, node)
             /\ row' = [row EXCEPT ![r].kv = o.kv, ![r].fixed = TRUE]
    <3> DEFINE d == [row[r] EXCEPT !.kv = o.kv, !.fixed = TRUE]
               p == Counted(o.p, row[r].fixed)
    <3>1. Moves(o.p, p, 0, 1 - Bit(row[r].fixed))
      BY <1>5, <2>4, CountedOrNot
    <3>2. Good(p)
      BY <3>1 DEF Moves
    <3> HIDE DEF p
    <3>3. Moves(p, pool', -1, -1)
      <4>1. pool' = StashOrFree(p, row[r].kv, node)
        BY <2>6 DEF p
      <4> QED BY <1>5, <3>2, <4>1, StashOrFreeMoves
    <3>4. Moves(pool, p, 1 + 0, 1 + (1 - Bit(row[r].fixed)))
      BY <1>2, <1>6, <2>3, <3>1, MovesInTurn
    <3>5. Moves(pool, pool', (1 + 0) + -1, (1 + (1 - Bit(row[r].fixed))) + -1)
      <4>1. 1 + 0 \in Int /\ 1 + (1 - Bit(row[r].fixed)) \in Int /\ -1 \in Int
        BY <1>6
      <4> QED BY <1>2, <3>3, <3>4, <4>1, MovesInTurn
    <3>6. (1 + 0) + -1 = 1 - Bit(row[r].kv > 0) /\ (1 + (1 - Bit(row[r].fixed))) + -1 = 1 - Bit(row[r].fixed)
      BY <1>6
    <3>7. row' = [row EXCEPT ![r] = d]
      BY <1>2, <2>6 DEF RowType
    <3>8. /\ d.at = "seated" /\ d.kv = o.kv /\ d.fixed = TRUE /\ d.need = row[r].need
          /\ d.used = row[r].used
      BY <1>1, <1>2 DEF RowType
    <3>9. d \in RowType
      <4>1. o.kv \in 0..Top
        BY <2>3, <1>5
      <4> QED BY <1>2, <4>1 DEF RowType
    <3> HIDE DEF d
    <3>10. RowOK(d) /\ d.kv > 0
      BY <1>3, <2>3, <3>8, <3>9
    <3>11. Bit(d.kv > 0) = 1 /\ Bit(d.fixed) = 1
      BY <3>8, <3>10 DEF Bit
    <3>12. Moves(pool, pool', Bit(d.kv > 0) - Bit(row[r].kv > 0), Bit(d.fixed) - Bit(row[r].fixed))
      BY <3>5, <3>6, <3>11
    <3>13. pool'.open
      BY <1>2, <3>12 DEF Moves
    <3> QED BY <1>2, <3>7, <3>9, <3>10, <3>12, <3>13, RowMoves
  <2> QED BY <2>2, <2>5, <2>6
<1>8. ASSUME GrowInPlace(c) PROVE Inv(pool', row')
  <2>1. /\ pool' = Quiet(Freed(Allocated(pool)))
        /\ row' = [QuietRows EXCEPT ![r].kv = want]
    <3> HIDE DEF want
    <3> QED BY <1>4, <1>8 DEF GrowInPlace
  <2> HIDE DEF want, c
  <2>2. Moves(pool, Allocated(pool), 1, 0)
    BY <1>2, CountedOnce
  <2>3. Moves(Allocated(pool), Freed(Allocated(pool)), -1, 0)
    BY <2>2, CountedOnce DEF Moves
  <2>4. Moves(pool, Freed(Allocated(pool)), 1 + -1, 0 + 0)
    BY <1>2, <2>2, <2>3, MovesInTurn
  <2>5. Good(Freed(Allocated(pool)))
    BY <2>4 DEF Moves
  <2>6. Moves(Freed(Allocated(pool)), pool', 0, 0)
    BY <2>1, <2>5, QuietMoves
  <2>7. Moves(pool, pool', (1 + -1) + 0, (0 + 0) + 0)
    <3>1. 1 + -1 \in Int /\ 0 + 0 \in Int
      OBVIOUS
    <3> QED BY <1>2, <2>4, <2>6, <3>1, MovesInTurn
  <2>8. Moves(pool, pool', 0, 0)
    BY <2>7
  <2> DEFINE f == Quieted(row)
             d == [f[r] EXCEPT !.kv = want]
  <2>9. QuietRows = f
    BY DEF QuietRows, Quieted
  <2>10. /\ Inv(pool, f) /\ f[r].kv = row[r].kv /\ f[r].fixed = row[r].fixed
    BY <1>2, QuietedKeeps
  <2>11. /\ f \in [Rows -> RowType] /\ f[r] \in RowType /\ f[r].at = "seated"
         /\ f[r].need = row[r].need /\ f[r].used = row[r].used
    <3>1. f \in [Rows -> RowType] /\ f[r] \in RowType
      BY <2>10 DEF Inv, RowsOK
    <3> QED BY <1>1, <1>2, <3>1 DEF Quieted, RowType
  <2> HIDE DEF f
  <2>12. row' = [f EXCEPT ![r] = d]
    BY <2>1, <2>9, <2>11 DEF RowType
  <2>13. /\ d.at = "seated" /\ d.kv = want /\ d.fixed = f[r].fixed /\ d.need = row[r].need
         /\ d.used = row[r].used
    BY <2>11 DEF RowType
  <2>14. d \in RowType
    BY <1>3, <1>5, <2>11 DEF RowType
  <2> HIDE DEF d
  <2>15. RowOK(d) /\ d.kv > 0
    BY <1>3, <2>13, <2>14
  <2>16. Bit(d.kv > 0) - Bit(f[r].kv > 0) = 0 /\ Bit(d.fixed) - Bit(f[r].fixed) = 0
    <3>1. Bit(d.kv > 0) = 1 /\ Bit(f[r].kv > 0) = 1 /\ Bit(d.fixed) \in Int
      BY <1>1, <2>10, <2>15 DEF Bit
    <3> QED BY <2>13, <3>1
  <2>17. Moves(pool, pool', Bit(d.kv > 0) - Bit(f[r].kv > 0), Bit(d.fixed) - Bit(f[r].fixed))
    BY <2>8, <2>16
  <2>18. pool'.open
    BY <1>2, <2>8 DEF Moves
  <2> QED BY <2>10, <2>12, <2>14, <2>15, <2>17, <2>18, RowMoves
<1> QED BY <1>1, <1>7, <1>8 DEF IInv

\* What is left of a set when its context retires is parked, or let go.
LEMMA PutAway ==
  ASSUME NEW p, Good(p), NEW set \in Sets
  PROVE  /\ Moves(p, GoneIf(FreedIf(p, set.kv), set.fixed), 0 - Bit(set.kv > 0), 0 - Bit(set.fixed))
         /\ Len(p.sets) < PoolCap =>
              Moves(p, [p EXCEPT !.sets = <<set>> \o @], 0 - Bit(set.kv > 0), 0 - Bit(set.fixed))
<1>1. set.kv \in Nat /\ set.fixed \in BOOLEAN
  BY SetTypes
<1>2. Moves(p, GoneIf(FreedIf(p, set.kv), set.fixed), 0 - Bit(set.kv > 0), 0 - Bit(set.fixed))
  BY <1>1, CountedOrNot
<1>3. ASSUME Len(p.sets) < PoolCap
      PROVE  Moves(p, [p EXCEPT !.sets = <<set>> \o @], 0 - Bit(set.kv > 0), 0 - Bit(set.fixed))
  <2> DEFINE t == <<set>> \o p.sets
  <2>1. /\ p.sets \in Seq(Sets) /\ Len(p.sets) \in Nat
        /\ Cardinality(Stocked(p.sets)) \in Nat /\ Cardinality(FixedIn(p.sets)) \in Nat
    BY PoolParts
  <2>2. /\ t \in Seq(Sets) /\ Len(t) = Len(p.sets) + 1
        /\ Cardinality(Stocked(t)) = Cardinality(Stocked(p.sets)) + Bit(set.kv > 0)
        /\ Cardinality(FixedIn(t)) = Cardinality(FixedIn(p.sets)) + Bit(set.fixed)
    BY <2>1, SetsPrepended
  <2> HIDE DEF t
  <2>3. Len(t) <= PoolCap
    BY <1>3, <2>1, <2>2, BoundsAreNat
  <2>4. Moves(p, [p EXCEPT !.sets = t], Cardinality(Stocked(p.sets)) - Cardinality(Stocked(t)),
              Cardinality(FixedIn(p.sets)) - Cardinality(FixedIn(t)))
    BY <2>2, <2>3, SetsMoved
  <2>5. Bit(set.kv > 0) \in Int /\ Bit(set.fixed) \in Int
    BY DEF Bit
  <2>6. /\ Cardinality(Stocked(p.sets)) - Cardinality(Stocked(t)) = 0 - Bit(set.kv > 0)
        /\ Cardinality(FixedIn(p.sets)) - Cardinality(FixedIn(t)) = 0 - Bit(set.fixed)
    BY <2>1, <2>2, <2>5
  <2>7. Moves(p, [p EXCEPT !.sets = t], 0 - Bit(set.kv > 0), 0 - Bit(set.fixed))
    BY <2>4, <2>6
  <2> QED BY <2>7 DEF t
<1> QED BY <1>2, <1>3

LEMMA RetireKeeps ==
  ASSUME IInv, NEW r \in Rows, Retire(r)
  PROVE  IInv'
<1>1. /\ Inv(pool, row) /\ Good(pool) /\ pool.open /\ row \in [Rows -> RowType]
      /\ row[r] \in RowType /\ RowOK(row[r]) /\ row[r].at # "none" /\ marks' = marks
  BY Existing DEF Retire
<1> DEFINE c == row[r]
           aside(node) == Oversized(pool, c) /\ Placed(pool, node)
           trimmed(node) == Oversized(pool, c) /\ ~Placed(pool, node)
           given(node) == IF aside(node) THEN Stash(pool, c.kv)
                          ELSE IF trimmed(node) THEN Gone(Freed(pool)) ELSE pool
           rest(node) == IF aside(node) \/ trimmed(node) THEN 0 ELSE c.kv
           drained(node, recorded) == trimmed(node) \/ ~recorded
           setOf(node, recorded) ==
             [kv |-> rest(node), fixed |-> c.fixed /\ rest(node) > 0,
              busy |-> c.busy /\ ~drained(node, recorded), fence |-> recorded]
           leftOf(node, recorded) ==
             IF drained(node, recorded) THEN Quiet(given(node)) ELSE given(node)
<1>2. PICK node \in BOOLEAN : \E recorded \in BOOLEAN :
        /\ pool' = IF Len(pool.sets) >= PoolCap
                     THEN GoneIf(FreedIf(leftOf(node, recorded), rest(node)),
                                 setOf(node, recorded).fixed)
                     ELSE [leftOf(node, recorded) EXCEPT !.sets = <<setOf(node, recorded)>> \o @]
        /\ row' = [(IF drained(node, recorded) THEN QuietRows ELSE row) EXCEPT ![r] = NoRow]
  BY Zenon DEF Retire
<1>3. PICK recorded \in BOOLEAN :
        /\ pool' = IF Len(pool.sets) >= PoolCap
                     THEN GoneIf(FreedIf(leftOf(node, recorded), rest(node)),
                                 setOf(node, recorded).fixed)
                     ELSE [leftOf(node, recorded) EXCEPT !.sets = <<setOf(node, recorded)>> \o @]
        /\ row' = [(IF drained(node, recorded) THEN QuietRows ELSE row) EXCEPT ![r] = NoRow]
  BY <1>2
<1> DEFINE p == given(node)
           kv == rest(node)
           drains == drained(node, recorded)
           set == setOf(node, recorded)
           left == leftOf(node, recorded)
           f == IF drains THEN QuietRows ELSE row
<1>4. /\ c.kv \in Nat /\ c.kv <= Top /\ c.fixed \in BOOLEAN /\ c.busy \in BOOLEAN
      /\ (c.fixed => c.kv > 0) /\ Top \in Nat
  BY <1>1, RowTypes, SizesFit DEF RowOK
<1>5. /\ Moves(pool, p, Bit(kv > 0) - Bit(c.kv > 0), Bit(c.fixed /\ kv > 0) - Bit(c.fixed))
      /\ Len(p.sets) = Len(pool.sets) /\ kv \in 0..Top
  <2>1. CASE Oversized(pool, c)
    <3>1. kv = 0 /\ c.fixed = TRUE /\ c.kv > 0
      BY <1>4, <2>1 DEF Oversized
    <3>2. c.kv \in 1..Top
      BY <1>4, <3>1
    <3>3. Moves(pool, p, -1, -1) /\ Len(p.sets) = Len(pool.sets)
      <4>1. CASE Placed(pool, node)
        <5>1. p = Stash(pool, c.kv)
          BY <2>1, <4>1
        <5> QED BY <1>1, <3>2, <4>1, <5>1, StashMoves
      <4>2. CASE ~Placed(pool, node)
        <5>1. p = Gone(Freed(pool))
          BY <2>1, <4>2
        <5>2. Gone(Freed(pool)).sets = pool.sets
          BY <1>1 DEF Gone, Freed, Good, PoolType
        <5>3. Moves(pool, Gone(Freed(pool)), -1, -1)
          BY <1>1, CountedOnce
        <5> HIDE DEF p
        <5> QED BY <5>1, <5>2, <5>3
      <4> QED BY <4>1, <4>2
    <3> HIDE DEF p, kv, c
    <3>4. Bit(kv > 0) = 0 /\ Bit(c.kv > 0) = 1
      BY <3>1 DEF Bit
    <3>5. Bit(c.fixed) = 1
      BY <3>1 DEF Bit
    <3>6. Bit(c.fixed /\ kv > 0) = 0
      <4>1. (c.fixed /\ kv > 0) = FALSE
        BY <3>1
      <4> QED BY <4>1 DEF Bit
    <3>7. /\ Bit(kv > 0) - Bit(c.kv > 0) = -1
          /\ Bit(c.fixed /\ kv > 0) - Bit(c.fixed) = -1
      BY <3>4, <3>5, <3>6
    <3> QED BY <1>4, <3>1, <3>3, <3>7
  <2>2. CASE ~Oversized(pool, c)
    <3>1. p = pool /\ kv = c.kv
      BY <2>2
    <3> HIDE DEF p, kv, c
    <3>2. (c.fixed /\ kv > 0) = c.fixed
      BY <1>4, <3>1
    <3>3. Bit(c.kv > 0) \in Int /\ Bit(c.fixed) \in Int
      BY DEF Bit
    <3>4. Bit(kv > 0) - Bit(c.kv > 0) = 0
      BY <3>1, <3>3
    <3>5. Bit(c.fixed /\ kv > 0) - Bit(c.fixed) = 0
      <4>1. Bit(c.fixed /\ kv > 0) = Bit(c.fixed)
        BY <3>2, Zenon
      <4> QED BY <3>3, <4>1
    <3>6. Moves(pool, pool, 0, 0)
      BY <1>1, Unmoved
    <3> QED BY <1>4, <3>1, <3>4, <3>5, <3>6
  <2> QED BY <2>1, <2>2
<1>6. Good(p)
  BY <1>5 DEF Moves
<1>7. Moves(p, left, 0, 0) /\ Len(left.sets) = Len(p.sets)
  <2>1. left = IF drains THEN Quiet(p) ELSE p
    OBVIOUS
  <2> HIDE DEF left, p, drains
  <2> QED BY <1>6, <2>1, QuietMoves, Unmoved
<1>8. /\ set \in Sets /\ set.kv = kv /\ set.fixed = (c.fixed /\ kv > 0)
  <2>1. /\ set.kv = kv /\ set.fixed = (c.fixed /\ kv > 0)
        /\ set.busy = (c.busy /\ ~drains) /\ set.fence = recorded
        /\ set = [kv |-> kv, fixed |-> c.fixed /\ kv > 0, busy |-> c.busy /\ ~drains,
                  fence |-> recorded]
    OBVIOUS
  <2>2. set.busy => set.fence
    BY <2>1
  <2> HIDE DEF set, kv, c, drains
  <2>3. set \in [kv : 0..Top, fixed : BOOLEAN, busy : BOOLEAN, fence : BOOLEAN]
    <3>1. (c.fixed /\ kv > 0) \in BOOLEAN /\ (c.busy /\ ~drains) \in BOOLEAN
      OBVIOUS
    <3> QED BY <1>5, <2>1, <3>1
  <2> QED BY <2>1, <2>2, <2>3 DEF Sets
<1>9. /\ pool' = IF Len(pool.sets) >= PoolCap THEN GoneIf(FreedIf(left, set.kv), set.fixed)
                 ELSE [left EXCEPT !.sets = <<set>> \o @]
      /\ row' = [f EXCEPT ![r] = NoRow]
  BY <1>3, Zenon
<1>10. /\ Inv(pool, f) /\ f[r].kv = c.kv /\ f[r].fixed = c.fixed
  <2>1. QuietRows = Quieted(row)
    BY DEF QuietRows, Quieted
  <2>2. f = IF drains THEN Quieted(row) ELSE row
    BY <2>1, Zenon
  <2> HIDE DEF f, drains
  <2> QED BY <1>1, <2>2, QuietedKeeps
<1> HIDE DEF p, kv, drains, set, left, f, c
<1>11. Good(left) /\ Len(left.sets) = Len(pool.sets) /\ Len(pool.sets) \in Nat
  BY <1>1, <1>5, <1>7, PoolParts DEF Moves
<1>12. Moves(left, pool', 0 - Bit(set.kv > 0), 0 - Bit(set.fixed))
  <2>1. CASE Len(pool.sets) >= PoolCap
    BY <1>8, <1>9, <1>11, <2>1, PutAway
  <2>2. CASE ~(Len(pool.sets) >= PoolCap)
    <3>1. Len(left.sets) < PoolCap
      BY <1>11, <2>2, BoundsAreNat
    <3> QED BY <1>8, <1>9, <1>11, <2>2, <3>1, PutAway
  <2> QED BY <2>1, <2>2
<1>13. /\ Bit(kv > 0) \in Int /\ Bit(c.kv > 0) \in Int /\ Bit(c.fixed) \in Int
       /\ Bit(set.fixed) \in Int
  BY DEF Bit
<1> DEFINE a == Bit(kv > 0) - Bit(c.kv > 0)
           b == Bit(set.fixed) - Bit(c.fixed)
<1>14. Moves(pool, p, a, b) /\ a \in Int /\ b \in Int
  <2>1. Bit(set.fixed) = Bit(c.fixed /\ kv > 0)
    BY <1>8, Zenon
  <2>2. Moves(pool, p, a, b)
    BY <1>5, <2>1, Zenon
  <2> QED BY <1>13, <2>2
<1>15. /\ a + 0 \in Int /\ b + 0 \in Int
       /\ 0 - Bit(kv > 0) \in Int /\ 0 - Bit(set.fixed) \in Int
       /\ (a + 0) + (0 - Bit(kv > 0)) = 0 - Bit(c.kv > 0)
       /\ (b + 0) + (0 - Bit(set.fixed)) = 0 - Bit(c.fixed)
  BY <1>13
<1>16. Bit(set.kv > 0) = Bit(kv > 0)
  BY <1>8, Zenon
<1> HIDE DEF a, b
<1>17. Moves(pool, left, a + 0, b + 0)
  BY <1>1, <1>7, <1>14, MovesInTurn
<1>18. Moves(pool, pool', (a + 0) + (0 - Bit(kv > 0)), (b + 0) + (0 - Bit(set.fixed)))
  BY <1>1, <1>12, <1>15, <1>16, <1>17, MovesInTurn
<1>19. NoRow \in RowType /\ RowOK(NoRow) /\ NoRow.kv = 0 /\ NoRow.fixed = FALSE
  <2>1. 0 \in 0..Top
    BY <1>4
  <2> QED BY <2>1 DEF NoRow, RowType, RowOK
<1>20. Bit(NoRow.kv > 0) = 0 /\ Bit(NoRow.fixed) = 0
  BY <1>19 DEF Bit
<1>21. Moves(pool, pool', Bit(NoRow.kv > 0) - Bit(f[r].kv > 0), Bit(NoRow.fixed) - Bit(f[r].fixed))
  <2>1. Bit(f[r].kv > 0) = Bit(c.kv > 0) /\ Bit(f[r].fixed) = Bit(c.fixed)
    BY <1>10, Zenon
  <2> QED BY <1>15, <1>18, <1>20, <2>1
<1>22. pool'.open
  BY <1>1, <1>21 DEF Moves
<1>23. Inv(pool', row')
  BY <1>9, <1>10, <1>19, <1>21, <1>22, RowMoves
<1> QED BY <1>1, <1>23 DEF IInv

-----------------------------------------------------------------------------
(* What the invariant gives, and the theorems.                             *)

\* What is held, and what is booked, is a number: so are the counts.
LEMMA AccountsOfInv ==
  ASSUME IInv
  PROVE  /\ pool.made = Cardinality(Stocked(pool.sets)) + Cardinality(Owners(row)) + Len(pool.spares)
         /\ pool.live = Cardinality(FixedIn(pool.sets)) + Cardinality(FixedOwners(row)) + Len(pool.spares)
         /\ pool.made \in Nat /\ pool.live \in Nat
         /\ ~pool.open => pool.made = 0
<1>1. Good(pool) /\ RowsOK(row) /\ Exact(pool, row) /\ Closed(pool, row)
  BY DEF IInv, Inv
<1>2. /\ pool.live \in Int /\ pool.made \in Int /\ Len(pool.spares) \in Nat
      /\ Cardinality(Stocked(pool.sets)) \in Nat /\ Cardinality(FixedIn(pool.sets)) \in Nat
  BY <1>1, PoolParts
<1>3. Cardinality(Owners(row)) \in Nat /\ Cardinality(FixedOwners(row)) \in Nat
  BY OwnersFinite
<1>4. /\ pool.made = Cardinality(Stocked(pool.sets)) + Cardinality(Owners(row)) + Len(pool.spares)
      /\ pool.live = Cardinality(FixedIn(pool.sets)) + Cardinality(FixedOwners(row)) + Len(pool.spares)
  BY <1>1, <1>2, <1>3 DEF Exact, Held, Booked
<1>5. ASSUME ~pool.open PROVE pool.made = 0
  <2>1. pool.sets = <<>> /\ pool.spares = <<>> /\ \A r \in Rows : row[r].at = "none"
    BY <1>1, <1>5 DEF Closed
  <2>2. Owners(row) = {}
    BY <1>1, <2>1 DEF Owners, RowsOK, RowOK
  <2>3. Stocked(<<>>) = {}
    BY DEF Stocked, Indices
  <2>4. /\ Cardinality(Stocked(pool.sets)) = 0 /\ Cardinality(Owners(row)) = 0
        /\ Len(pool.spares) = 0
    BY <2>1, <2>2, <2>3, FS_EmptySet, Zenon, Len(<<>>) = 0
  <2> QED BY <1>4, <2>4
<1> QED BY <1>2, <1>3, <1>4, <1>5

LEMMA TypesOfInv ==
  ASSUME IInv
  PROVE  TypeOK
<1>1. /\ Good(pool) /\ RowsOK(row) /\ marks \in 0..Marks
  BY DEF IInv, Inv
<1>2. pool.made \in Nat /\ pool.live \in Nat
  BY AccountsOfInv
<1>3. /\ pool.sets \in Seq(Sets) /\ pool.spares \in Seq(1..Top) /\ pool.cap \in Nat
      /\ pool.mark \in Nat /\ pool.size \in {FirstSize} \cup LaterSizes
      /\ pool.moved \in BOOLEAN /\ pool.open \in BOOLEAN
  BY <1>1, PoolParts
<1>4. pool.sets \in Seq([kv : 0..Top, fixed : BOOLEAN, busy : BOOLEAN, fence : BOOLEAN])
  <2> DEFINE Wide == [kv : 0..Top, fixed : BOOLEAN, busy : BOOLEAN, fence : BOOLEAN]
  <2>1. Sets \subseteq Wide
    BY DEF Sets
  <2> HIDE DEF Wide
  <2>2. Len(pool.sets) \in Nat /\ pool.sets \in [1..Len(pool.sets) -> Sets]
    BY <1>3, LenProperties
  <2>3. pool.sets \in [1..Len(pool.sets) -> Wide]
    BY <2>1, <2>2
  <2>4. pool.sets \in Seq(Wide)
    BY <2>2, <2>3, ListOfSets
  <2> QED BY <2>4 DEF Wide
<1>5. row \in [Rows -> [at : {"none", "taken", "seated"}, kv : 0..Top, fixed : BOOLEAN,
                        busy : BOOLEAN, need : Shapes \cup {NoShape}, used : 0..Top]]
  BY <1>1 DEF RowsOK, RowType
<1> QED BY <1>1, <1>2, <1>3, <1>4, <1>5 DEF TypeOK

LEMMA ExactOfInv ==
  ASSUME IInv
  PROVE  CountIsExact
<1>1. Good(pool) /\ RowsOK(row)
  BY DEF IInv, Inv
<1>2. TypeOK
  BY TypesOfInv
<1>3. /\ pool.made = Cardinality(Stocked(pool.sets)) + Cardinality(Owners(row)) + Len(pool.spares)
      /\ pool.live = Cardinality(FixedIn(pool.sets)) + Cardinality(FixedOwners(row)) + Len(pool.spares)
      /\ ~pool.open => pool.made = 0
  BY AccountsOfInv
<1>4. pool.sets \in Seq(Sets) /\ Len(pool.sets) <= PoolCap /\ Len(pool.spares) <= SpareMax
  BY <1>1, PoolParts
<1>5. Stocked(pool.sets) \cap FixedIn(pool.sets) = FixedIn(pool.sets)
  BY <1>4, CountsOfSets
<1>6. FixedOwners(row) = {r \in Owners(row) : row[r].fixed}
  <2>1. \A r \in Rows : row[r].fixed => row[r].kv > 0
    BY <1>1 DEF RowsOK, RowOK
  <2> QED BY <2>1 DEF Owners, FixedOwners
<1>7. pool.live = Cardinality(Stocked(pool.sets) \cap FixedIn(pool.sets))
                  + Cardinality({r \in Owners(row) : row[r].fixed}) + Len(pool.spares)
  BY <1>3, <1>5, <1>6
<1> QED BY <1>2, <1>3, <1>4, <1>7 DEF CountIsExact, Owners

LEMMA ReadyOfInv ==
  ASSUME IInv
  PROVE  RowsAreReady
<1>1. \A r \in Rows : RowOK(row[r])
  BY DEF IInv, Inv, RowsOK
<1> QED BY <1>1 DEF RowsAreReady, RowOK

LEMMA StepsKeep == IInv /\ [Next]_vars => IInv'
<1>1. SUFFICES ASSUME IInv, [Next]_vars PROVE IInv'
  OBVIOUS
<1>2. ASSUME NEW r \in Rows, Take(r) PROVE IInv'
  BY <1>1, <1>2, TakeKeeps
<1>3. ASSUME NEW r \in Rows, Seat(r) PROVE IInv'
  BY <1>1, <1>3, SeatKeeps
<1>4. ASSUME NEW r \in Rows, ReserveText(r) PROVE IInv'
  BY <1>1, <1>4, ReserveTextKeeps
<1>5. ASSUME NEW r \in Rows, Reserves(r) PROVE IInv'
  BY <1>1, <1>5, ReservesKeeps
<1>6. ASSUME NEW r \in Rows, Step(r) PROVE IInv'
  BY <1>1, <1>6, StepKeeps
<1>7. ASSUME NEW r \in Rows, RowDone(r) PROVE IInv'
  BY <1>1, <1>7, RowDoneKeeps
<1>8. ASSUME NEW r \in Rows, Retire(r) PROVE IInv'
  BY <1>1, <1>8, RetireKeeps
<1>9. CASE SetDone
  BY <1>1, <1>9, SetDoneKeeps
<1>10. CASE Mark
  BY <1>1, <1>10, MarkKeeps
<1>11. CASE PoolDrain
  BY <1>1, <1>11, PoolDrainKeeps
<1>12. CASE UNCHANGED vars
  BY <1>1, <1>12 DEF vars, IInv
<1> QED BY <1>1, <1>2, <1>3, <1>4, <1>5, <1>6, <1>7, <1>8, <1>9, <1>10, <1>11, <1>12, Zenon DEF Next

\* The accounts and the rows together: what the pool has on its books and does
\* not hold itself is exactly what the rows hold.
THEOREM PoolInvariant == Spec => []IInv
<1>1. Init => IInv
  BY Starts
<1>2. IInv /\ [Next]_vars => IInv'
  BY StepsKeep
<1> QED BY <1>1, <1>2, PTL DEF Spec

\* Whatever sequence of admissions, growths, swaps, re-plans, failed copies and
\* full lists led there, and however many contexts there are, every cache the
\* device holds has exactly one owner, and the count the cap is compared with
\* (cuda_fixed_live) is the number of the fixed ones.
THEOREM AccountsAreExact == Spec => []CountIsExact
<1>1. IInv => CountIsExact
  BY ExactOfInv
<1> QED BY <1>1, PoolInvariant, PTL

\* A context that was given its set may zero its staging: nothing queued by the
\* previous owner refers to it; and a row's cache holds what it wrote.
THEOREM RowsAreAlwaysReady == Spec => []RowsAreReady
<1>1. IInv => RowsAreReady
  BY ReadyOfInv
<1> QED BY <1>1, PoolInvariant, PTL
==============================================================================
