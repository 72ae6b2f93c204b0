------------------------- MODULE TextSegmentProofs -------------------------
(***************************************************************************)
(* The encoder finds a best way to spell every text, for any dictionary,   *)
(* any scores and any normalisation.                                       *)
(***************************************************************************)
EXTENDS TextSegment, SequenceTheorems, FiniteSetTheorems, WellFoundedInduction, TLAPS

-----------------------------------------------------------------------------
(* Recursive functions over an initial segment of the naturals.            *)

\* Induction, for a set.
LEMMA NatSetInduction ==
  ASSUME NEW S, 0 \in S, \A n \in Nat : n \in S => n + 1 \in S
  PROVE  \A n \in Nat : n \in S
<1> DEFINE T == Nat \ S
<1>1. SUFFICES ASSUME T # {} PROVE FALSE
  OBVIOUS
<1> DEFINE R == OpToRel(<, Nat)
<1>2. IsWellFoundedOn(R, Nat)
  BY NatLessThanWellFounded
<1>3. \A x, y \in Nat : x < y => <<x, y>> \in R
  BY DEF OpToRel
<1> HIDE DEF R
<1>4. PICK x \in T : \A y \in T : ~(<<y, x>> \in R)
  BY <1>1, <1>2, WFMin
<1>5. x # 0 /\ x \in Nat
  OBVIOUS
<1>6. x - 1 \in Nat /\ x - 1 < x
  BY <1>5
<1>7. <<x - 1, x>> \in R
  BY <1>3, <1>5, <1>6
<1>8. x - 1 \in S
  BY <1>4, <1>6, <1>7
<1> QED  BY <1>5, <1>6, <1>8

\* Steps taken one after another have a run.
Steps(X, n) == [1..n -> [X -> X]]
Runs(X, x0, n, step) == {f \in [0..n -> X] : f[0] = x0 /\ \A k \in 1..n : f[k] = step[k][f[k - 1]]}
LEMMA RunExists ==
  ASSUME NEW X, NEW x0 \in X, NEW n \in Nat, NEW step \in Steps(X, n)
  PROVE  \E f \in Runs(X, x0, n, step) : TRUE
<1> USE DEF Steps
<1> DEFINE S == {m \in Nat : m <= n =>
                   \E f \in [0..m -> X] : f[0] = x0 /\ \A k \in 1..m : f[k] = step[k][f[k - 1]]}
<1>1. 0 \in S
  <2> DEFINE f == [i \in 0..0 |-> x0]
  <2>1. f \in [0..0 -> X] /\ f[0] = x0
    OBVIOUS
  <2>2. \A k \in 1..0 : f[k] = step[k][f[k - 1]]
    OBVIOUS
  <2> QED  BY <2>1, <2>2
<1>2. ASSUME NEW m \in Nat, m \in S, m + 1 <= n PROVE m + 1 \in S
  <2>1. PICK f \in [0..m -> X] : f[0] = x0 /\ \A k \in 1..m : f[k] = step[k][f[k - 1]]
    BY <1>2
  <2>2. f[m] \in X /\ step[m + 1] \in [X -> X]
    BY <1>2, <2>1
  <2> DEFINE x == step[m + 1][f[m]]
             g == [i \in 0..(m + 1) |-> IF i = m + 1 THEN x ELSE f[i]]
  <2>3. x \in X
    BY <2>2
  <2>4. g[m + 1] = x /\ g[m] = f[m] /\ g[0] = x0
    BY <2>1
  <2> HIDE DEF x
  <2>5. g \in [0..(m + 1) -> X]
    BY <2>1, <2>3
  <2>6. ASSUME NEW k \in 1..m PROVE g[k] = step[k][g[k - 1]]
    <3>1. g[k] = f[k] /\ g[k - 1] = f[k - 1]
      OBVIOUS
    <3> QED  BY <2>1, <3>1
  <2>7. \A k \in 1..(m + 1) : g[k] = step[k][g[k - 1]]
    <3> HIDE DEF g
    <3> QED  BY <2>4, <2>6 DEF x
  <2> HIDE DEF g
  <2> QED  BY <2>4, <2>5, <2>7
<1>3. \A m \in Nat : m \in S
  <2>1. \A m \in Nat : m \in S => m + 1 \in S
    BY <1>2
  <2> HIDE DEF S
  <2> QED  BY <1>1, <2>1, NatSetInduction
<1> QED  BY <1>3 DEF Runs

\* A set of naturals has a least one.
LEMMA LeastExists ==
  ASSUME NEW S, S \subseteq Nat, S # {}
  PROVE  \E i \in S : \A k \in S : i <= k
<1> DEFINE R == OpToRel(<, Nat)
<1>1. IsWellFoundedOn(R, Nat)
  BY NatLessThanWellFounded
<1>2. \A x, y \in Nat : x < y => <<x, y>> \in R
  BY DEF OpToRel
<1> HIDE DEF R
<1>3. PICK i \in S : \A k \in S : ~(<<k, i>> \in R)
  BY <1>1, WFMin
<1>4. \A k \in S : ~(k < i)
  BY <1>2, <1>3
<1> QED  BY <1>3, <1>4

LEMMA SeqDomain ==
  ASSUME NEW S, NEW s \in Seq(S)
  PROVE  /\ Len(s) \in Nat /\ DOMAIN s = 1..Len(s)
         /\ \A i \in DOMAIN s : s[i] \in S
         /\ s = <<>> <=> Len(s) = 0
BY LenProperties, ElementOfSeq, EmptySeq

-----------------------------------------------------------------------------
(* Greatest and least.                                                     *)

\* Of finitely many integers one is the greatest.
LEMMA GreatestExists ==
  ASSUME NEW n \in Nat, NEW C \in SUBSET (0..n), C # {}, NEW f \in [C -> Int]
  PROVE  \E c \in C : \A d \in C : f[d] <= f[c]
<1> DEFINE S == {m \in Nat : \A D \in SUBSET (0..m) : D # {} =>
                   \A g \in [D -> Int] : \E c \in D : \A d \in D : g[d] <= g[c]}
<1>1. 0 \in S
  <2> SUFFICES ASSUME NEW D \in SUBSET (0..0), D # {}, NEW g \in [D -> Int]
               PROVE  \E c \in D : \A d \in D : g[d] <= g[c]
    OBVIOUS
  <2>0. \A d \in D : d = 0
    OBVIOUS
  <2>1. 0 \in D /\ \A d \in D : d = 0
    BY <2>0
  <2>2. g[0] <= g[0]
    BY <2>1
  <2> QED  BY <2>1, <2>2
<1>2. ASSUME NEW m \in Nat, m \in S PROVE m + 1 \in S
  <2> SUFFICES ASSUME NEW D \in SUBSET (0..(m + 1)), D # {}, NEW g \in [D -> Int]
               PROVE  \E c \in D : \A d \in D : g[d] <= g[c]
    OBVIOUS
  <2> DEFINE B == D \ {m + 1}
             h == [d \in B |-> g[d]]
  <2>1. B \in SUBSET (0..m)
    OBVIOUS
  <2>2. h \in [B -> Int] /\ \A d \in B : h[d] = g[d] /\ g[d] \in Int
    OBVIOUS
  <2>3. CASE B = {}
    <3>1. m + 1 \in D /\ \A d \in D : d = m + 1
      BY <2>3
    <3>2. g[m + 1] <= g[m + 1]
      BY <3>1
    <3> QED  BY <3>1, <3>2
  <2>4. CASE B # {}
    <3> HIDE DEF h, B
    <3>1. PICK b \in B : \A d \in B : h[d] <= h[b]
      BY <1>2, <2>1, <2>2, <2>4
    <3>2. b \in D /\ g[b] \in Int /\ \A d \in B : g[d] <= g[b]
      BY <2>2, <3>1 DEF B
    <3>3. CASE m + 1 \notin D \/ g[m + 1] <= g[b]
      <4>1. \A d \in D : d \in B \/ (d = m + 1 /\ g[d] <= g[b])
        BY <3>3 DEF B
      <4>2. \A d \in D : g[d] <= g[b]
        BY <3>2, <4>1
      <4> QED  BY <3>2, <4>2
    <3>4. CASE m + 1 \in D /\ ~(g[m + 1] <= g[b])
      <4>1. g[m + 1] \in Int /\ g[b] <= g[m + 1]
        BY <3>2, <3>4
      <4>2. ASSUME NEW d \in B PROVE g[d] <= g[m + 1]
        BY <2>2, <3>2, <4>1
      <4>3. \A d \in D : g[d] <= g[m + 1]
        BY <4>1, <4>2 DEF B
      <4> QED  BY <3>4, <4>3
    <3> QED  BY <3>3, <3>4
  <2> QED  BY <2>3, <2>4
<1>3. n \in S
  <2>1. \A m \in Nat : m \in S => m + 1 \in S
    BY <1>2
  <2> HIDE DEF S
  <2> QED  BY <1>1, <2>1, NatSetInduction
<1> QED  BY <1>3

-----------------------------------------------------------------------------
(* The words of the lattice.                                               *)

Chars == DOMAIN BytesOf
Id == DOMAIN Dictionary \cup ({"byte"} \X Chars \X Nat) \cup {<<"unknown">>}
Node == [score : Int, ids : Seq(Id)]

LEMMA StartIsNode ==
  Start \in Node
BY DEF Start, Node

LEMMA DictionaryIsTyped ==
  /\ Len(Dictionary) \in Nat /\ DOMAIN Dictionary = 1..Len(Dictionary)
  /\ \A id \in DOMAIN Dictionary :
       /\ Dictionary[id].score \in Int
       /\ Dictionary[id].spelling # <<>>
<1> DEFINE Piece == [spelling : Seq(DOMAIN BytesOf) \ {<<>>}, score : Int, type : Types]
<1>1. Dictionary \in Seq(Piece)
  BY DictionaryAssumption
<1>2. \A p \in Piece : p.score \in Int /\ p.spelling # <<>>
  OBVIOUS
<1> HIDE DEF Piece
<1>3. /\ Len(Dictionary) \in Nat /\ DOMAIN Dictionary = 1..Len(Dictionary)
      /\ \A id \in DOMAIN Dictionary : Dictionary[id] \in Piece
  BY <1>1, SeqDomain
<1> QED  BY <1>2, <1>3

\* The score of an unknown character is below that of every piece.
LEMMA UnknownScoreIsInt ==
  UnknownScore \in Int
<1> DEFINE N == {d \in DOMAIN Dictionary : Dictionary[d].type = Normal}
           Scores == {Dictionary[id].score : id \in N}
           f == [id \in N |-> 0 - Dictionary[id].score]
<1>1. \A id \in N : Dictionary[id].score \in Int
  BY DictionaryIsTyped
<1>2. N # {}
  BY DictionaryAssumption
<1>3. Len(Dictionary) \in Nat /\ N \in SUBSET (0..Len(Dictionary))
  BY DictionaryIsTyped
<1>4. f \in [N -> Int] /\ \A id \in N : f[id] = 0 - Dictionary[id].score
  BY <1>1
<1> HIDE DEF N, f
<1>5. PICK c \in N : \A d \in N : f[d] <= f[c]
  BY <1>2, <1>3, <1>4, GreatestExists
<1>6. \A d \in N : Dictionary[c].score <= Dictionary[d].score
  BY <1>1, <1>4, <1>5
<1>7. \E x \in Scores : \A y \in Scores : x <= y
  BY <1>6
<1>8. Min(Scores) \in Scores
  <2> HIDE DEF Scores
  <2> QED  BY <1>7 DEF Min
<1>9. Min(Scores) \in Int
  BY <1>1, <1>8
<1>10. UnknownScore = Min(Scores) - 10
  BY DEF UnknownScore, N
<1> HIDE DEF Scores
<1> QED  BY <1>9, <1>10

\* A piece that the table finds has its spelling and can be segmented.
LEMMA IndexFacts ==
  ASSUME NEW word \in DOMAIN Index
  PROVE  Index[word] \in DOMAIN Dictionary /\ word # <<>>
<1> DEFINE S == {id \in Segmentable : Dictionary[id].spelling = word}
<1>1. Index[word] = Min(S)
  BY DEF Index
<1>2. S # {}
  BY DEF Index
<1>3. S \subseteq DOMAIN Dictionary /\ S \subseteq Nat
  BY DictionaryIsTyped DEF Segmentable
<1>4. \A id \in S : Dictionary[id].spelling = word
  OBVIOUS
<1> HIDE DEF S
<1>5. \E i \in S : \A k \in S : i <= k
  BY <1>2, <1>3, LeastExists
<1>6. Min(S) \in S
  BY <1>5 DEF Min
<1> QED  BY <1>1, <1>3, <1>4, <1>6, DictionaryIsTyped

\* A word of the lattice has a score, and at most an id for each of its bytes.
LEMMA WordFacts ==
  ASSUME NEW word \in Seq(Chars), IsEdge(word)
  PROVE  /\ Len(word) \in Nat \ {0} /\ word[1] \in Chars
         /\ ScoreOf(word) \in Int
         /\ IdsOf(word) \in Seq(Id) /\ Len(IdsOf(word)) \in Nat \ {0}
         /\ BytesOf[word[1]] \in Nat \ {0} /\ Len(IdsOf(word)) <= BytesOf[word[1]]
<1>1. Len(word) \in Nat /\ (word # <<>> => Len(word) # 0 /\ word[1] \in Chars)
  BY SeqDomain
<1>2. \A char \in Chars : BytesOf[char] \in Nat \ {0}
  BY BytesAssumption DEF Chars
<1>3. CASE ~IsUnknown(word)
  <2>1. word \in DOMAIN Index
    BY <1>3 DEF IsEdge, Usable
  <2>2. Index[word] \in DOMAIN Dictionary /\ word # <<>>
    BY <2>1, IndexFacts
  <2>3. Index[word] \in Id
    BY <2>2 DEF Id
  <2>4. IdsOf(word) = <<Index[word]>>
    BY <1>3 DEF IdsOf
  <2>5. IdsOf(word) \in Seq(Id) /\ Len(IdsOf(word)) = 1
    BY <2>3, <2>4
  <2>6. Dictionary[Index[word]].score \in Int
    BY <2>2, DictionaryIsTyped
  <2>7. PieceScore(Index[word], Len(word)) \in Int
    BY <1>1, <2>6 DEF PieceScore
  <2>8. ScoreOf(word) \in Int
    BY <1>3, <2>7 DEF ScoreOf
  <2> QED  BY <1>1, <1>2, <2>2, <2>5, <2>8
<1>4. CASE IsUnknown(word)
  <2>1. Len(word) = 1
    BY <1>4 DEF IsUnknown
  <2>2. word # <<>> /\ word[1] \in Chars
    BY <1>1, <2>1
  <2>3. BytesOf[word[1]] \in Nat \ {0}
    BY <1>2, <2>2
  <2>4. ScoreOf(word) \in Int
    BY <1>4, UnknownScoreIsInt DEF ScoreOf
  <2>5. CASE ByteFallback
    <3> DEFINE bytes == BytesOf[word[1]]
               ids == [b \in 1..bytes |-> <<"byte", word[1], b>>]
    <3>1. IdsOf(word) = ids
      BY <1>4, <2>5 DEF IdsOf
    <3>2. \A b \in 1..bytes : <<"byte", word[1], b>> \in Id
      BY <2>2, <2>3 DEF Id
    <3>3. bytes \in Nat
      BY <2>3
    <3>4. ids \in Seq(Id) /\ Len(ids) = bytes
      <4>1. ids \in [1..bytes -> Id]
        BY <3>2
      <4>2. ids \in Seq(Id)
        BY <3>3, <4>1
      <4> QED  BY <3>3, <4>2
    <3> QED  BY <1>1, <2>2, <2>3, <2>4, <3>1, <3>4
  <2>6. CASE ~ByteFallback
    <3>1. IdsOf(word) = << <<"unknown">> >>
      BY <1>4, <2>6 DEF IdsOf
    <3>2. <<"unknown">> \in Id
      BY DEF Id
    <3>3. IdsOf(word) \in Seq(Id) /\ Len(IdsOf(word)) = 1
      BY <3>1, <3>2
    <3> QED  BY <1>1, <2>2, <2>3, <2>4, <3>3
  <2> QED  BY <2>5, <2>6
<1> QED  BY <1>3, <1>4

-----------------------------------------------------------------------------
(* The search.                                                             *)

\* The word between two positions.
Word(chars, c, at) == SubSeq(chars, c + 1, at)

LEMMA WordBetween ==
  ASSUME NEW chars \in Seq(Chars), NEW at \in 1..Len(chars), NEW c \in 0..(at - 1)
  PROVE  /\ Word(chars, c, at) \in Seq(Chars) /\ Len(Word(chars, c, at)) = at - c
         /\ Word(chars, c, at)[1] = chars[c + 1]
<1>1. Len(chars) \in Nat /\ \A i \in 1..Len(chars) : chars[i] \in Chars
  BY SeqDomain
<1>2. c + 1 \in Int /\ at \in Int /\ c + 1 <= at /\ at \in Nat /\ c \in Nat
  BY <1>1
<1>3. \A i \in (c + 1)..at : chars[i] \in Chars
  BY <1>1, <1>2
<1>4. /\ SubSeq(chars, c + 1, at) \in Seq(Chars)
      /\ Len(SubSeq(chars, c + 1, at)) = IF c + 1 <= at THEN at - (c + 1) + 1 ELSE 0
      /\ \A i \in 1..(at - (c + 1) + 1) : SubSeq(chars, c + 1, at)[i] = chars[(c + 1) + i - 1]
  <2> QED  BY <1>2, <1>3, SubSeqProperties
<1>5. 1 \in 1..(at - (c + 1) + 1) /\ (c + 1) + 1 - 1 = c + 1
  BY <1>2
<1>6. SubSeq(chars, c + 1, at)[1] = chars[c + 1]
  BY <1>4, <1>5
<1> QED  BY <1>2, <1>4, <1>6 DEF Word

\* Every position can be reached: one character is always a word.
LEMMA OriginsFacts ==
  ASSUME NEW chars \in Seq(Chars), NEW at \in 1..Len(chars)
  PROVE  /\ Origins(chars, at) \in SUBSET (0..(at - 1)) /\ at - 1 \in Origins(chars, at)
         /\ \A c \in Origins(chars, at) : IsEdge(Word(chars, c, at))
         /\ \A c \in 0..(at - 1) : IsEdge(Word(chars, c, at)) => c \in Origins(chars, at)
<1>1. at - 1 \in 0..(at - 1)
  BY SeqDomain
<1>2. Len(Word(chars, at - 1, at)) = 1
  <2>1. Len(Word(chars, at - 1, at)) = at - (at - 1)
    BY <1>1, WordBetween
  <2> QED  BY <2>1
<1>3. IsEdge(Word(chars, at - 1, at))
  BY <1>2 DEF IsEdge, IsUnknown
<1>4. Origins(chars, at) = {c \in 0..(at - 1) : IsEdge(Word(chars, c, at))}
  BY DEF Origins, Word
<1> QED  BY <1>1, <1>3, <1>4

\* The step that enters position c + 1 .. at in a table.
Via(best, chars, c, at) == best[c + 1].score + ScoreOf(Word(chars, c, at))

\* What Reached() finds is a way through one of the origins, and the best of them.
LEMMA ReachedFacts ==
  ASSUME NEW chars \in Seq(Chars), NEW at \in 1..Len(chars),
         NEW best \in Seq(Node), Len(best) >= at
  PROVE  LET r == Reached(best, chars, at)
         IN  /\ r \in Node
             /\ \A c \in Origins(chars, at) : Via(best, chars, c, at) <= r.score
             /\ \E c \in Origins(chars, at) :
                  /\ r.score = Via(best, chars, c, at)
                  /\ r.ids = best[c + 1].ids \o IdsOf(Word(chars, c, at))
<1> DEFINE C == Origins(chars, at)
           score == [c \in C |-> Via(best, chars, c, at)]
           most == Max({score[c] : c \in C})
           W == {c \in C : score[c] = most}
           winner == Min(W)
<1>1. C \in SUBSET (0..(at - 1)) /\ C # {} /\ at - 1 \in Nat /\ \A c \in C : IsEdge(Word(chars, c, at))
  BY OriginsFacts, SeqDomain
<1>2. Reached(best, chars, at) =
        [score |-> most, ids |-> best[winner + 1].ids \o IdsOf(Word(chars, winner, at))]
  BY DEF Reached, Via, Word
<1>3. ASSUME NEW c \in C
      PROVE  /\ Via(best, chars, c, at) \in Int
             /\ best[c + 1].ids \o IdsOf(Word(chars, c, at)) \in Seq(Id)
  <2>1. c \in 0..(at - 1) /\ c + 1 \in 1..Len(best)
    BY <1>1, SeqDomain
  <2>2. best[c + 1] \in Node
    BY <2>1, ElementOfSeq
  <2>3. Word(chars, c, at) \in Seq(Chars) /\ IsEdge(Word(chars, c, at))
    BY <1>1, <2>1, WordBetween
  <2>4. ScoreOf(Word(chars, c, at)) \in Int /\ IdsOf(Word(chars, c, at)) \in Seq(Id)
    BY <2>3, WordFacts
  <2>5. best[c + 1].score \in Int /\ best[c + 1].ids \in Seq(Id)
    BY <2>2 DEF Node
  <2>6. best[c + 1].ids \o IdsOf(Word(chars, c, at)) \in Seq(Id)
    BY <2>4, <2>5, ConcatProperties
  <2> QED  BY <2>4, <2>5, <2>6 DEF Via
<1>4. score \in [C -> Int] /\ \A c \in C : score[c] = Via(best, chars, c, at)
  BY <1>3
<1> HIDE DEF C, score
<1>5. PICK top \in C : \A d \in C : score[d] <= score[top]
  BY <1>1, <1>4, GreatestExists
<1>6. most \in {score[c] : c \in C} /\ \A y \in {score[c] : c \in C} : most >= y
  <2> DEFINE V == {score[c] : c \in C}
  <2>1. \E x \in V : \A y \in V : x >= y
    BY <1>4, <1>5
  <2> HIDE DEF V
  <2>2. Max(V) \in V /\ \A y \in V : Max(V) >= y
    BY <2>1 DEF Max
  <2> QED  BY <2>2 DEF V
<1>7. most \in Int /\ W # {} /\ W \subseteq Nat /\ \A c \in C : score[c] <= most
  <2>1. W # {}
    BY <1>6
  <2>2. W \subseteq Nat
    <3>1. \A c \in C : c \in 0..(at - 1)
      BY <1>1
    <3>2. \A c \in C : c \in Nat
      BY <3>1
    <3> HIDE DEF most
    <3> QED  BY <3>2
  <2>3. \A c \in C : score[c] \in Int /\ score[c] \in {score[d] : d \in C}
    BY <1>1, <1>4
  <2> HIDE DEF most
  <2>4. most \in Int /\ \A c \in C : score[c] <= most
    BY <1>6, <2>3
  <2> QED  BY <2>1, <2>2, <2>4
<1>8. winner \in W
  <2> HIDE DEF W
  <2>1. \E i \in W : \A k \in W : i <= k
    BY <1>7, LeastExists
  <2> QED  BY <2>1 DEF Min
<1>9. winner \in C /\ score[winner] = most
  BY <1>8
<1> HIDE DEF most, winner
<1>10. best[winner + 1].ids \o IdsOf(Word(chars, winner, at)) \in Seq(Id)
  BY <1>3, <1>9
<1>11. Reached(best, chars, at) \in Node
  BY <1>2, <1>7, <1>10 DEF Node
<1>12. /\ Reached(best, chars, at).score = most
       /\ Reached(best, chars, at).ids = best[winner + 1].ids \o IdsOf(Word(chars, winner, at))
  BY <1>2
<1>13. \A c \in C : Via(best, chars, c, at) <= most
  BY <1>4, <1>7
<1>14. most = Via(best, chars, winner, at)
  BY <1>4, <1>9
<1> QED  BY <1>9, <1>11, <1>12, <1>13, <1>14 DEF C

\* The table of sp_viterbi, as it is filled: row at + 1 once position at is reached.
Rows(chars) ==
  CHOOSE best : best = [at \in 0..Len(chars) |->
    IF at = 0 THEN <<Start>>
    ELSE LET before == best[at - 1] IN Append(before, Reached(before, chars, at))]

\* A table up to a position: the start, then each position by one of its origins.
Filled(chars, b, at) ==
  /\ b \in Seq(Node) /\ Len(b) = at + 1 /\ b[1] = Start
  /\ \A k \in 1..at :
       /\ \A c \in Origins(chars, k) : Via(b, chars, c, k) <= b[k + 1].score
       /\ \E c \in Origins(chars, k) :
            /\ b[k + 1].score = Via(b, chars, c, k)
            /\ b[k + 1].ids = b[c + 1].ids \o IdsOf(Word(chars, c, k))

LEMMA AppendKeeps ==
  ASSUME NEW b \in Seq(Node), NEW x \in Node
  PROVE  /\ Append(b, x) \in Seq(Node) /\ Len(Append(b, x)) = Len(b) + 1
         /\ Append(b, x)[Len(b) + 1] = x
         /\ \A i \in 1..Len(b) : Append(b, x)[i] = b[i]
OBVIOUS

\* The next position is filled from the positions before it, which stay.
LEMMA FilledStep ==
  ASSUME NEW chars \in Seq(Chars), NEW k \in Nat, k + 1 <= Len(chars),
         NEW b, Filled(chars, b, k)
  PROVE  Filled(chars, Append(b, Reached(b, chars, k + 1)), k + 1)
<1> DEFINE at == k + 1
           r == Reached(b, chars, at)
           d == Append(b, r)
<1>1. at \in 1..Len(chars) /\ at \in Nat /\ Len(chars) \in Nat
  BY SeqDomain
<1>2. b \in Seq(Node) /\ Len(b) = at /\ b[1] = Start
  BY DEF Filled
<1>3. /\ r \in Node
      /\ \A c \in Origins(chars, at) : Via(b, chars, c, at) <= r.score
      /\ \E c \in Origins(chars, at) :
           /\ r.score = Via(b, chars, c, at)
           /\ r.ids = b[c + 1].ids \o IdsOf(Word(chars, c, at))
  <2>1. Len(b) >= at
    BY <1>1, <1>2
  <2> HIDE DEF at
  <2> QED  BY <1>1, <1>2, <2>1, ReachedFacts
<1> HIDE DEF r
<1>4. d \in Seq(Node) /\ Len(d) = at + 1 /\ d[at + 1] = r /\ \A i \in 1..at : d[i] = b[i]
  BY <1>2, <1>3, AppendKeeps
<1> HIDE DEF d
<1>5. ASSUME NEW j \in 1..at, NEW c \in Origins(chars, j)
      PROVE  c + 1 \in 1..at /\ d[c + 1] = b[c + 1] /\ Via(d, chars, c, j) = Via(b, chars, c, j)
  <2>1. j \in 1..Len(chars)
    BY <1>1
  <2>2. c \in 0..(j - 1)
    BY <2>1, OriginsFacts
  <2>3. c + 1 \in 1..at
    BY <1>1, <2>2
  <2>4. d[c + 1] = b[c + 1]
    BY <1>4, <2>3
  <2> QED  BY <2>3, <2>4 DEF Via
<1>6. ASSUME NEW j \in 1..at
      PROVE  /\ \A c \in Origins(chars, j) : Via(d, chars, c, j) <= d[j + 1].score
             /\ \E c \in Origins(chars, j) :
                  /\ d[j + 1].score = Via(d, chars, c, j)
                  /\ d[j + 1].ids = d[c + 1].ids \o IdsOf(Word(chars, c, j))
  <2>1. CASE j = at
    BY <1>3, <1>4, <1>5, <2>1
  <2>2. CASE j \in 1..k
    <3>1. d[j + 1] = b[j + 1]
      BY <1>4, <2>2
    <3>2. /\ \A c \in Origins(chars, j) : Via(b, chars, c, j) <= b[j + 1].score
          /\ \E c \in Origins(chars, j) :
               /\ b[j + 1].score = Via(b, chars, c, j)
               /\ b[j + 1].ids = b[c + 1].ids \o IdsOf(Word(chars, c, j))
      BY <2>2 DEF Filled
    <3> QED  BY <1>5, <3>1, <3>2
  <2>3. j = at \/ j \in 1..k
    BY <1>1
  <2> QED  BY <2>1, <2>2, <2>3
<1>7. d[1] = Start
  BY <1>1, <1>2, <1>4
<1>8. Filled(chars, d, at)
  BY <1>4, <1>6, <1>7 DEF Filled
<1> QED  BY <1>8 DEF d, r

LEMMA RowsExist ==
  ASSUME NEW chars \in Seq(Chars)
  PROVE  Rows(chars) = [at \in 0..Len(chars) |->
           IF at = 0 THEN <<Start>>
           ELSE Append(Rows(chars)[at - 1], Reached(Rows(chars)[at - 1], chars, at))]
<1> DEFINE n == Len(chars)
           X == Seq(Node)
           x0 == <<Start>>
           Fits(b, k) == Len(b) >= k
           Grow(b, k) == IF Fits(b, k) THEN Append(b, Reached(b, chars, k)) ELSE b
           step == [k \in 1..n |-> [b \in X |-> Grow(b, k)]]
<1>1. n \in Nat
  BY SeqDomain
<1>2. x0 \in X /\ Len(x0) = 1
  BY StartIsNode
<1>3. ASSUME NEW k \in 1..n, NEW b \in X
      PROVE  Grow(b, k) \in X /\ (Fits(b, k) => Len(Grow(b, k)) = Len(b) + 1)
  <2>1. CASE Fits(b, k)
    <3>1. Reached(b, chars, k) \in Node
      BY <2>1, ReachedFacts
    <3> QED  BY <2>1, <3>1, AppendKeeps
  <2>2. CASE ~Fits(b, k)
    BY <2>2
  <2> QED  BY <2>1, <2>2
<1>4. step \in Steps(X, n)
  <2> HIDE DEF Grow, X
  <2>1. step \in [1..n -> [X -> X]]
    BY <1>3
  <2> QED  BY <2>1 DEF Steps
<1>5. \A k \in 1..n : \A b \in X : step[k][b] = Grow(b, k)
  <2> HIDE DEF Grow, X
  <2> QED  OBVIOUS
<1>6. \A k \in 1..n : \A b \in X : Len(b) = k =>
        Grow(b, k) = Append(b, Reached(b, chars, k)) /\ Len(Grow(b, k)) = k + 1
  <2>1. SUFFICES ASSUME NEW k \in 1..n, NEW b \in X, Len(b) = k
                 PROVE  Grow(b, k) = Append(b, Reached(b, chars, k)) /\ Len(Grow(b, k)) = k + 1
    <3> HIDE DEF Grow, X
    <3> QED  OBVIOUS
  <2>2. Fits(b, k)
    BY <2>1
  <2> QED  BY <1>3, <2>1, <2>2
<1> HIDE DEF step, X, Grow, x0
<1>7. PICK g \in Runs(X, x0, n, step) : TRUE
  <2> HIDE DEF n
  <2> QED  BY <1>1, <1>2, <1>4, RunExists, Zenon
<1>8. g \in [0..n -> X] /\ g[0] = x0 /\ \A k \in 1..n : g[k] = step[k][g[k - 1]]
  BY <1>7 DEF Runs
<1> DEFINE Ks == {k \in Nat : k <= n => Len(g[k]) = k + 1}
<1> HIDE DEF n
<1>9. 0 \in Ks
  BY <1>2, <1>8
<1>10. ASSUME NEW k \in Nat, k \in Ks PROVE k + 1 \in Ks
  <2> SUFFICES ASSUME k + 1 <= n PROVE Len(g[k + 1]) = (k + 1) + 1
    OBVIOUS
  <2>1. Len(g[k]) = k + 1 /\ k + 1 \in 1..n /\ k \in 0..n /\ (k + 1) - 1 = k
    BY <1>1, <1>10
  <2>2. g[k] \in X
    BY <1>8, <2>1
  <2>3. g[k + 1] = step[k + 1][g[k]]
    BY <1>8, <2>1
  <2>4. g[k + 1] = Grow(g[k], k + 1)
    BY <1>5, <2>1, <2>2, <2>3
  <2> QED  BY <1>6, <2>1, <2>2, <2>4
<1>11. \A k \in Nat : k \in Ks
  <2>1. \A k \in Nat : k \in Ks => k + 1 \in Ks
    BY <1>10
  <2> HIDE DEF Ks
  <2> QED  BY <1>9, <2>1, NatSetInduction
<1>12. ASSUME NEW k \in 1..n PROVE g[k] = Append(g[k - 1], Reached(g[k - 1], chars, k))
  <2>1. k - 1 \in Nat /\ k - 1 <= n /\ k - 1 \in 0..n /\ (k - 1) + 1 = k
    BY <1>1
  <2>2. Len(g[k - 1]) = k /\ g[k - 1] \in X
    BY <1>8, <1>11, <2>1
  <2>3. g[k] = step[k][g[k - 1]]
    BY <1>8
  <2>4. g[k] = Grow(g[k - 1], k)
    BY <1>5, <2>2, <2>3
  <2> QED  BY <1>6, <2>2, <2>4
<1>13. g = [at \in 0..n |->
        IF at = 0 THEN <<Start>> ELSE Append(g[at - 1], Reached(g[at - 1], chars, at))]
  <2>1. \A k \in 0..n : k = 0 \/ k \in 1..n
    BY <1>1
  <2>2. g[0] = <<Start>>
    BY <1>8 DEF x0
  <2> HIDE DEF Ks
  <2> QED  BY <1>8, <1>12, <2>1, <2>2
<1> DEFINE f == Rows(chars)
<1>14. f = CHOOSE best : best = [at \in 0..n |->
         IF at = 0 THEN <<Start>> ELSE Append(best[at - 1], Reached(best[at - 1], chars, at))]
  BY Zenon DEF Rows, n
<1> HIDE DEF f
<1>15. f = [at \in 0..n |->
        IF at = 0 THEN <<Start>> ELSE Append(f[at - 1], Reached(f[at - 1], chars, at))]
  BY <1>13, <1>14
<1> QED  BY <1>15 DEF f, n

LEMMA ViterbiFacts ==
  ASSUME NEW chars \in Seq(Chars)
  PROVE  Filled(chars, Viterbi(chars), Len(chars))
<1> DEFINE n == Len(chars)
           f == Rows(chars)
           Ks == {k \in Nat : k <= n => Filled(chars, f[k], k)}
<1>1. n \in Nat
  BY SeqDomain
<1>2. f = [at \in 0..n |->
        IF at = 0 THEN <<Start>> ELSE Append(f[at - 1], Reached(f[at - 1], chars, at))]
  BY RowsExist
<1> HIDE DEF f, n
<1>3. 0 \in Ks
  <2>1. f[0] = <<Start>>
    BY <1>1, <1>2
  <2>2. <<Start>> \in Seq(Node) /\ Len(<<Start>>) = 1 /\ <<Start>>[1] = Start
    BY StartIsNode
  <2>3. Filled(chars, f[0], 0)
    BY <2>1, <2>2 DEF Filled
  <2> QED  BY <2>3
<1>4. ASSUME NEW k \in Nat, k \in Ks, k + 1 <= n PROVE Filled(chars, f[k + 1], k + 1)
  <2>1. Filled(chars, f[k], k) /\ k + 1 \in 0..n /\ k + 1 # 0 /\ (k + 1) - 1 = k
    BY <1>1, <1>4
  <2>2. f[k + 1] = Append(f[(k + 1) - 1], Reached(f[(k + 1) - 1], chars, k + 1))
    BY <1>2, <2>1, Zenon
  <2>3. f[k + 1] = Append(f[k], Reached(f[k], chars, k + 1))
    BY <2>1, <2>2
  <2>4. k + 1 <= Len(chars)
    BY <1>4 DEF n
  <2>5. Filled(chars, Append(f[k], Reached(f[k], chars, k + 1)), k + 1)
    BY <2>1, <2>4, FilledStep
  <2> QED  BY <2>3, <2>5
<1>5. \A k \in Nat : k \in Ks
  <2>1. \A k \in Nat : k \in Ks => k + 1 \in Ks
    BY <1>4
  <2> HIDE DEF Ks
  <2> QED  BY <1>3, <2>1, NatSetInduction
<1>6. Filled(chars, f[n], n)
  BY <1>1, <1>5
<1>7. Viterbi(chars) = f[n]
  BY DEF Viterbi, Rows, f, n
<1> QED  BY <1>6, <1>7 DEF n

-----------------------------------------------------------------------------
(* The ways to spell a text.                                               *)

\* Where a word that begins after a position may end.
Stops(chars, from) == {j \in (from + 1)..Len(chars) : IsEdge(Word(chars, from, j))}

\* A way from a position on, taken up one word earlier.
Onward(chars, from, at, way) ==
  [score |-> ScoreOf(Word(chars, from, at)) + way.score,
   ids |-> IdsOf(Word(chars, from, at)) \o way.ids]

Onwards(chars, r, from) ==
  UNION {{Onward(chars, from, at, way) : way \in r[at]} : at \in Stops(chars, from)}

WaysFrom(chars, r, from) == IF from = Len(chars) THEN {Start} ELSE Onwards(chars, r, from)

Rest(chars) == CHOOSE rest : rest = [from \in 0..Len(chars) |-> WaysFrom(chars, rest, from)]

LEMMA WaysAreTheRest ==
  ASSUME NEW chars
  PROVE  Ways(chars) = Rest(chars)[0]
BY DEF Ways, Rest, WaysFrom, Onwards, Onward, Stops, Word

LEMMA OnwardsMembers ==
  ASSUME NEW chars, NEW r, NEW from, NEW p
  PROVE  p \in Onwards(chars, r, from) <=>
           \E at \in Stops(chars, from) : \E way \in r[at] : p = Onward(chars, from, at, way)
BY DEF Onwards

\* Only the ways from later positions matter.
LEMMA OnwardsLocal ==
  ASSUME NEW chars, NEW r, NEW s, NEW from, \A at \in Stops(chars, from) : r[at] = s[at]
  PROVE  Onwards(chars, r, from) = Onwards(chars, s, from)
<1>1. \A p : p \in Onwards(chars, r, from) <=> p \in Onwards(chars, s, from)
  BY OnwardsMembers
<1> QED  BY <1>1

LEMMA OnwardIsNode ==
  ASSUME NEW chars \in Seq(Chars), NEW from \in 0..Len(chars), NEW at \in Stops(chars, from),
         NEW way \in Node
  PROVE  /\ Onward(chars, from, at, way) \in Node
         /\ Onward(chars, from, at, way).score = ScoreOf(Word(chars, from, at)) + way.score
         /\ Onward(chars, from, at, way).ids = IdsOf(Word(chars, from, at)) \o way.ids
         /\ ScoreOf(Word(chars, from, at)) \in Int /\ IdsOf(Word(chars, from, at)) \in Seq(Id)
         /\ at \in 1..Len(chars) /\ from < at /\ from \in Origins(chars, at)
<1>1. at \in 1..Len(chars) /\ from \in 0..(at - 1) /\ from < at /\ IsEdge(Word(chars, from, at))
  BY SeqDomain DEF Stops
<1>2. Word(chars, from, at) \in Seq(Chars)
  BY <1>1, WordBetween
<1>3. ScoreOf(Word(chars, from, at)) \in Int /\ IdsOf(Word(chars, from, at)) \in Seq(Id)
  BY <1>1, <1>2, WordFacts
<1>4. way.score \in Int /\ way.ids \in Seq(Id)
  BY DEF Node
<1>5. /\ IdsOf(Word(chars, from, at)) \o way.ids \in Seq(Id)
      /\ ScoreOf(Word(chars, from, at)) + way.score \in Int
  BY <1>3, <1>4, ConcatProperties
<1>6. from \in Origins(chars, at)
  BY <1>1, OriginsFacts
<1>7. Onward(chars, from, at, way) \in Node
  BY <1>5 DEF Onward, Node
<1> QED  BY <1>1, <1>3, <1>6, <1>7 DEF Onward

LEMMA WaysFromTyped ==
  ASSUME NEW chars \in Seq(Chars), NEW r \in [0..Len(chars) -> SUBSET Node], NEW from \in 0..Len(chars)
  PROVE  WaysFrom(chars, r, from) \in SUBSET Node
<1>1. ASSUME NEW p \in Onwards(chars, r, from) PROVE p \in Node
  <2>1. PICK at \in Stops(chars, from) : \E way \in r[at] : p = Onward(chars, from, at, way)
    BY <1>1, OnwardsMembers
  <2>2. PICK way \in r[at] : p = Onward(chars, from, at, way)
    BY <2>1
  <2>3. at \in 0..Len(chars)
    BY SeqDomain DEF Stops
  <2>4. way \in Node
    BY <2>2, <2>3
  <2> QED  BY <2>2, <2>4, OnwardIsNode
<1> QED  BY <1>1, StartIsNode DEF WaysFrom

\* The table of the ways from each position exists: it is filled from the end.
LEMMA RestExists ==
  ASSUME NEW chars \in Seq(Chars)
  PROVE  /\ Rest(chars) \in [0..Len(chars) -> SUBSET Node]
         /\ \A from \in 0..Len(chars) : Rest(chars)[from] = WaysFrom(chars, Rest(chars), from)
<1> DEFINE n == Len(chars)
           X == [0..n -> SUBSET Node]
           x0 == [i \in 0..n |-> {Start}]
           Put(r, k) == [r EXCEPT ![n - k] = WaysFrom(chars, r, n - k)]
           step == [k \in 1..n |-> [r \in X |-> Put(r, k)]]
<1>1. n \in Nat
  BY SeqDomain
<1>2. x0 \in X
  BY StartIsNode
<1>3. ASSUME NEW k \in 1..n, NEW r \in X
      PROVE  /\ n - k \in 0..n /\ Put(r, k) \in X
             /\ Put(r, k)[n - k] = WaysFrom(chars, r, n - k)
             /\ \A i \in 0..n : i # n - k => Put(r, k)[i] = r[i]
  <2>1. n - k \in 0..n
    BY <1>1
  <2>2. WaysFrom(chars, r, n - k) \in SUBSET Node
    BY <2>1, WaysFromTyped
  <2> HIDE DEF n
  <2> QED  BY <2>1, <2>2
<1> HIDE DEF Put, X, x0, n
<1>4. step \in Steps(X, n)
  <2>1. step \in [1..n -> [X -> X]]
    BY <1>3
  <2> QED  BY <2>1 DEF Steps
<1>5. \A k \in 1..n : \A r \in X : step[k][r] = Put(r, k)
  OBVIOUS
<1> HIDE DEF step
<1>6. PICK g \in Runs(X, x0, n, step) : TRUE
  BY <1>1, <1>2, <1>4, RunExists, Zenon
<1>7. g \in [0..n -> X] /\ g[0] = x0 /\ \A k \in 1..n : g[k] = step[k][g[k - 1]]
  BY <1>6 DEF Runs
<1> DEFINE Done(k) == \A i \in (n - k)..n : g[k][i] = WaysFrom(chars, g[k], i)
           Ks == {k \in Nat : k <= n => Done(k)}
<1>8. ASSUME NEW i \in 0..n, NEW r \in X, NEW s \in X, \A j \in (i + 1)..n : r[j] = s[j]
      PROVE  WaysFrom(chars, r, i) = WaysFrom(chars, s, i)
  <2>1. \A at \in Stops(chars, i) : r[at] = s[at]
    BY <1>8 DEF Stops, n
  <2>2. Onwards(chars, r, i) = Onwards(chars, s, i)
    BY <2>1, OnwardsLocal
  <2> QED  BY <2>2 DEF WaysFrom
<1>9. 0 \in Ks
  <2>1. \A i \in (n - 0)..n : i = n
    BY <1>1
  <2>2. g[0][n] = {Start}
    BY <1>1, <1>7 DEF x0
  <2>3. WaysFrom(chars, g[0], n) = {Start}
    BY DEF WaysFrom, n
  <2>4. Done(0)
    BY <2>1, <2>2, <2>3
  <2> QED  BY <2>4
<1>10. ASSUME NEW k \in Nat, k \in Ks, k + 1 <= n PROVE Done(k + 1)
  <2>1. Done(k) /\ k + 1 \in 1..n /\ k \in 0..n /\ k + 1 \in 0..n /\ (k + 1) - 1 = k
    BY <1>1, <1>10
  <2>2. g[k] \in X /\ g[k + 1] \in X /\ g[k + 1] = Put(g[k], k + 1)
    BY <1>5, <1>7, <2>1
  <2>3. /\ n - (k + 1) \in 0..n
        /\ g[k + 1][n - (k + 1)] = WaysFrom(chars, g[k], n - (k + 1))
        /\ \A i \in 0..n : i # n - (k + 1) => g[k + 1][i] = g[k][i]
    BY <1>3, <2>1, <2>2
  <2>4. ASSUME NEW i \in (n - (k + 1))..n
        PROVE  i \in 0..n /\ WaysFrom(chars, g[k + 1], i) = WaysFrom(chars, g[k], i)
    <3>1. i \in 0..n /\ \A j \in (i + 1)..n : j \in 0..n /\ j # n - (k + 1)
      BY <1>1, <2>1
    <3>2. \A j \in (i + 1)..n : g[k + 1][j] = g[k][j]
      BY <2>3, <3>1
    <3> QED  BY <1>8, <2>2, <3>1, <3>2
  <2>5. ASSUME NEW i \in (n - (k + 1))..n PROVE g[k + 1][i] = WaysFrom(chars, g[k + 1], i)
    <3>1. CASE i = n - (k + 1)
      BY <2>3, <2>4, <3>1
    <3>2. CASE i \in (n - k)..n /\ i # n - (k + 1)
      <4>1. g[k][i] = WaysFrom(chars, g[k], i)
        BY <2>1, <3>2
      <4>2. g[k + 1][i] = g[k][i]
        BY <2>3, <2>4, <3>2
      <4> QED  BY <2>4, <4>1, <4>2
    <3>3. i = n - (k + 1) \/ (i \in (n - k)..n /\ i # n - (k + 1))
      BY <1>1, <2>1
    <3> QED  BY <3>1, <3>2, <3>3
  <2> QED  BY <2>5
<1>11. \A k \in Nat : k \in Ks
  <2>1. \A k \in Nat : k \in Ks => k + 1 \in Ks
    <3> HIDE DEF Done
    <3> QED  BY <1>10
  <2> HIDE DEF Ks
  <2> QED  BY <1>9, <2>1, NatSetInduction
<1>12. Done(n)
  <2> HIDE DEF Done
  <2> QED  BY <1>1, <1>11
<1> DEFINE h == g[n]
           f == Rest(chars)
<1>13. h \in [0..n -> SUBSET Node] /\ \A i \in 0..n : h[i] = WaysFrom(chars, h, i)
  <2>1. \A i \in 0..n : i \in (n - n)..n
    BY <1>1
  <2>2. h \in X
    BY <1>1, <1>7
  <2> QED  BY <1>12, <2>1, <2>2 DEF X
<1>14. h = [from \in 0..n |-> WaysFrom(chars, h, from)]
  <2> HIDE DEF h
  <2> QED  BY <1>13
<1>15. f = CHOOSE rest : rest = [from \in 0..n |-> WaysFrom(chars, rest, from)]
  BY Zenon DEF Rest, n
<1> HIDE DEF f, h
<1>16. f = [from \in 0..n |-> WaysFrom(chars, f, from)]
  BY <1>14, <1>15
<1>17. \A i \in 0..n : f[i] = WaysFrom(chars, f, i)
  BY <1>16
<1> DEFINE Same(k) == \A i \in (n - k)..n : f[i] = h[i]
           Ms == {k \in Nat : k <= n => Same(k)}
<1>18. 0 \in Ms
  <2>1. \A i \in (n - 0)..n : i = n
    BY <1>1
  <2>2. n \in 0..n /\ WaysFrom(chars, f, n) = {Start} /\ WaysFrom(chars, h, n) = {Start}
    BY <1>1 DEF WaysFrom, n
  <2>3. f[n] = h[n]
    BY <1>13, <1>17, <2>2
  <2> QED  BY <2>1, <2>3
<1>19. ASSUME NEW k \in Nat, k \in Ms, k + 1 <= n PROVE Same(k + 1)
  <2>1. Same(k) /\ n - (k + 1) \in 0..n
    BY <1>1, <1>19
  <2> DEFINE m == n - (k + 1)
  <2>2. \A j \in (m + 1)..n : f[j] = h[j]
    BY <1>1, <2>1
  <2>3. \A at \in Stops(chars, m) : f[at] = h[at]
    BY <2>2 DEF Stops, n
  <2>4. Onwards(chars, f, m) = Onwards(chars, h, m)
    BY <2>3, OnwardsLocal
  <2>5. f[m] = h[m]
    BY <1>13, <1>17, <2>1, <2>4 DEF WaysFrom
  <2>6. \A i \in (n - (k + 1))..n : i = m \/ i \in (n - k)..n
    BY <1>1
  <2> QED  BY <2>1, <2>5, <2>6
<1>20. \A k \in Nat : k \in Ms
  <2>1. \A k \in Nat : k \in Ms => k + 1 \in Ms
    <3> HIDE DEF Same
    <3> QED  BY <1>19
  <2> HIDE DEF Ms
  <2> QED  BY <1>18, <2>1, NatSetInduction
<1>21. \A i \in 0..n : f[i] = h[i]
  <2>1. Same(n)
    <3> HIDE DEF Same
    <3> QED  BY <1>1, <1>20
  <2>2. \A i \in 0..n : i \in (n - n)..n
    BY <1>1
  <2> QED  BY <2>1, <2>2
<1>22. f \in [0..n -> SUBSET Node]
  BY <1>13, <1>16, <1>21
<1> QED  BY <1>17, <1>22 DEF f, n

\* No way on from a position brings a text more than its last row has.
LEMMA NoWayBeats ==
  ASSUME NEW chars \in Seq(Chars), NEW v, Filled(chars, v, Len(chars))
  PROVE  \A from \in 0..Len(chars) : \A p \in Rest(chars)[from] :
           v[from + 1].score + p.score <= v[Len(chars) + 1].score
<1> DEFINE n == Len(chars)
           f == Rest(chars)
           Ok(from) == \A p \in f[from] : v[from + 1].score + p.score <= v[n + 1].score
           Done(k) == \A from \in (n - k)..n : Ok(from)
           Ks == {k \in Nat : k <= n => Done(k)}
<1>1. n \in Nat
  BY SeqDomain
<1>2. f \in [0..n -> SUBSET Node] /\ \A from \in 0..n : f[from] = WaysFrom(chars, f, from)
  BY RestExists
<1>3. ASSUME NEW i \in 0..n PROVE v[i + 1] \in Node /\ v[i + 1].score \in Int
  <2>1. v \in Seq(Node) /\ i + 1 \in 1..Len(v)
    BY <1>1 DEF Filled
  <2>2. v[i + 1] \in Node
    BY <2>1, ElementOfSeq
  <2> QED  BY <2>2 DEF Node
<1> HIDE DEF f
<1>4. 0 \in Ks
  <2>1. \A i \in (n - 0)..n : i = n
    BY <1>1
  <2>2. f[n] = {Start}
    BY <1>1, <1>2 DEF WaysFrom
  <2>3. \A p \in f[n] : p.score = 0
    BY <2>2 DEF Start
  <2>4. n \in 0..n /\ v[n + 1].score \in Int
    BY <1>1, <1>3
  <2>5. Ok(n)
    <3> HIDE DEF n
    <3> QED  BY <2>3, <2>4
  <2> HIDE DEF Ok
  <2>6. Done(0)
    BY <2>1, <2>5
  <2> QED  BY <2>6
<1>5. ASSUME NEW k \in Nat, k \in Ks, k + 1 <= n PROVE Done(k + 1)
  <2> DEFINE m == n - (k + 1)
  <2>1. Done(k) /\ m \in 0..n /\ m # n
    BY <1>1, <1>5
  <2>2. Ok(m)
    <3> SUFFICES ASSUME NEW p \in f[m] PROVE v[m + 1].score + p.score <= v[n + 1].score
      OBVIOUS
    <3>1. p \in Onwards(chars, f, m)
      BY <1>2, <2>1 DEF WaysFrom
    <3>2. PICK at \in Stops(chars, m) : \E way \in f[at] : p = Onward(chars, m, at, way)
      BY <3>1, OnwardsMembers
    <3>3. PICK way \in f[at] : p = Onward(chars, m, at, way)
      BY <3>2
    <3>4. at \in (n - k)..n /\ at \in 0..n
      BY <1>1, <2>1 DEF Stops
    <3>5. way \in Node
      BY <1>2, <3>4
    <3>6. /\ p.score = ScoreOf(Word(chars, m, at)) + way.score
          /\ ScoreOf(Word(chars, m, at)) \in Int
          /\ at \in 1..n /\ m \in Origins(chars, at)
      BY <2>1, <3>3, <3>5, OnwardIsNode
    <3>7. way.score \in Int
      BY <3>5 DEF Node
    <3>8. v[at + 1].score + way.score <= v[n + 1].score
      BY <2>1, <3>4
    <3>9. v[m + 1].score + ScoreOf(Word(chars, m, at)) <= v[at + 1].score
      BY <3>6 DEF Filled, Via
    <3>10. v[m + 1].score \in Int /\ v[at + 1].score \in Int /\ v[n + 1].score \in Int
      BY <1>1, <1>3, <2>1, <3>4
    <3> HIDE DEF m, n
    <3> QED  BY <3>6, <3>7, <3>8, <3>9, <3>10
  <2>3. \A i \in (n - (k + 1))..n : i = m \/ i \in (n - k)..n
    BY <1>1
  <2> HIDE DEF Ok
  <2> QED  BY <2>1, <2>2, <2>3
<1>6. \A k \in Nat : k \in Ks
  <2>1. \A k \in Nat : k \in Ks => k + 1 \in Ks
    <3> HIDE DEF Done
    <3> QED  BY <1>5
  <2> HIDE DEF Ks
  <2> QED  BY <1>4, <2>1, NatSetInduction
<1>7. Done(n)
  <2> HIDE DEF Done
  <2> QED  BY <1>1, <1>6
<1>8. \A from \in 0..n : from \in (n - n)..n
  BY <1>1
<1>9. \A from \in 0..n : Ok(from)
  <2> HIDE DEF Ok, n
  <2> QED  BY <1>7, <1>8
<1> QED  BY <1>9 DEF f

\* What a row holds is the beginning of a whole way, however it goes on.
LEMMA RowsAreWays ==
  ASSUME NEW chars \in Seq(Chars), NEW v, Filled(chars, v, Len(chars))
  PROVE  \A at \in 0..Len(chars) : \A p \in Rest(chars)[at] :
           \E way \in Rest(chars)[0] :
             way.score = v[at + 1].score + p.score /\ way.ids = v[at + 1].ids \o p.ids
<1> DEFINE n == Len(chars)
           f == Rest(chars)
           Ok(at) == \A p \in f[at] : \E way \in f[0] :
                       way.score = v[at + 1].score + p.score /\ way.ids = v[at + 1].ids \o p.ids
           Done(k) == \A at \in 0..k : Ok(at)
           Ks == {k \in Nat : k <= n => Done(k)}
<1>1. n \in Nat
  BY SeqDomain
<1>2. f \in [0..n -> SUBSET Node] /\ \A from \in 0..n : f[from] = WaysFrom(chars, f, from)
  BY RestExists
<1>3. ASSUME NEW i \in 0..n PROVE v[i + 1].score \in Int /\ v[i + 1].ids \in Seq(Id)
  <2>1. v \in Seq(Node) /\ i + 1 \in 1..Len(v)
    BY <1>1 DEF Filled
  <2>2. v[i + 1] \in Node
    BY <2>1, ElementOfSeq
  <2> QED  BY <2>2 DEF Node
<1> HIDE DEF f
<1>4. 0 \in Ks
  <2>1. 0 \in 0..n
    BY <1>1
  <2>2. v[0 + 1].score = 0 /\ v[0 + 1].ids = <<>>
    BY DEF Filled, Start
  <2>3. ASSUME NEW p \in f[0] PROVE p.score = v[0 + 1].score + p.score /\ p.ids = v[0 + 1].ids \o p.ids
    <3>1. p \in Node
      BY <1>2, <2>1
    <3>2. p.score \in Int /\ p.ids \in Seq(Id)
      BY <3>1 DEF Node
    <3>3. <<>> \o p.ids = p.ids
      BY <3>2, ConcatEmptySeq
    <3> QED  BY <2>2, <3>2, <3>3
  <2>4. Ok(0)
    BY <2>3
  <2>5. \A i \in 0..0 : i = 0
    OBVIOUS
  <2> HIDE DEF Ok
  <2> QED  BY <2>4, <2>5
<1>5. ASSUME NEW k \in Nat, k \in Ks, k + 1 <= n PROVE Done(k + 1)
  <2> DEFINE at == k + 1
  <2>1. Done(k) /\ at \in 1..n /\ at \in 0..n
    <3> HIDE DEF Done, n
    <3> QED  BY <1>1, <1>5
  <2>2. PICK c \in Origins(chars, at) : /\ v[at + 1].score = Via(v, chars, c, at)
                                        /\ v[at + 1].ids = v[c + 1].ids \o IdsOf(Word(chars, c, at))
    BY <2>1 DEF Filled
  <2>3. c \in 0..(at - 1) /\ IsEdge(Word(chars, c, at))
    BY <2>1, OriginsFacts
  <2>4. c \in 0..n /\ c \in 0..k /\ c # n /\ at \in Stops(chars, c)
    BY <1>1, <2>1, <2>3 DEF Stops
  <2>5. Ok(at)
    <3> SUFFICES ASSUME NEW p \in f[at]
                 PROVE  \E way \in f[0] : /\ way.score = v[at + 1].score + p.score
                                          /\ way.ids = v[at + 1].ids \o p.ids
      OBVIOUS
    <3> DEFINE q == Onward(chars, c, at, p)
               word == Word(chars, c, at)
    <3>1. p \in Node
      BY <1>2, <2>1
    <3>2. /\ q.score = ScoreOf(word) + p.score /\ q.ids = IdsOf(word) \o p.ids
          /\ ScoreOf(word) \in Int /\ IdsOf(word) \in Seq(Id)
      BY <2>4, <3>1, OnwardIsNode
    <3>3. q \in f[c]
      <4>1. q \in Onwards(chars, f, c)
        BY <2>4, OnwardsMembers
      <4> QED  BY <1>2, <2>4, <4>1 DEF WaysFrom
    <3> HIDE DEF q
    <3>4. PICK way \in f[0] : way.score = v[c + 1].score + q.score /\ way.ids = v[c + 1].ids \o q.ids
      BY <2>1, <2>4, <3>3
    <3>5. p.score \in Int /\ p.ids \in Seq(Id)
      BY <3>1 DEF Node
    <3>6. v[c + 1].score \in Int /\ v[c + 1].ids \in Seq(Id)
      BY <1>3, <2>4
    <3> HIDE DEF word, at
    <3>7. /\ v[at + 1].score = v[c + 1].score + ScoreOf(word)
          /\ v[at + 1].ids = v[c + 1].ids \o IdsOf(word)
      BY <2>2 DEF Via, word
    <3>8. way.score = v[at + 1].score + p.score
      BY <3>2, <3>4, <3>5, <3>6, <3>7
    <3>9. way.ids = v[at + 1].ids \o p.ids
      <4> DEFINE a == v[c + 1].ids
                 b == IdsOf(word)
                 e == p.ids
      <4>1. a \in Seq(Id) /\ b \in Seq(Id) /\ e \in Seq(Id)
        BY <3>2, <3>5, <3>6
      <4>2. way.ids = a \o q.ids /\ q.ids = b \o e /\ v[at + 1].ids = a \o b
        BY <3>2, <3>4, <3>7
      <4> HIDE DEF a, b
      <4>3. (a \o b) \o e = a \o (b \o e)
        <5> HIDE DEF e
        <5> QED  BY <4>1, ConcatAssociative
      <4> QED  BY <4>2, <4>3
    <3> QED  BY <3>8, <3>9
  <2>6. \A i \in 0..(k + 1) : i = at \/ i \in 0..k
    OBVIOUS
  <2> HIDE DEF Ok
  <2> QED  BY <2>1, <2>5, <2>6
<1>6. \A k \in Nat : k \in Ks
  <2>1. \A k \in Nat : k \in Ks => k + 1 \in Ks
    <3> HIDE DEF Done
    <3> QED  BY <1>5
  <2> HIDE DEF Ks
  <2> QED  BY <1>4, <2>1, NatSetInduction
<1>7. Done(n)
  <2> HIDE DEF Done
  <2> QED  BY <1>1, <1>6
<1> QED  BY <1>7 DEF f

\* The last row is a way to spell the text that no other beats.
LEMMA LastRowIsBest ==
  ASSUME NEW chars \in Seq(Chars)
  PROVE  \E way \in Ways(chars) : /\ way.ids = Last(Viterbi(chars)).ids
                                  /\ \A other \in Ways(chars) : other.score <= way.score
<1> DEFINE n == Len(chars)
           v == Viterbi(chars)
           f == Rest(chars)
<1>1. Filled(chars, v, n)
  BY ViterbiFacts
<1>2. n \in Nat /\ n \in 0..n /\ 0 \in 0..n
  BY SeqDomain
<1>3. v \in Seq(Node) /\ Len(v) = n + 1 /\ v[1] = Start
  BY <1>1 DEF Filled
<1>4. v[n + 1] \in Node
  BY <1>2, <1>3, ElementOfSeq
<1>5. v[n + 1].score \in Int /\ v[n + 1].ids \in Seq(Id)
  BY <1>4 DEF Node
<1>6. f \in [0..n -> SUBSET Node] /\ f[n] = {Start}
  BY <1>2, RestExists DEF WaysFrom
<1>7. Last(v) = v[n + 1]
  BY <1>3 DEF Last
<1>8. \A from \in 0..n : \A p \in f[from] : v[from + 1].score + p.score <= v[n + 1].score
  BY <1>1, NoWayBeats
<1>9. \A at \in 0..n : \A p \in f[at] : \E way \in f[0] :
        way.score = v[at + 1].score + p.score /\ way.ids = v[at + 1].ids \o p.ids
  BY <1>1, RowsAreWays
<1>10. Ways(chars) = f[0]
  BY WaysAreTheRest
<1> HIDE DEF n, v, f
<1>11. PICK way \in f[0] : /\ way.score = v[n + 1].score + Start.score
                           /\ way.ids = v[n + 1].ids \o Start.ids
  BY <1>2, <1>6, <1>9
<1>12. way.score = v[n + 1].score /\ way.ids = v[n + 1].ids
  <2>1. Start.score = 0 /\ Start.ids = <<>>
    BY DEF Start
  <2>2. v[n + 1].ids \o <<>> = v[n + 1].ids
    BY <1>5, ConcatEmptySeq
  <2> QED  BY <1>5, <1>11, <2>1, <2>2
<1>13. ASSUME NEW other \in f[0] PROVE other.score <= way.score
  <2>1. v[0 + 1].score + other.score <= v[n + 1].score
    BY <1>2, <1>8
  <2>2. v[0 + 1].score = 0
    BY <1>3 DEF Start
  <2>3. other.score \in Int
    <3>1. other \in Node
      BY <1>2, <1>6
    <3> QED  BY <3>1 DEF Node
  <2> QED  BY <1>12, <2>1, <2>2, <2>3
<1>14. way.ids = Last(v).ids
  BY <1>7, <1>12
<1> QED  BY <1>10, <1>13, <1>14 DEF v

-----------------------------------------------------------------------------
(* The buffer of ids.                                                      *)

Bytes(chars) ==
  CHOOSE bytes : bytes = [k \in 0..Len(chars) |-> IF k = 0 THEN 0 ELSE bytes[k - 1] + BytesOf[chars[k]]]

LEMMA BytesExist ==
  ASSUME NEW chars \in Seq(Chars)
  PROVE  /\ Bytes(chars) \in [0..Len(chars) -> Nat] /\ Bytes(chars)[0] = 0
         /\ \A k \in 1..Len(chars) : Bytes(chars)[k] = Bytes(chars)[k - 1] + BytesOf[chars[k]]
<1> DEFINE n == Len(chars)
           step == [k \in 1..n |-> [b \in Nat |-> b + BytesOf[chars[k]]]]
           f == Bytes(chars)
           Ks == {k \in Nat : k <= n => f[k] \in Nat}
<1>1. n \in Nat /\ \A k \in 1..n : BytesOf[chars[k]] \in Nat
  BY SeqDomain, BytesAssumption DEF Chars
<1>2. step \in Steps(Nat, n)
  BY <1>1 DEF Steps
<1>3. \A k \in 1..n : \A b \in Nat : step[k][b] = b + BytesOf[chars[k]]
  OBVIOUS
<1> HIDE DEF step, n
<1>4. PICK g \in Runs(Nat, 0, n, step) : TRUE
  BY <1>1, <1>2, RunExists
<1>5. g \in [0..n -> Nat] /\ g[0] = 0 /\ \A k \in 1..n : g[k] = step[k][g[k - 1]]
  BY <1>4 DEF Runs
<1>6. \A k \in 1..n : g[k] = g[k - 1] + BytesOf[chars[k]]
  <2>1. \A k \in 1..n : k - 1 \in 0..n
    BY <1>1
  <2>2. \A k \in 1..n : g[k - 1] \in Nat
    BY <1>5, <2>1
  <2> QED  BY <1>3, <1>5, <2>2
<1>7. g = [k \in 0..n |-> IF k = 0 THEN 0 ELSE g[k - 1] + BytesOf[chars[k]]]
  <2>1. \A k \in 0..n : k = 0 \/ k \in 1..n
    BY <1>1
  <2> QED  BY <1>5, <1>6, <2>1
<1>8. f = CHOOSE bytes : bytes = [k \in 0..n |-> IF k = 0 THEN 0 ELSE bytes[k - 1] + BytesOf[chars[k]]]
  BY Zenon DEF Bytes, n
<1> HIDE DEF f
<1>9. f = [k \in 0..n |-> IF k = 0 THEN 0 ELSE f[k - 1] + BytesOf[chars[k]]]
  BY <1>7, <1>8
<1>10. f[0] = 0
  BY <1>1, <1>9
<1>11. \A k \in 1..n : f[k] = f[k - 1] + BytesOf[chars[k]]
  <2>1. \A k \in 1..n : k \in 0..n /\ k # 0
    BY <1>1
  <2> QED  BY <1>9, <2>1
<1>12. \A k \in Nat : k \in Ks
  <2>1. 0 \in Ks
    BY <1>10
  <2>2. ASSUME NEW k \in Nat, k \in Ks, k + 1 <= n PROVE f[k + 1] \in Nat
    <3>1. k + 1 \in 1..n /\ (k + 1) - 1 = k /\ f[k] \in Nat
      BY <1>1, <2>2
    <3>2. f[k + 1] = f[k] + BytesOf[chars[k + 1]]
      BY <1>11, <3>1
    <3> QED  BY <1>1, <3>1, <3>2
  <2>3. \A k \in Nat : k \in Ks => k + 1 \in Ks
    BY <2>2
  <2> HIDE DEF Ks
  <2> QED  BY <2>1, <2>3, NatSetInduction
<1>13. f \in [0..n -> Nat]
  <2>1. \A k \in 0..n : f[k] \in Nat
    BY <1>1, <1>12
  <2> QED  BY <1>9, <2>1
<1> QED  BY <1>10, <1>11, <1>13 DEF f, n

\* A row has at least one id once a word has been taken.
LEMMA RowsAreNotEmpty ==
  ASSUME NEW chars \in Seq(Chars), Len(chars) # 0
  PROVE  Last(Viterbi(chars)).ids \in Seq(Id) /\ Len(Last(Viterbi(chars)).ids) \in Nat \ {0}
<1> DEFINE n == Len(chars)
           v == Viterbi(chars)
<1>1. n \in Nat /\ n \in 1..n /\ v \in Seq(Node) /\ Len(v) = n + 1
  BY SeqDomain, ViterbiFacts DEF Filled
<1>2. PICK c \in Origins(chars, n) : v[n + 1].ids = v[c + 1].ids \o IdsOf(Word(chars, c, n))
  BY <1>1, ViterbiFacts DEF Filled
<1>3. c \in 0..(n - 1) /\ IsEdge(Word(chars, c, n))
  BY <1>1, OriginsFacts
<1>4. Word(chars, c, n) \in Seq(Chars)
  BY <1>1, <1>3, WordBetween
<1>5. IdsOf(Word(chars, c, n)) \in Seq(Id) /\ Len(IdsOf(Word(chars, c, n))) \in Nat \ {0}
  BY <1>3, <1>4, WordFacts
<1>6. v[c + 1].ids \in Seq(Id) /\ Len(v[c + 1].ids) \in Nat
  <2>1. c + 1 \in 1..Len(v)
    BY <1>1, <1>3
  <2>2. v[c + 1] \in Node
    BY <1>1, <2>1, ElementOfSeq
  <2>3. v[c + 1].ids \in Seq(Id)
    BY <2>2 DEF Node
  <2> QED  BY <2>3, LenProperties
<1>7. Last(v) = v[n + 1]
  BY <1>1 DEF Last
<1> HIDE DEF v, n
<1>8. /\ v[n + 1].ids \in Seq(Id)
      /\ Len(v[n + 1].ids) = Len(v[c + 1].ids) + Len(IdsOf(Word(chars, c, n)))
  BY <1>2, <1>5, <1>6, ConcatProperties
<1>9. Last(v).ids \in Seq(Id) /\ Len(Last(v).ids) \in Nat \ {0}
  BY <1>5, <1>6, <1>7, <1>8
<1> QED  BY <1>9 DEF v

\* No row holds more ids than its position has bytes before it.
LEMMA RowsFit ==
  ASSUME NEW chars \in Seq(Chars)
  PROVE  Len(Last(Viterbi(chars)).ids) <= IdBound(chars)
<1> DEFINE n == Len(chars)
           v == Viterbi(chars)
           f == Bytes(chars)
           Grown(at) == \A c \in 0..at : f[c] <= f[at]
           Fits(at) == Len(v[at + 1].ids) <= f[at]
           Done(k) == \A at \in 0..k : Grown(at) /\ Fits(at)
           Ks == {k \in Nat : k <= n => Done(k)}
<1>1. n \in Nat /\ \A i \in 1..n : BytesOf[chars[i]] \in Nat
  BY SeqDomain, BytesAssumption DEF Chars
<1>2. f \in [0..n -> Nat] /\ f[0] = 0 /\ \A k \in 1..n : f[k] = f[k - 1] + BytesOf[chars[k]]
  BY BytesExist
<1>3. Filled(chars, v, n)
  BY ViterbiFacts
<1>4. ASSUME NEW i \in 0..n PROVE v[i + 1].ids \in Seq(Id) /\ Len(v[i + 1].ids) \in Nat
  <2>1. v \in Seq(Node) /\ i + 1 \in 1..Len(v)
    BY <1>1, <1>3 DEF Filled
  <2>2. v[i + 1] \in Node
    BY <2>1, ElementOfSeq
  <2>3. v[i + 1].ids \in Seq(Id)
    BY <2>2 DEF Node
  <2> QED  BY <2>3, LenProperties
<1> HIDE DEF f, v
<1>5. 0 \in Ks
  <2>1. \A i \in 0..0 : i = 0
    OBVIOUS
  <2>2. Grown(0)
    BY <1>2, <2>1
  <2>3. v[0 + 1] = Start
    BY <1>3 DEF Filled
  <2>4. Len(v[0 + 1].ids) = 0
    BY <2>3 DEF Start
  <2>5. Fits(0)
    BY <1>2, <2>4
  <2> HIDE DEF Fits, Grown
  <2> QED  BY <2>1, <2>2, <2>5
<1>6. ASSUME NEW k \in Nat, k \in Ks, k + 1 <= n PROVE Done(k + 1)
  <2> DEFINE at == k + 1
  <2>1. Done(k) /\ at \in 1..n /\ at \in 0..n /\ at - 1 = k /\ k \in 0..n
    <3> HIDE DEF Done, n
    <3> QED  BY <1>1, <1>6
  <2>2. f[at] = f[k] + BytesOf[chars[at]] /\ f[at] \in Nat /\ f[k] \in Nat
    BY <1>2, <2>1
  <2>3. Grown(k)
    BY <2>1
  <2>4. \A i \in 0..(k + 1) : i = at \/ i \in 0..k
    OBVIOUS
  <2>5. Grown(at)
    <3>1. \A c \in 0..at : c \in 0..n /\ f[c] \in Nat
      <4> HIDE DEF n, Done
      <4>1. \A c \in 0..at : c \in 0..n
        BY <1>1, <2>1
      <4> QED  BY <1>2, <4>1
    <3>2. BytesOf[chars[at]] \in Nat
      BY <1>1, <2>1
    <3> SUFFICES ASSUME NEW c \in 0..at PROVE f[c] <= f[at]
      OBVIOUS
    <3>3. c = at \/ f[c] <= f[k]
      BY <2>3, <2>4
    <3> HIDE DEF at
    <3> QED  BY <2>2, <3>1, <3>2, <3>3
  <2>6. Fits(at)
    <3> DEFINE word(c) == Word(chars, c, at)
    <3>1. PICK c \in Origins(chars, at) : v[at + 1].ids = v[c + 1].ids \o IdsOf(word(c))
      BY <1>3, <2>1 DEF Filled
    <3>2. c \in 0..(at - 1) /\ IsEdge(word(c))
      BY <2>1, OriginsFacts
    <3>3. word(c) \in Seq(Chars) /\ word(c)[1] = chars[c + 1]
      BY <2>1, <3>2, WordBetween
    <3>4. /\ IdsOf(word(c)) \in Seq(Id) /\ Len(IdsOf(word(c))) \in Nat
          /\ Len(IdsOf(word(c))) <= BytesOf[chars[c + 1]]
      BY <3>2, <3>3, WordFacts
    <3>5. c \in 0..k /\ c \in 0..n /\ c + 1 \in 1..n /\ (c + 1) - 1 = c /\ c + 1 \in 0..n
      BY <1>1, <2>1, <3>2
    <3>6. Len(v[c + 1].ids) <= f[c]
      BY <2>1, <3>5
    <3>7. /\ f[c + 1] = f[c] + BytesOf[chars[c + 1]]
          /\ f[c] \in Nat /\ BytesOf[chars[c + 1]] \in Nat /\ f[c + 1] \in Nat
      BY <1>1, <1>2, <3>5
    <3>8. f[c + 1] <= f[at]
      BY <2>5, <3>5
    <3>9. Len(v[at + 1].ids) = Len(v[c + 1].ids) + Len(IdsOf(word(c))) /\ Len(v[c + 1].ids) \in Nat
      BY <1>4, <3>1, <3>4, <3>5, ConcatProperties
    <3> HIDE DEF at, word
    <3> QED  BY <2>2, <3>4, <3>6, <3>7, <3>8, <3>9
  <2> HIDE DEF Grown, Fits
  <2> QED  BY <2>1, <2>4, <2>5, <2>6
<1>7. \A k \in Nat : k \in Ks
  <2>1. \A k \in Nat : k \in Ks => k + 1 \in Ks
    <3> HIDE DEF Done
    <3> QED  BY <1>6
  <2> HIDE DEF Ks
  <2> QED  BY <1>5, <2>1, NatSetInduction
<1>8. Fits(n)
  <2>1. Done(n)
    <3> HIDE DEF Done
    <3> QED  BY <1>1, <1>7
  <2>2. n \in 0..n
    BY <1>1
  <2> HIDE DEF Fits, Grown, n
  <2> QED  BY <2>1, <2>2
<1>9. IdBound(chars) = f[n]
  BY DEF IdBound, Bytes, f
<1>10. Last(v) = v[n + 1]
  BY <1>3 DEF Last, Filled
<1> QED  BY <1>8, <1>9, <1>10 DEF v

-----------------------------------------------------------------------------
(* Every text of the machine is one of characters.                         *)

LEMMA NormalizedTyped ==
  ASSUME NEW t \in Seq(Alphabet)
  PROVE  Normalized(t) \in Seq(Chars) /\ (t # <<>> => Len(Normalized(t)) # 0)
<1>1. Space \in Chars /\ Escaped \in Chars /\ Replacement \in Chars /\ Alphabet \subseteq Chars
  BY BytesAssumption, SegmentAssumption DEF Chars
<1>2. \A char \in Chars : NormalForm(char) \in Chars
  BY <1>1, BytesAssumption DEF NormalForm
<1>3. Prefix \in Seq(Chars)
  <2>1. <<NormalForm(Space)>> \in Seq(Chars) /\ <<>> \in Seq(Chars)
    BY <1>1, <1>2
  <2> QED  BY <2>1 DEF Prefix
<1> DEFINE u == [i \in DOMAIN t |-> NormalForm(t[i])]
<1>4. u \in Seq(Chars)
  <2>1. Len(t) \in Nat /\ DOMAIN t = 1..Len(t) /\ \A i \in DOMAIN t : t[i] \in Alphabet
    BY SeqDomain
  <2>2. \A i \in 1..Len(t) : NormalForm(t[i]) \in Chars
    BY <1>1, <1>2, <2>1
  <2>3. u \in [1..Len(t) -> Chars]
    BY <2>1, <2>2
  <2> QED  BY <2>1, <2>3
<1> HIDE DEF u
<1>5. Prefix \o u \in Seq(Chars)
  BY <1>3, <1>4, ConcatProperties
<1>6. Normalized(t) = IF t = <<>> THEN <<>> ELSE Prefix \o u
  BY DEF Normalized, u
<1>7. ASSUME t # <<>> PROVE Len(Prefix \o u) # 0
  <2>1. Len(t) \in Nat \ {0}
    BY <1>7, SeqDomain
  <2>2. Len(u) = Len(t)
    BY <2>1 DEF u
  <2>3. Len(Prefix) \in Nat /\ Len(Prefix \o u) = Len(Prefix) + Len(u)
    BY <1>3, <1>4, ConcatProperties, LenProperties
  <2> QED  BY <2>1, <2>2, <2>3
<1>8. <<>> \in Seq(Chars)
  OBVIOUS
<1> QED  BY <1>5, <1>6, <1>7, <1>8

Written == text \in Seq(Alphabet) /\ budget \in Budgets

LEMMA WrittenAlways ==
  Spec => []Written
<1>1. Init => Written
  BY DEF Init, Written
<1>2. Written /\ [Next]_vars => Written'
  BY DEF Written, Next, Write, vars
<1> QED  BY <1>1, <1>2, PTL DEF Spec

\* The ids of every text, for any dictionary, any scores, any normalisation and
\* any length, are those of a way to spell it that no other way beats, and they
\* fit in the buffer that mynah_sp_encode allocates before it searches.
THEOREM EncoderIsOptimal ==
  Spec => []EncodingIsBest
<1>1. Written => EncodingIsBest
  <2> SUFFICES ASSUME Written PROVE EncodingIsBest
    OBVIOUS
  <2>1. Normalized(text) \in Seq(Chars)
    BY NormalizedTyped DEF Written
  <2> DEFINE chars == Normalized(text)
  <2>2. Encode(text) = Last(Viterbi(chars)).ids
    BY DEF Encode
  <2>3. \E way \in Ways(chars) :
          way.ids = Encode(text) /\ \A other \in Ways(chars) : other.score <= way.score
    BY <2>1, <2>2, LastRowIsBest
  <2>4. Len(Encode(text)) <= IdBound(chars)
    BY <2>1, <2>2, RowsFit
  <2> QED  BY <2>3, <2>4 DEF EncodingIsBest
<1> QED  BY <1>1, WrittenAlways, PTL

-----------------------------------------------------------------------------
(* Cutting: spans of the text.                                             *)

\* a span within the text, empty or not
Inside(span) == span \in Nat \X Nat /\ 1 <= span[1] /\ span[2] <= Len(text)

\* a span that has something in it, without whitespace at its ends
IsPiece(span) ==
  /\ Inside(span) /\ span[1] <= span[2] /\ text[span[1]] \notin Whitespace
  /\ text[span[2]] \notin Whitespace

LEMMA TrimFacts ==
  ASSUME text \in Seq(Alphabet), NEW span, Inside(span)
  PROVE  LET words == {i \in span[1]..span[2] : text[i] \notin Whitespace}
         IN  /\ words = {} => Trim(span) = <<span[1], span[1] - 1>>
             /\ words # {} => /\ IsPiece(Trim(span))
                              /\ span[1] <= Trim(span)[1] /\ Trim(span)[2] <= span[2]
                              /\ \A i \in words : i \in Trim(span)[1]..Trim(span)[2]
<1> DEFINE W == {i \in span[1]..span[2] : text[i] \notin Whitespace}
           lo == Min(W)
           hi == Max(W)
<1>1. span[1] \in Nat /\ span[2] \in Nat /\ 1 <= span[1] /\ span[2] <= Len(text) /\ Len(text) \in Nat
  BY SeqDomain DEF Inside
<1>2. Trim(span) = IF W = {} THEN <<span[1], span[1] - 1>> ELSE <<lo, hi>>
  BY DEF Trim, Blank
<1>3. /\ W \in SUBSET (0..span[2])
      /\ \A i \in W : i \in Nat /\ span[1] <= i /\ i <= span[2] /\ text[i] \notin Whitespace
  BY <1>1
<1> HIDE DEF W
<1>4. ASSUME W # {} PROVE lo \in W /\ hi \in W /\ \A i \in W : lo <= i /\ i <= hi
  <2>1. \E i \in W : \A k \in W : i <= k
    BY <1>3, <1>4, LeastExists
  <2>2. lo \in W /\ \A i \in W : lo <= i
    BY <2>1 DEF Min
  <2> DEFINE f == [i \in W |-> i]
  <2>3. f \in [W -> Int] /\ \A i \in W : f[i] = i
    BY <1>3
  <2> HIDE DEF f
  <2> DEFINE n == span[2]
  <2>n. n \in Nat /\ W \in SUBSET (0..n)
    BY <1>1, <1>3
  <2> HIDE DEF n
  <2>4. PICK m \in W : \A k \in W : f[k] <= f[m]
    BY <1>4, <2>3, <2>n, GreatestExists
  <2>5. \A k \in W : m >= k
    BY <1>3, <2>3, <2>4
  <2>6. hi \in W /\ \A i \in W : hi >= i
    BY <2>5 DEF Max
  <2> QED  BY <1>3, <2>2, <2>6
<1> HIDE DEF lo, hi
<1>5. ASSUME W # {}
      PROVE  /\ IsPiece(<<lo, hi>>) /\ span[1] <= lo /\ hi <= span[2]
             /\ \A i \in W : i \in lo..hi
  <2>1. lo \in W /\ hi \in W /\ lo <= hi /\ \A i \in W : lo <= i /\ i <= hi
    BY <1>4, <1>5
  <2>2. /\ lo \in Nat /\ hi \in Nat /\ span[1] <= lo /\ hi <= span[2] /\ text[lo] \notin Whitespace
        /\ text[hi] \notin Whitespace
    BY <1>3, <2>1
  <2>3. IsPiece(<<lo, hi>>)
    BY <1>1, <2>1, <2>2 DEF IsPiece, Inside
  <2> QED  BY <1>3, <2>1, <2>2, <2>3
<1> QED  BY <1>2, <1>5 DEF W

LEMMA PieceFacts ==
  ASSUME text \in Seq(Alphabet), NEW p, IsPiece(p)
  PROVE  /\ p = <<p[1], p[2]>> /\ p[1] \in Nat /\ p[2] \in Nat /\ 1 <= p[1] /\ p[1] <= p[2]
         /\ p[2] <= Len(text) /\ Len(text) \in Nat
         /\ text[p[1]] \notin Whitespace /\ text[p[2]] \notin Whitespace
BY SeqDomain DEF IsPiece, Inside

\* What needs no trimming stays as it is.
LEMMA TrimOfPiece ==
  ASSUME text \in Seq(Alphabet), NEW p, IsPiece(p)
  PROVE  Trim(p) = p
<1> DEFINE W == {i \in p[1]..p[2] : text[i] \notin Whitespace}
           t == Trim(p)
<1>1. /\ p = <<p[1], p[2]>> /\ p[1] \in Nat /\ p[2] \in Nat /\ p[1] <= p[2]
      /\ text[p[1]] \notin Whitespace /\ text[p[2]] \notin Whitespace
  BY PieceFacts
<1>2. p[1] \in W /\ p[2] \in W
  BY <1>1
<1>3. IsPiece(t) /\ p[1] <= t[1] /\ t[2] <= p[2] /\ p[1] \in t[1]..t[2] /\ p[2] \in t[1]..t[2]
  BY <1>2, TrimFacts DEF IsPiece
<1> HIDE DEF t, W
<1>4. t = <<t[1], t[2]>> /\ t[1] \in Nat /\ t[2] \in Nat
  BY <1>3, PieceFacts
<1>5. t[1] = p[1] /\ t[2] = p[2]
  BY <1>1, <1>3, <1>4
<1> QED  BY <1>1, <1>4, <1>5 DEF t

\* Pieces that lie one behind the other in a span and leave out no word of it.
Tiles(span, P) ==
  /\ \A p \in P : IsPiece(p) /\ span[1] <= p[1] /\ p[2] <= span[2]
  /\ \A p, q \in P : p = q \/ p[2] < q[1] \/ q[2] < p[1]
  /\ \A i \in span[1]..span[2] : text[i] \notin Whitespace => \E p \in P : i \in p[1]..p[2]

LEMMA OneTile ==
  ASSUME text \in Seq(Alphabet), NEW s, IsPiece(s)
  PROVE  Tiles(s, {s})
BY PieceFacts DEF Tiles

\* Tiles of tiles are tiles.
LEMMA TilesOfTiles ==
  ASSUME text \in Seq(Alphabet), NEW span, IsPiece(span), NEW S, Tiles(span, S), NEW F,
         \A s \in S : Tiles(s, F[s])
  PROVE  Tiles(span, UNION {F[s] : s \in S})
<1> DEFINE P == UNION {F[s] : s \in S}
<1>1. \A p \in P : \E s \in S : p \in F[s]
  OBVIOUS
<1>2. \A s \in S : \A p \in F[s] : p \in P
  OBVIOUS
<1> HIDE DEF P
<1>3. ASSUME NEW s \in S
      PROVE  /\ s[1] \in Nat /\ s[2] \in Nat /\ span[1] <= s[1] /\ s[2] <= span[2]
             /\ span[1] \in Nat /\ span[2] \in Nat
             /\ \A p \in F[s] : /\ IsPiece(p) /\ p[1] \in Nat /\ p[2] \in Nat
                               /\ s[1] <= p[1] /\ p[1] <= p[2] /\ p[2] <= s[2]
  <2>1. IsPiece(s) /\ span[1] <= s[1] /\ s[2] <= span[2]
    BY DEF Tiles
  <2>2. s[1] \in Nat /\ s[2] \in Nat /\ span[1] \in Nat /\ span[2] \in Nat
    BY <2>1, PieceFacts
  <2>3. \A p \in F[s] : IsPiece(p) /\ s[1] <= p[1] /\ p[2] <= s[2]
    BY <1>3 DEF Tiles
  <2>4. \A p \in F[s] : p[1] \in Nat /\ p[2] \in Nat /\ p[1] <= p[2]
    BY <2>3, PieceFacts
  <2> QED  BY <2>1, <2>2, <2>3, <2>4
<1>4. \A p \in P : IsPiece(p) /\ span[1] <= p[1] /\ p[2] <= span[2]
  <2> SUFFICES ASSUME NEW p \in P PROVE IsPiece(p) /\ span[1] <= p[1] /\ p[2] <= span[2]
    OBVIOUS
  <2>1. PICK s \in S : p \in F[s]
    BY <1>1
  <2>2. /\ IsPiece(p) /\ p[1] \in Nat /\ p[2] \in Nat /\ s[1] \in Nat /\ s[2] \in Nat
        /\ span[1] \in Nat /\ span[2] \in Nat
        /\ span[1] <= s[1] /\ s[1] <= p[1] /\ p[2] <= s[2] /\ s[2] <= span[2]
    BY <1>3, <2>1
  <2> QED  BY <2>2
<1>5. \A p, q \in P : p = q \/ p[2] < q[1] \/ q[2] < p[1]
  <2> SUFFICES ASSUME NEW p \in P, NEW q \in P PROVE p = q \/ p[2] < q[1] \/ q[2] < p[1]
    OBVIOUS
  <2>1. PICK s \in S : p \in F[s]
    BY <1>1
  <2>2. PICK t \in S : q \in F[t]
    BY <1>1
  <2>3. /\ p[1] \in Nat /\ p[2] \in Nat /\ s[1] \in Nat /\ s[2] \in Nat /\ s[1] <= p[1] /\ p[2] <= s[2]
        /\ q[1] \in Nat /\ q[2] \in Nat /\ t[1] \in Nat /\ t[2] \in Nat /\ t[1] <= q[1] /\ q[2] <= t[2]
    BY <1>3, <2>1, <2>2
  <2>4. s = t \/ s[2] < t[1] \/ t[2] < s[1]
    BY DEF Tiles
  <2>5. CASE s = t
    <3>1. Tiles(s, F[s])
      OBVIOUS
    <3> QED  BY <2>1, <2>2, <2>5, <3>1 DEF Tiles
  <2>6. CASE s[2] < t[1] \/ t[2] < s[1]
    BY <2>3, <2>6
  <2> QED  BY <2>4, <2>5, <2>6
<1>6. \A i \in span[1]..span[2] : text[i] \notin Whitespace => \E p \in P : i \in p[1]..p[2]
  <2> SUFFICES ASSUME NEW i \in span[1]..span[2], text[i] \notin Whitespace
               PROVE  \E p \in P : i \in p[1]..p[2]
    OBVIOUS
  <2>1. PICK s \in S : i \in s[1]..s[2]
    BY DEF Tiles
  <2>2. Tiles(s, F[s])
    OBVIOUS
  <2>3. PICK p \in F[s] : i \in p[1]..p[2]
    BY <2>1, <2>2 DEF Tiles
  <2> QED  BY <1>2, <2>3
<1> QED  BY <1>4, <1>5, <1>6 DEF Tiles, P

\* Where the spans between cuts begin.
Before(span, cuts, e) == Max({span[1] - 1} \cup {c \in cuts : c < e})

\* Cuts after words of a piece, the last of them at its end.
Divides(span, cuts) ==
  /\ cuts \subseteq span[1]..span[2] /\ span[2] \in cuts
  /\ \A c \in cuts : text[c] \notin Whitespace

LEMMA BeforeFacts ==
  ASSUME text \in Seq(Alphabet), NEW span, IsPiece(span), NEW cuts, Divides(span, cuts), NEW e \in cuts
  PROVE  LET b == Before(span, cuts, e)
         IN  /\ b \in Nat /\ span[1] - 1 <= b /\ b < e /\ (b = span[1] - 1 \/ b \in cuts)
             /\ \A c \in cuts : c < e => c <= b
<1> DEFINE B == {span[1] - 1} \cup {c \in cuts : c < e}
           b == Max(B)
           f == [i \in B |-> i]
<1>1. span[1] \in Nat /\ span[2] \in Nat /\ 1 <= span[1] /\ cuts \subseteq span[1]..span[2]
  BY PieceFacts DEF Divides
<1>2. /\ e \in Nat /\ span[1] <= e
      /\ \A c \in B : c \in Nat /\ span[1] - 1 <= c /\ c < e /\ (c = span[1] - 1 \/ c \in cuts)
  BY <1>1
<1>3. B \in SUBSET (0..e) /\ B # {} /\ \A c \in cuts : c < e => c \in B
  <2>1. B # {} /\ \A c \in cuts : c < e => c \in B
    OBVIOUS
  <2> HIDE DEF B
  <2>2. \A c \in B : c \in 0..e
    BY <1>2
  <2> QED  BY <2>1, <2>2
<1> HIDE DEF B
<1>4. f \in [B -> Int] /\ \A i \in B : f[i] = i
  BY <1>2
<1> HIDE DEF f
<1>5. PICK m \in B : \A k \in B : f[k] <= f[m]
  BY <1>2, <1>3, <1>4, GreatestExists
<1>6. \A k \in B : m >= k
  BY <1>2, <1>4, <1>5
<1>7. b \in B /\ \A k \in B : b >= k
  BY <1>6 DEF Max
<1> HIDE DEF b
<1>8. \A c \in cuts : c < e => c <= b
  <2>1. \A c \in cuts : c \in Nat
    BY <1>1
  <2> QED  BY <1>2, <1>3, <1>7, <2>1
<1>9. Before(span, cuts, e) = b
  BY DEF Before, b, B
<1> QED  BY <1>2, <1>7, <1>8, <1>9

\* The span that ends at a cut.
Upto(span, cuts, e) == Trim(<<Before(span, cuts, e) + 1, e>>)

LEMMA UptoFacts ==
  ASSUME text \in Seq(Alphabet), NEW span, IsPiece(span), NEW cuts, Divides(span, cuts), NEW e \in cuts
  PROVE  LET p == Upto(span, cuts, e)
             b == Before(span, cuts, e)
         IN  /\ IsPiece(p) /\ span[1] <= p[1] /\ p[2] <= span[2]
             /\ p[1] \in Nat /\ p[2] = e /\ e \in Nat /\ b \in Nat /\ b < p[1] /\ p[1] <= e
             /\ \A i \in (b + 1)..e : text[i] \notin Whitespace => i \in p[1]..p[2]
<1> DEFINE b == Before(span, cuts, e)
           s == <<b + 1, e>>
           p == Trim(s)
           W == {i \in s[1]..s[2] : text[i] \notin Whitespace}
<1>1. /\ b \in Nat /\ span[1] - 1 <= b /\ b < e
      /\ span[1] \in Nat /\ span[2] \in Nat /\ span[2] <= Len(text) /\ Len(text) \in Nat
      /\ e \in span[1]..span[2] /\ text[e] \notin Whitespace
  BY BeforeFacts, PieceFacts DEF Divides
<1> HIDE DEF b
<1>2. s[1] = b + 1 /\ s[2] = e /\ Inside(s) /\ e \in W
  BY <1>1 DEF Inside
<1>3. IsPiece(p) /\ s[1] <= p[1] /\ p[2] <= s[2] /\ \A i \in W : i \in p[1]..p[2]
  <2> HIDE DEF s
  <2> QED  BY <1>2, TrimFacts
<1> HIDE DEF p, s
<1>4. p[1] \in Nat /\ p[2] \in Nat /\ p[1] <= p[2]
  BY <1>3, PieceFacts
<1>5. e \in p[1]..p[2]
  BY <1>2, <1>3
<1>6. p[2] = e /\ b < p[1] /\ p[1] <= e /\ span[1] <= p[1] /\ p[2] <= span[2] /\ e \in Nat
  BY <1>1, <1>2, <1>3, <1>4, <1>5
<1>7. \A i \in (b + 1)..e : text[i] \notin Whitespace => i \in p[1]..p[2]
  BY <1>2, <1>3
<1>8. Upto(span, cuts, e) = p
  BY DEF Upto, p, s, b
<1> QED  BY <1>1, <1>3, <1>4, <1>6, <1>7, <1>8 DEF b

\* The spans between cuts tile the piece; each ends at its cut.
LEMMA BetweenTiles ==
  ASSUME text \in Seq(Alphabet), NEW span, IsPiece(span), NEW cuts, Divides(span, cuts)
  PROVE  Tiles(span, Between(span, cuts))
<1> DEFINE P == Between(span, cuts)
           p(e) == Upto(span, cuts, e)
           b(e) == Before(span, cuts, e)
<1>1. P = {p(e) : e \in cuts}
  BY DEF Between, Upto, Before
<1>2. \A e \in cuts : /\ IsPiece(p(e)) /\ span[1] <= p(e)[1] /\ p(e)[2] <= span[2]
                      /\ p(e)[1] \in Nat /\ p(e)[2] = e /\ e \in Nat /\ b(e) \in Nat
                      /\ b(e) < p(e)[1] /\ p(e)[1] <= e
                      /\ \A i \in (b(e) + 1)..e : text[i] \notin Whitespace => i \in p(e)[1]..p(e)[2]
  BY UptoFacts
<1>3. \A e \in cuts : /\ b(e) < e /\ (b(e) = span[1] - 1 \/ b(e) \in cuts)
                      /\ \A c \in cuts : c < e => c <= b(e)
  BY BeforeFacts
<1>4. span[1] \in Nat /\ span[2] \in Nat /\ cuts \subseteq Nat /\ span[2] \in cuts
  BY PieceFacts DEF Divides
<1> HIDE DEF P, p, b
<1>5. \A q \in P : IsPiece(q) /\ span[1] <= q[1] /\ q[2] <= span[2]
  BY <1>1, <1>2
<1>6. ASSUME NEW d \in cuts, NEW e \in cuts PROVE p(d) = p(e) \/ p(d)[2] < p(e)[1] \/ p(e)[2] < p(d)[1]
  <2>1. CASE d < e
    <3>1. d <= b(e) /\ b(e) < p(e)[1] /\ p(d)[2] = d
      BY <1>2, <1>3, <2>1
    <3>2. d \in Nat /\ b(e) \in Nat /\ p(e)[1] \in Nat
      BY <1>2
    <3> QED  BY <3>1, <3>2
  <2>2. CASE e < d
    <3>1. e <= b(d) /\ b(d) < p(d)[1] /\ p(e)[2] = e
      BY <1>2, <1>3, <2>2
    <3>2. e \in Nat /\ b(d) \in Nat /\ p(d)[1] \in Nat
      BY <1>2
    <3> QED  BY <3>1, <3>2
  <2>3. d = e \/ d < e \/ e < d
    BY <1>4
  <2> QED  BY <2>1, <2>2, <2>3
<1>7. ASSUME NEW i \in span[1]..span[2], text[i] \notin Whitespace PROVE \E q \in P : i \in q[1]..q[2]
  <2> DEFINE C == {c \in cuts : i <= c}
  <2>1. C # {} /\ C \subseteq Nat
    <3>1. i <= span[2]
      BY <1>4
    <3>2. span[2] \in C
      BY <1>4, <3>1
    <3>3. C \subseteq cuts
      OBVIOUS
    <3> QED  BY <1>4, <3>2, <3>3
  <2>2. PICK e \in C : \A c \in C : e <= c
    <3> HIDE DEF C
    <3> QED  BY <2>1, LeastExists
  <2>3. e \in cuts /\ i <= e /\ i \in Nat /\ e \in Nat
    BY <1>4, <2>1
  <2>4. b(e) < i
    <3>1. b(e) < e /\ b(e) \in Nat /\ (b(e) = span[1] - 1 \/ b(e) \in cuts)
      BY <1>2, <1>3, <2>3
    <3>2. CASE b(e) = span[1] - 1
      BY <1>4, <2>3, <3>2
    <3>3. CASE b(e) \in cuts
      <4>1. ~(i <= b(e))
        BY <2>2, <2>3, <3>1, <3>3
      <4> QED  BY <2>3, <3>1, <4>1
    <3> QED  BY <3>1, <3>2, <3>3
  <2>5. i \in (b(e) + 1)..e
    <3>1. b(e) \in Nat
      BY <1>2, <2>3
    <3> QED  BY <2>3, <2>4, <3>1
  <2>6. i \in p(e)[1]..p(e)[2] /\ p(e) \in P
    BY <1>1, <1>2, <1>7, <2>3, <2>5
  <2> QED  BY <2>6
<1>8. \A q, r \in P : q = r \/ q[2] < r[1] \/ r[2] < q[1]
  BY <1>1, <1>6
<1> QED  BY <1>5, <1>7, <1>8 DEF Tiles, P

-----------------------------------------------------------------------------
(* Cutting: the scan finds the ends that the rule allows.                  *)

Marks == {SentenceMarks, ClauseMarks}

LEMMA MarksAreNoSpace ==
  ASSUME NEW marks \in Marks, NEW char \in marks \cup Closers
  PROVE  char \notin Whitespace
BY SegmentAssumption DEF Marks

\* A run ends before the first character that is no part of it.
LEMMA RunEndFacts ==
  ASSUME text \in Seq(Alphabet), NEW marks, NEW i \in Nat, NEW last \in Nat, i <= last, text[i] \in marks
  PROVE  LET j == RunEnd(marks, i, last)
         IN  /\ j \in Nat /\ i < j /\ j <= last + 1
             /\ \A k \in i..(j - 1) : text[k] \in marks \cup Closers
             /\ j <= last => text[j] \notin marks \cup Closers
<1> DEFINE after == {j \in i..last : text[j] \notin marks \cup Closers}
           j == RunEnd(marks, i, last)
<1>1. j = IF after = {} THEN last + 1 ELSE Min(after)
  BY DEF RunEnd
<1>2. \A k \in after : k \in Nat /\ i <= k /\ k <= last /\ k # i /\ text[k] \notin marks \cup Closers
  OBVIOUS
<1>3. \A k \in i..last : k \notin after => text[k] \in marks \cup Closers
  OBVIOUS
<1> HIDE DEF after, j
<1> DEFINE Q == /\ j \in Nat /\ i < j /\ j <= last + 1
                /\ \A k \in i..(j - 1) : text[k] \in marks \cup Closers
                /\ j <= last => text[j] \notin marks \cup Closers
<1>4. ASSUME after = {} PROVE Q
  <2>1. j = last + 1 /\ j - 1 = last
    BY <1>1, <1>4
  <2>2. \A k \in i..(j - 1) : text[k] \in marks \cup Closers
    BY <1>3, <1>4, <2>1
  <2> QED  BY <2>1, <2>2
<1>5. ASSUME after # {} PROVE Q
  <2>1. \E m \in after : \A k \in after : m <= k
    BY <1>2, <1>5, LeastExists
  <2>2. j \in after /\ \A k \in after : j <= k
    BY <1>1, <1>5, <2>1 DEF Min
  <2>3. j \in Nat /\ i < j /\ j <= last /\ text[j] \notin marks \cup Closers
    BY <1>2, <2>2
  <2>4. \A k \in i..(j - 1) : k \in i..last /\ k \notin after
    BY <2>2, <2>3
  <2> QED  BY <1>3, <2>3, <2>4
<1>6. Q
  BY <1>4, <1>5
<1> QED  BY <1>6 DEF j

\* A mark that a run of marks and closers joins to a place that ends a word.
Joined(marks, m, c) == text[m] \in marks /\ \A k \in m..c : text[k] \in marks \cup Closers
Open(last, c) == c = last \/ text[c + 1] \in Whitespace
EndsFrom(marks, last, i) ==
  {c \in i..last : Open(last, c) /\ \E m \in i..c : Joined(marks, m, c)} \cup {last}

\* what the scan finds from a position on, given what it finds from later ones
ScanFrom(marks, last, f, i) ==
  IF i > last THEN {last}
  ELSE IF text[i] \notin marks THEN f[i + 1]
  ELSE LET j == RunEnd(marks, i, last)
       IN  (IF j > last \/ Blank(j) THEN {j - 1} ELSE {}) \cup f[j]

LEMMA ScanStep ==
  ASSUME text \in Seq(Alphabet), NEW marks \in Marks, NEW last \in Nat, NEW i \in Nat,
         i <= last + 1, NEW f,
         \A k \in (i + 1)..(last + 1) : f[k] = EndsFrom(marks, last, k)
  PROVE  ScanFrom(marks, last, f, i) = EndsFrom(marks, last, i)
<1>1. CASE i = last + 1
  <2>1. i > last /\ i..last = {}
    BY <1>1
  <2> QED  BY <2>1 DEF ScanFrom, EndsFrom
<1>2. CASE i <= last /\ text[i] \notin marks
  <2>1. f[i + 1] = EndsFrom(marks, last, i + 1)
    BY <1>2
  <2>2. \A m \in Nat, c \in Nat : Joined(marks, m, c) => m # i
    BY <1>2 DEF Joined
  <2>3. ASSUME NEW c PROVE c \in EndsFrom(marks, last, i) <=> c \in EndsFrom(marks, last, i + 1)
    <3>1. CASE c = last
      BY <3>1 DEF EndsFrom
    <3>2. CASE c # last
      <4>1. ASSUME c \in EndsFrom(marks, last, i) PROVE c \in EndsFrom(marks, last, i + 1)
        <5>1. c \in i..last /\ Open(last, c)
          BY <3>2, <4>1 DEF EndsFrom
        <5>2. PICK m \in i..c : Joined(marks, m, c)
          BY <3>2, <4>1 DEF EndsFrom
        <5>3. m # i /\ m \in (i + 1)..c /\ c \in (i + 1)..last
          BY <2>2, <5>1, <5>2
        <5> QED  BY <5>1, <5>2, <5>3 DEF EndsFrom
      <4>2. ASSUME c \in EndsFrom(marks, last, i + 1) PROVE c \in EndsFrom(marks, last, i)
        <5>1. c \in (i + 1)..last /\ Open(last, c)
          BY <3>2, <4>2 DEF EndsFrom
        <5>2. PICK m \in (i + 1)..c : Joined(marks, m, c)
          BY <3>2, <4>2 DEF EndsFrom
        <5>3. m \in i..c /\ c \in i..last
          BY <5>1, <5>2
        <5> QED  BY <5>1, <5>2, <5>3 DEF EndsFrom
      <4> QED  BY <4>1, <4>2
    <3> QED  BY <3>1, <3>2
  <2>4. ScanFrom(marks, last, f, i) = f[i + 1]
    <3>1. ~(i > last)
      BY <1>2
    <3> QED  BY <1>2, <3>1 DEF ScanFrom
  <2>5. EndsFrom(marks, last, i) = EndsFrom(marks, last, i + 1)
    BY <2>3
  <2> QED  BY <2>1, <2>4, <2>5
<1>3. CASE i <= last /\ text[i] \in marks
  <2> DEFINE j == RunEnd(marks, i, last)
             here == IF j > last \/ Blank(j) THEN {j - 1} ELSE {}
  <2>1. /\ j \in Nat /\ i < j /\ j <= last + 1
        /\ \A k \in i..(j - 1) : text[k] \in marks \cup Closers
        /\ j <= last => text[j] \notin marks \cup Closers
    BY <1>3, RunEndFacts
  <2>2. ScanFrom(marks, last, f, i) = here \cup f[j]
    <3>1. ~(i > last)
      BY <1>3
    <3> QED  BY <1>3, <3>1 DEF ScanFrom
  <2> HIDE DEF j
  <2>3. f[j] = EndsFrom(marks, last, j)
    <3>1. j \in (i + 1)..(last + 1)
      BY <2>1
    <3> QED  BY <3>1
  <2>4. \A k \in i..(j - 1) : text[k] \notin Whitespace
    BY <2>1, MarksAreNoSpace
  <2>5. ASSUME NEW c \in here PROVE c \in EndsFrom(marks, last, i)
    <3>1. c = j - 1 /\ (j > last \/ Blank(j)) /\ c \in i..last /\ i \in i..c
      BY <2>1, <2>5
    <3>2. Open(last, c)
      <4>1. CASE j > last
        <5>1. c = last
          BY <2>1, <3>1, <4>1
        <5> QED  BY <5>1 DEF Open
      <4>2. CASE Blank(j)
        <5>1. c + 1 = j
          BY <2>1, <3>1
        <5> QED  BY <4>2, <5>1 DEF Open, Blank
      <4> QED  BY <3>1, <4>1, <4>2
    <3>3. Joined(marks, i, c)
      BY <1>3, <2>1, <3>1 DEF Joined
    <3> QED  BY <3>1, <3>2, <3>3 DEF EndsFrom
  <2>6. ASSUME NEW c \in EndsFrom(marks, last, j) PROVE c \in EndsFrom(marks, last, i)
    <3>1. CASE c = last
      BY <3>1 DEF EndsFrom
    <3>2. CASE c # last
      <4>1. c \in j..last /\ Open(last, c)
        BY <2>6, <3>2 DEF EndsFrom
      <4>2. PICK m \in j..c : Joined(marks, m, c)
        BY <2>6, <3>2 DEF EndsFrom
      <4>3. m \in i..c /\ c \in i..last
        BY <2>1, <4>1, <4>2
      <4> QED  BY <4>1, <4>2, <4>3 DEF EndsFrom
    <3> QED  BY <3>1, <3>2
  <2>7. ASSUME NEW c \in EndsFrom(marks, last, i), c # last
        PROVE  c \in here \/ c \in EndsFrom(marks, last, j)
    <3>1. c \in i..last /\ Open(last, c)
      BY <2>7 DEF EndsFrom
    <3>2. PICK m \in i..c : Joined(marks, m, c)
      BY <2>7 DEF EndsFrom
    <3>3. CASE c < j
      <4>1. c = j - 1
        <5>1. SUFFICES ASSUME c # j - 1 PROVE FALSE
          OBVIOUS
        <5>2. c + 1 \in i..(j - 1)
          BY <2>1, <3>1, <3>3, <5>1
        <5>3. text[c + 1] \in Whitespace
          BY <2>7, <3>1 DEF Open
        <5> QED  BY <2>4, <5>2, <5>3
      <4>2. c + 1 = j
        BY <2>1, <4>1
      <4>3. Blank(j)
        BY <2>7, <3>1, <4>2 DEF Open, Blank
      <4> QED  BY <4>1, <4>3
    <3>4. CASE ~(c < j)
      <4>1. c \in j..last /\ j <= last
        BY <2>1, <3>1, <3>4
      <4>2. m \in j..c
        <5>1. SUFFICES ASSUME m < j PROVE FALSE
          BY <2>1, <3>1, <3>2, <3>4
        <5>2. j \in m..c
          BY <2>1, <3>1, <3>2, <4>1, <5>1
        <5>3. text[j] \in marks \cup Closers
          BY <3>2, <5>2 DEF Joined
        <5> QED  BY <2>1, <4>1, <5>3
      <4> QED  BY <3>1, <3>2, <4>1, <4>2 DEF EndsFrom
    <3> QED  BY <3>3, <3>4
  <2>8. last \in EndsFrom(marks, last, i) /\ last \in EndsFrom(marks, last, j)
    BY DEF EndsFrom
  <2> HIDE DEF here
  <2>9. here \cup EndsFrom(marks, last, j) = EndsFrom(marks, last, i)
    BY <2>5, <2>6, <2>7, <2>8
  <2> QED  BY <2>2, <2>3, <2>9
<1> QED  BY <1>1, <1>2, <1>3

\* The scan of a span finds the ends that the rule allows, and no others.
LEMMA CutsAreEnds ==
  ASSUME text \in Seq(Alphabet), NEW span, IsPiece(span), NEW marks \in Marks
  PROVE  Cuts(span, marks) = Ends(span, marks)
<1> DEFINE lo == span[1]
           last == span[2]
           D == lo..(last + 1)
           h == [i \in D |-> EndsFrom(marks, last, i)]
           f == CHOOSE g : g = [i \in D |-> ScanFrom(marks, last, g, i)]
           Same(k) == \A i \in D : i >= last + 1 - k => f[i] = EndsFrom(marks, last, i)
           Ks == {k \in Nat : Same(k)}
<1>1. lo \in Nat /\ last \in Nat /\ lo <= last
  BY PieceFacts
<1> HIDE DEF lo, last
<1>2. \A i \in D : i \in Nat /\ i <= last + 1 /\ \A k \in (i + 1)..(last + 1) : k \in D
  BY <1>1
<1>3. \A i \in D : h[i] = EndsFrom(marks, last, i)
  OBVIOUS
<1>4. h = [i \in D |-> ScanFrom(marks, last, h, i)]
  <2>1. \A i \in D : \A k \in (i + 1)..(last + 1) : h[k] = EndsFrom(marks, last, k)
    BY <1>2, <1>3
  <2> HIDE DEF D
  <2>2. \A i \in D : ScanFrom(marks, last, h, i) = EndsFrom(marks, last, i)
    <3> HIDE DEF h
    <3> QED  BY <1>1, <1>2, <2>1, ScanStep
  <2>3. [i \in D |-> ScanFrom(marks, last, h, i)] = [i \in D |-> EndsFrom(marks, last, i)]
    <3> HIDE DEF h
    <3> QED  BY <2>2
  <2> QED  BY <2>3
<1> HIDE DEF h
<1>5. f = [i \in D |-> ScanFrom(marks, last, f, i)]
  <2> HIDE DEF D
  <2> QED  BY <1>4
<1>6. Cuts(span, marks) = f[lo]
  BY DEF Cuts, ScanFrom, lo, last
<1> HIDE DEF f
<1>7. \A i \in D : f[i] = ScanFrom(marks, last, f, i)
  <2> HIDE DEF D
  <2> QED  BY <1>5
<1>8. ASSUME NEW k \in Nat, \A i \in D : i > last + 1 - k => f[i] = EndsFrom(marks, last, i)
      PROVE  Same(k)
  <2> SUFFICES ASSUME NEW i \in D, i >= last + 1 - k PROVE f[i] = EndsFrom(marks, last, i)
    OBVIOUS
  <2>1. \A m \in (i + 1)..(last + 1) : m \in D /\ m > last + 1 - k
    BY <1>1
  <2>2. \A m \in (i + 1)..(last + 1) : f[m] = EndsFrom(marks, last, m)
    BY <1>8, <2>1
  <2>3. i \in Nat /\ i <= last + 1
    BY <1>2
  <2>4. ScanFrom(marks, last, f, i) = EndsFrom(marks, last, i)
    BY <1>1, <2>2, <2>3, ScanStep
  <2> QED  BY <1>7, <2>4
<1>9. 0 \in Ks
  <2>1. \A i \in D : ~(i > last + 1 - 0)
    BY <1>1
  <2> QED  BY <1>8, <2>1
<1>10. ASSUME NEW k \in Nat, k \in Ks PROVE k + 1 \in Ks
  <2>1. \A i \in D : i > last + 1 - (k + 1) => i >= last + 1 - k
    BY <1>1
  <2>2. \A i \in D : i > last + 1 - (k + 1) => f[i] = EndsFrom(marks, last, i)
    BY <1>10, <2>1
  <2>3. k + 1 \in Nat
    OBVIOUS
  <2> HIDE DEF D
  <2>4. Same(k + 1)
    <3> DEFINE m == k + 1
    <3> HIDE DEF m, Same
    <3>1. m \in Nat /\ \A i \in D : i > last + 1 - m => f[i] = EndsFrom(marks, last, i)
      BY <2>2, <2>3 DEF m
    <3>2. Same(m)
      BY <1>8, <3>1
    <3> QED  BY <3>2 DEF m
  <2> QED  BY <2>3, <2>4
<1>11. \A k \in Nat : k \in Ks
  <2>1. \A k \in Nat : k \in Ks => k + 1 \in Ks
    BY <1>10
  <2> HIDE DEF Ks
  <2> QED  BY <1>9, <2>1, NatSetInduction
<1>12. f[lo] = EndsFrom(marks, last, lo)
  <2>1. Same(last + 1)
    <3> HIDE DEF Same
    <3> QED  BY <1>1, <1>11
  <2>2. lo \in D /\ lo >= last + 1 - (last + 1)
    BY <1>1
  <2> QED  BY <2>1, <2>2
<1>13. Ends(span, marks) = EndsFrom(marks, last, lo)
  <2>1. \A i : Allowed(span, marks, i) <=> Open(last, i) /\ \E m \in lo..i : Joined(marks, m, i)
    BY DEF Allowed, Open, Joined, Blank, lo, last
  <2> QED  BY <2>1 DEF Ends, EndsFrom, lo, last
<1> QED  BY <1>6, <1>12, <1>13

LEMMA EndsDivide ==
  ASSUME text \in Seq(Alphabet), NEW span, IsPiece(span), NEW marks \in Marks
  PROVE  Divides(span, Ends(span, marks))
<1>1. span[1] \in Nat /\ span[2] \in Nat /\ span[1] <= span[2] /\ text[span[2]] \notin Whitespace
  BY PieceFacts
<1>2. ASSUME NEW c \in span[1]..span[2], Allowed(span, marks, c) PROVE text[c] \notin Whitespace
  <2>1. PICK m \in span[1]..c : \A k \in m..c : text[k] \in marks \cup Closers
    BY <1>2 DEF Allowed
  <2>2. c \in m..c
    BY <1>1
  <2> QED  BY <2>1, <2>2, MarksAreNoSpace
<1> QED  BY <1>1, <1>2 DEF Ends, Divides

LEMMA SplitIsBetween ==
  ASSUME text \in Seq(Alphabet), NEW span, IsPiece(span), NEW marks \in Marks
  PROVE  Split(span, marks) = Between(span, Ends(span, marks)) /\ Tiles(span, Split(span, marks))
<1> DEFINE P == Between(span, Ends(span, marks))
<1>1. Tiles(span, P)
  BY EndsDivide, BetweenTiles
<1>2. Split(span, marks) = {p \in P : Width(p) > 0}
  BY CutsAreEnds DEF Split
<1> HIDE DEF P
<1>3. \A p \in P : Width(p) > 0
  <2> SUFFICES ASSUME NEW p \in P PROVE Width(p) > 0
    OBVIOUS
  <2>1. p[1] \in Nat /\ p[2] \in Nat /\ p[1] <= p[2]
    BY <1>1, PieceFacts DEF Tiles
  <2> QED  BY <2>1 DEF Width
<1>4. Split(span, marks) = P
  BY <1>2, <1>3
<1> QED  BY <1>1, <1>4 DEF P

\* What covers a piece by itself is the piece.
LEMMA LoneTile ==
  ASSUME text \in Seq(Alphabet), NEW s, IsPiece(s), NEW P, Tiles(s, P), NEW p \in P, \A q \in P : q = p
  PROVE  P = {s}
<1>1. /\ s = <<s[1], s[2]>> /\ s[1] \in Nat /\ s[2] \in Nat /\ s[1] <= s[2]
      /\ text[s[1]] \notin Whitespace /\ text[s[2]] \notin Whitespace
  BY PieceFacts
<1>2. IsPiece(p) /\ s[1] <= p[1] /\ p[2] <= s[2]
  BY DEF Tiles
<1>3. p = <<p[1], p[2]>> /\ p[1] \in Nat /\ p[2] \in Nat /\ p[1] <= p[2]
  BY <1>2, PieceFacts
<1>4. s[1] \in p[1]..p[2] /\ s[2] \in p[1]..p[2]
  <2>1. s[1] \in s[1]..s[2] /\ s[2] \in s[1]..s[2]
    BY <1>1
  <2>2. (\E q \in P : s[1] \in q[1]..q[2]) /\ (\E q \in P : s[2] \in q[1]..q[2])
    BY <1>1, <2>1 DEF Tiles
  <2> QED  BY <2>2
<1>5. p[1] = s[1] /\ p[2] = s[2]
  BY <1>1, <1>2, <1>3, <1>4
<1>6. p = s
  BY <1>1, <1>3, <1>5
<1> QED  BY <1>6

\* The code's pieces are the ones the rules promise, and they tile the text.
LEMMA PiecesArePromised ==
  ASSUME text \in Seq(Alphabet), IsPiece(Whole)
  PROVE  Pieces = Promised /\ Tiles(Whole, Promised)
<1> DEFINE S == Between(Whole, Ends(Whole, SentenceMarks))
           F == [s \in S |-> IF Tokens(s) > MaxTokens THEN Between(s, Ends(s, ClauseMarks)) ELSE {s}]
<1>1. SentenceMarks \in Marks /\ ClauseMarks \in Marks
  BY DEF Marks
<1>2. Sentences = S /\ Tiles(Whole, S)
  BY <1>1, SplitIsBetween DEF Sentences
<1>3. Promised = UNION {F[s] : s \in S}
  BY DEF Promised
<1>4. ASSUME NEW s \in S PROVE PiecesOf(s) = F[s] /\ Tiles(s, F[s])
  <2> DEFINE C == Between(s, Ends(s, ClauseMarks))
  <2>1. IsPiece(s)
    BY <1>2 DEF Tiles
  <2>2. Split(s, ClauseMarks) = C /\ Tiles(s, C)
    BY <1>1, <2>1, SplitIsBetween
  <2>3. F[s] = IF Tokens(s) > MaxTokens THEN C ELSE {s}
    OBVIOUS
  <2>4. PiecesOf(s) = IF Tokens(s) > MaxTokens /\ Cardinality(C) > 1 THEN C ELSE {s}
    BY <2>2 DEF PiecesOf
  <2>5. Tiles(s, {s})
    BY <2>1, OneTile
  <2>6. ASSUME ~(Cardinality(C) > 1) PROVE C = {s}
    <3>1. \E p \in C : TRUE
      <4>1. s[1] \in s[1]..s[2] /\ text[s[1]] \notin Whitespace
        BY <2>1, PieceFacts
      <4> QED  BY <2>2, <4>1 DEF Tiles
    <3>2. PICK p \in C : TRUE
      BY <3>1
    <3>3. IsFiniteSet(C)
      <4>1. s[1] \in Nat /\ s[2] \in Nat
        BY <2>1, PieceFacts
      <4>2. IsFiniteSet((s[1]..s[2]) \X (s[1]..s[2]))
        <5>1. s[1] \in Int /\ s[2] \in Int
          BY <4>1
        <5>2. IsFiniteSet(s[1]..s[2])
          BY <5>1, FS_Interval
        <5> DEFINE I == s[1]..s[2]
        <5> HIDE DEF I
        <5>3. IsFiniteSet(I) => IsFiniteSet(I \X I)
          BY FS_Product
        <5> QED  BY <5>2, <5>3 DEF I
      <4>3. \A q \in C : q \in (s[1]..s[2]) \X (s[1]..s[2])
        <5> SUFFICES ASSUME NEW q \in C PROVE q \in (s[1]..s[2]) \X (s[1]..s[2])
          OBVIOUS
        <5>1. IsPiece(q) /\ s[1] <= q[1] /\ q[2] <= s[2]
          BY <2>2 DEF Tiles
        <5>2. q = <<q[1], q[2]>> /\ q[1] \in Nat /\ q[2] \in Nat /\ q[1] <= q[2]
          BY <5>1, PieceFacts
        <5>3. q[1] \in s[1]..s[2] /\ q[2] \in s[1]..s[2]
          BY <4>1, <5>1, <5>2
        <5> QED  BY <5>2, <5>3
      <4> QED  BY <4>2, <4>3, FS_Subset
    <3> HIDE DEF C
    <3>4. Cardinality(C) \in Nat /\ Cardinality(C) # 0
      BY <3>2, <3>3, FS_CardinalityType, FS_EmptySet
    <3>5. Cardinality(C) = 1
      BY <2>6, <3>4
    <3>6. PICK x : C = {x}
      BY <3>3, <3>5, FS_Singleton
    <3> QED  BY <2>1, <2>2, <3>6, LoneTile
  <2> HIDE DEF C, F
  <2>7. PiecesOf(s) = F[s]
    <3> DEFINE over == Tokens(s) > MaxTokens
               many == Cardinality(C) > 1
    <3>1. F[s] = (IF over THEN C ELSE {s}) /\ PiecesOf(s) = (IF over /\ many THEN C ELSE {s})
      BY <2>3, <2>4
    <3>2. ~many => C = {s}
      BY <2>6
    <3> DEFINE a == F[s]
               b == PiecesOf(s)
               one == {s}
    <3> HIDE DEF over, many, a, b, one
    <3>3. a = (IF over THEN C ELSE one) /\ b = (IF over /\ many THEN C ELSE one)
      BY <3>1 DEF a, b, one
    <3>4. ~many => C = one
      BY <3>2 DEF one
    <3>5. a = b
      <4>1. CASE over /\ many
        BY <3>3, <4>1
      <4>2. CASE over /\ ~many
        BY <3>3, <3>4, <4>2
      <4>3. CASE ~over
        BY <3>3, <4>3
      <4> QED  BY <4>1, <4>2, <4>3
    <3> QED  BY <3>5 DEF a, b
  <2>8. Tiles(s, F[s])
    BY <2>2, <2>3, <2>5
  <2> QED  BY <2>7, <2>8
<1> HIDE DEF F
<1>5. Pieces = UNION {F[s] : s \in S}
  <2>1. Pieces = UNION {PiecesOf(s) : s \in S}
    BY <1>2 DEF Pieces
  <2> HIDE DEF S
  <2>2. {PiecesOf(s) : s \in S} = {F[s] : s \in S}
    BY <1>4
  <2> QED  BY <2>1, <2>2
<1>6. Tiles(Whole, UNION {F[s] : s \in S})
  <2> HIDE DEF S
  <2> QED  BY <1>2, <1>4, TilesOfTiles
<1> QED  BY <1>3, <1>5, <1>6

-----------------------------------------------------------------------------
(* Packing.                                                                *)

\* A piece costs at least one token.
LEMMA PieceHasTokens ==
  ASSUME text \in Seq(Alphabet), NEW p, IsPiece(p)
  PROVE  /\ Encode(Words(p)) \in Seq(Id) /\ Encode(Words(p)) # <<>>
         /\ Tokens(p) \in Nat \ {0}
<1>1. p[1] \in Nat /\ p[2] \in Nat /\ 1 <= p[1] /\ p[1] <= p[2] /\ p[2] <= Len(text) /\ Len(text) \in Nat
  BY PieceFacts
<1>2. Words(p) \in Seq(Alphabet) /\ Len(Words(p)) = p[2] - p[1] + 1
  <2>1. \A i \in p[1]..p[2] : text[i] \in Alphabet
    BY <1>1, SeqDomain
  <2>2. p[1] \in Int /\ p[2] \in Int
    BY <1>1
  <2>3. /\ SubSeq(text, p[1], p[2]) \in Seq(Alphabet)
        /\ Len(SubSeq(text, p[1], p[2])) = IF p[1] <= p[2] THEN p[2] - p[1] + 1 ELSE 0
    BY <2>1, <2>2, SubSeqProperties
  <2> QED  BY <1>1, <2>3 DEF Words
<1>3. Words(p) # <<>>
  <2>1. Len(Words(p)) # 0
    BY <1>1, <1>2
  <2> QED  BY <1>2, <2>1, EmptySeq
<1> DEFINE chars == Normalized(Words(p))
<1>4. chars \in Seq(Chars) /\ Len(chars) # 0
  BY <1>2, <1>3, NormalizedTyped
<1>5. Encode(Words(p)) = Last(Viterbi(chars)).ids
  BY DEF Encode
<1> HIDE DEF chars
<1>6. Encode(Words(p)) \in Seq(Id) /\ Len(Encode(Words(p))) \in Nat \ {0}
  BY <1>4, <1>5, RowsAreNotEmpty
<1>7. Encode(Words(p)) # <<>>
  BY <1>6, EmptySeq
<1> QED  BY <1>6, <1>7 DEF Tokens

LEMMA CapIsNat ==
  ASSUME budget \in Budgets, NEW c
  PROVE  Cap(c) \in Nat
BY SegmentAssumption DEF Cap, FirstMaxTokens, MaxTokens

\* The piece that ends at a position.
At(P, i) == CHOOSE piece \in Ending(P, i) : TRUE

LEMMA AtFacts ==
  ASSUME text \in Seq(Alphabet), NEW span, NEW P, Tiles(span, P), NEW i, Ending(P, i) # {}
  PROVE  At(P, i) \in P /\ IsPiece(At(P, i)) /\ At(P, i)[2] = i /\ \A q \in P : q[2] = i => q = At(P, i)
<1>1. At(P, i) \in Ending(P, i)
  BY DEF At
<1>2. At(P, i) \in P /\ At(P, i)[2] = i
  BY <1>1 DEF Ending
<1>3. IsPiece(At(P, i))
  BY <1>2 DEF Tiles
<1>4. ASSUME NEW q \in P, q[2] = i PROVE q = At(P, i)
  <2>1. IsPiece(q)
    BY DEF Tiles
  <2>2. q[1] \in Nat /\ i \in Nat /\ q[1] <= i /\ At(P, i)[1] \in Nat /\ At(P, i)[1] <= i
    BY <1>2, <1>3, <1>4, <2>1, PieceFacts
  <2>3. q = At(P, i) \/ q[2] < At(P, i)[1] \/ At(P, i)[2] < q[1]
    BY <1>2 DEF Tiles
  <2> QED  BY <1>2, <1>4, <2>2, <2>3
<1> QED  BY <1>2, <1>3, <1>4

\* The sum of tokens.
LEMMA SumFacts ==
  ASSUME text \in Seq(Alphabet), NEW span, NEW P, Tiles(span, P)
  PROVE  LET u == TokensUpTo(P)
         IN  /\ u \in [0..Len(text) -> Nat] /\ u[0] = 0
             /\ \A i \in 1..Len(text) :
                  u[i] = IF Ending(P, i) = {} THEN u[i - 1] ELSE u[i - 1] + Tokens(At(P, i))
<1> DEFINE n == Len(text)
           cost == [i \in 1..n |-> IF Ending(P, i) = {} THEN 0 ELSE Tokens(At(P, i))]
           step == [i \in 1..n |-> [b \in Nat |-> b + cost[i]]]
           f == CHOOSE u : u = [i \in 0..n |-> IF i = 0 THEN 0
                                               ELSE IF Ending(P, i) = {} THEN u[i - 1]
                                               ELSE u[i - 1] + Tokens(At(P, i))]
<1>1. n \in Nat
  BY SeqDomain
<1>2. \A i \in 1..n : cost[i] \in Nat /\ cost[i] = IF Ending(P, i) = {} THEN 0 ELSE Tokens(At(P, i))
  <2> SUFFICES ASSUME NEW i \in 1..n
               PROVE  cost[i] \in Nat /\ cost[i] = IF Ending(P, i) = {} THEN 0 ELSE Tokens(At(P, i))
    OBVIOUS
  <2>1. Ending(P, i) # {} => Tokens(At(P, i)) \in Nat
    BY AtFacts, PieceHasTokens
  <2> QED  BY <2>1
<1> HIDE DEF n, cost
<1>3. step \in Steps(Nat, n)
  BY <1>2 DEF Steps
<1>4. \A k \in 1..n : \A b \in Nat : step[k][b] = b + cost[k]
  OBVIOUS
<1> HIDE DEF step
<1>5. PICK g \in Runs(Nat, 0, n, step) : TRUE
  BY <1>1, <1>3, RunExists
<1>6. g \in [0..n -> Nat] /\ g[0] = 0 /\ \A k \in 1..n : g[k] = step[k][g[k - 1]]
  BY <1>5 DEF Runs
<1>7. \A k \in 1..n : g[k] = g[k - 1] + cost[k] /\ g[k - 1] \in Nat
  <2>1. \A k \in 1..n : k - 1 \in 0..n
    BY <1>1
  <2>2. \A k \in 1..n : g[k - 1] \in Nat
    BY <1>6, <2>1
  <2> QED  BY <1>4, <1>6, <2>2
<1>8. \A k \in 1..n : g[k] = IF Ending(P, k) = {} THEN g[k - 1] ELSE g[k - 1] + Tokens(At(P, k))
  <2> SUFFICES ASSUME NEW k \in 1..n
               PROVE  g[k] = IF Ending(P, k) = {} THEN g[k - 1] ELSE g[k - 1] + Tokens(At(P, k))
    OBVIOUS
  <2>1. g[k] = g[k - 1] + cost[k] /\ g[k - 1] \in Nat
    BY <1>7
  <2>2. cost[k] = IF Ending(P, k) = {} THEN 0 ELSE Tokens(At(P, k))
    BY <1>2
  <2> QED  BY <2>1, <2>2
<1>9. g = [i \in 0..n |-> IF i = 0 THEN 0
                          ELSE IF Ending(P, i) = {} THEN g[i - 1]
                          ELSE g[i - 1] + Tokens(At(P, i))]
  <2>1. \A k \in 0..n : k = 0 \/ k \in 1..n
    BY <1>1
  <2> QED  BY <1>6, <1>8, <2>1
<1>10. TokensUpTo(P) = f
  BY Zenon DEF TokensUpTo, At, n
<1> HIDE DEF f
<1>11. f = [i \in 0..n |-> IF i = 0 THEN 0
                           ELSE IF Ending(P, i) = {} THEN f[i - 1]
                           ELSE f[i - 1] + Tokens(At(P, i))]
  BY <1>9 DEF f
<1>12. f[0] = 0
  BY <1>1, <1>11
<1>13. \A k \in 1..n : f[k] = IF Ending(P, k) = {} THEN f[k - 1] ELSE f[k - 1] + Tokens(At(P, k))
  <2>1. \A k \in 1..n : k \in 0..n /\ k # 0
    BY <1>1
  <2> QED  BY <1>11, <2>1
<1> DEFINE Ks == {k \in Nat : k <= n => f[k] \in Nat}
<1>14. \A k \in Nat : k \in Ks
  <2>1. 0 \in Ks
    BY <1>12
  <2>2. ASSUME NEW k \in Nat, k \in Ks, k + 1 <= n PROVE f[k + 1] \in Nat
    <3>1. k + 1 \in 1..n /\ (k + 1) - 1 = k /\ f[k] \in Nat
      BY <1>1, <2>2
    <3>2. f[k + 1] = IF Ending(P, k + 1) = {} THEN f[k] ELSE f[k] + Tokens(At(P, k + 1))
      BY <1>13, <3>1
    <3>3. cost[k + 1] \in Nat /\ cost[k + 1] = IF Ending(P, k + 1) = {} THEN 0 ELSE Tokens(At(P, k + 1))
      BY <1>2, <3>1
    <3> QED  BY <3>1, <3>2, <3>3
  <2>3. \A k \in Nat : k \in Ks => k + 1 \in Ks
    BY <2>2
  <2> HIDE DEF Ks
  <2> QED  BY <2>1, <2>3, NatSetInduction
<1>15. f \in [0..n -> Nat]
  <2>1. \A k \in 0..n : f[k] \in Nat
    BY <1>1, <1>14
  <2> QED  BY <1>11, <2>1
<1> QED  BY <1>10, <1>12, <1>13, <1>15 DEF n

\* The sum grows, and only where a piece ends.
LEMMA SumGrows ==
  ASSUME text \in Seq(Alphabet), NEW span, NEW P, Tiles(span, P), NEW a \in 0..Len(text),
         NEW b \in a..Len(text)
  PROVE  LET u == TokensUpTo(P)
         IN  /\ u[a] <= u[b]
             /\ (\A q \in P : q[2] <= a \/ b < q[2]) => u[a] = u[b]
<1> DEFINE n == Len(text)
           u == TokensUpTo(P)
           Q(k) == u[a] <= u[k] /\ ((\A q \in P : q[2] <= a \/ k < q[2]) => u[a] = u[k])
           Ks == {k \in Nat : k \in a..n => Q(k)}
<1>1. n \in Nat
  BY SeqDomain
<1>2. /\ u \in [0..n -> Nat] /\ u[0] = 0
      /\ \A i \in 1..n : u[i] = IF Ending(P, i) = {} THEN u[i - 1] ELSE u[i - 1] + Tokens(At(P, i))
  BY SumFacts
<1>3. \A q \in P : q[2] \in Nat
  BY PieceFacts DEF Tiles
<1>4. \A i : Ending(P, i) # {} => Tokens(At(P, i)) \in Nat /\ At(P, i) \in P /\ At(P, i)[2] = i
  BY AtFacts, PieceHasTokens
<1> HIDE DEF n, u
<1>5. a \in 0..n /\ b \in a..n
  BY DEF n
<1>6. u[a] <= u[a] /\ u[a] \in Nat
  BY <1>2, <1>5
<1>7. 0 \in Ks
  <2>1. 0 \in a..n => a = 0
    BY <1>5
  <2> QED  BY <1>6, <2>1
<1>8. ASSUME NEW k \in Nat, k \in Ks, k + 1 \in a..n PROVE Q(k + 1)
  <2>1. CASE k + 1 = a
    BY <1>6, <2>1
  <2>2. CASE k + 1 # a
    <3>1. k \in a..n /\ k \in 0..n /\ k + 1 \in 1..n /\ k + 1 \in 0..n /\ (k + 1) - 1 = k
      BY <1>1, <1>5, <1>8, <2>2
    <3>2. Q(k)
      BY <1>8, <3>1
    <3>3. u[k + 1] = IF Ending(P, k + 1) = {} THEN u[k] ELSE u[k] + Tokens(At(P, k + 1))
      BY <1>2, <3>1
    <3>4. u[k] \in Nat /\ u[k + 1] \in Nat
      BY <1>2, <3>1
    <3>5. CASE Ending(P, k + 1) = {}
      <4>1. \A q \in P : q[2] # k + 1
        BY <3>5 DEF Ending
      <4>2. \A q \in P : k + 1 < q[2] <=> k < q[2]
        BY <1>3, <4>1
      <4> QED  BY <3>2, <3>3, <3>5, <4>2
    <3>6. CASE Ending(P, k + 1) # {}
      <4>1. Tokens(At(P, k + 1)) \in Nat /\ At(P, k + 1) \in P /\ At(P, k + 1)[2] = k + 1
        BY <1>4, <3>6
      <4>2. ~(\A q \in P : q[2] <= a \/ k + 1 < q[2])
        BY <1>5, <3>1, <4>1
      <4>3. u[a] <= u[k + 1]
        BY <1>6, <3>2, <3>3, <3>4, <3>6, <4>1
      <4> QED  BY <4>2, <4>3
    <3> QED  BY <3>5, <3>6
  <2> QED  BY <2>1, <2>2
<1>9. \A k \in Nat : k \in Ks
  <2>1. \A k \in Nat : k \in Ks => k + 1 \in Ks
    <3> HIDE DEF Q
    <3> QED  BY <1>8
  <2> HIDE DEF Ks
  <2> QED  BY <1>7, <2>1, NatSetInduction
<1>10. b \in Nat
  BY <1>5
<1>11. Q(b)
  <2> HIDE DEF Q
  <2> QED  BY <1>5, <1>9, <1>10
<1> QED  BY <1>11 DEF u

Chunk == [span : Nat \X Nat, tokens : Nat]

\* Whether the last chunk takes a piece as well.
Takes(ch, p) == Len(ch) > 0 /\ ch[Len(ch)].tokens + Tokens(p) <= Cap(Len(ch))

\* What packing a piece does to the chunks.
Lengthens(d, ch, p) ==
  LET here == Len(ch)
  IN  /\ d \in Seq(Chunk) /\ here \in Nat /\ here > 0 /\ Len(d) = here
      /\ d[here].span = <<ch[here].span[1], p[2]>>
      /\ d[here].tokens = ch[here].tokens + Tokens(p)
      /\ \A c \in 1..(here - 1) : d[c] = ch[c]

Appends(d, ch, p) ==
  LET here == Len(ch)
  IN  /\ d \in Seq(Chunk) /\ here \in Nat /\ Len(d) = here + 1
      /\ d[here + 1].span = p /\ d[here + 1].tokens = Tokens(p)
      /\ \A c \in 1..here : d[c] = ch[c]

LEMMA PackFacts ==
  ASSUME text \in Seq(Alphabet), budget \in Budgets, NEW ch \in Seq(Chunk), NEW p, IsPiece(p)
  PROVE  /\ Pack(ch, p) \in Seq(Chunk)
         /\ Takes(ch, p) => Lengthens(Pack(ch, p), ch, p)
         /\ ~Takes(ch, p) => Appends(Pack(ch, p), ch, p)
<1> DEFINE here == Len(ch)
           d == Pack(ch, p)
           x == [span |-> <<ch[here].span[1], p[2]>>, tokens |-> ch[here].tokens + Tokens(p)]
           y == [span |-> p, tokens |-> Tokens(p)]
<1>1. here \in Nat /\ \A c \in 1..here : ch[c] \in Chunk
  BY SeqDomain
<1>2. Tokens(p) \in Nat /\ p \in Nat \X Nat /\ p[2] \in Nat
  BY PieceHasTokens, PieceFacts DEF IsPiece, Inside
<1>3. d = IF Takes(ch, p) THEN [ch EXCEPT ![here] = x] ELSE Append(ch, y)
  BY DEF Pack, Takes
<1>4. ASSUME Takes(ch, p)
      PROVE  /\ d \in Seq(Chunk) /\ here > 0 /\ Len(d) = here
             /\ d[here].span = <<ch[here].span[1], p[2]>>
             /\ d[here].tokens = ch[here].tokens + Tokens(p)
             /\ \A c \in 1..(here - 1) : d[c] = ch[c]
  <2>1. here > 0 /\ here \in 1..here
    BY <1>1, <1>4 DEF Takes
  <2>2. ch[here] \in Chunk
    BY <1>1, <2>1
  <2>3. ch[here].span \in Nat \X Nat /\ ch[here].tokens \in Nat
    BY <2>2 DEF Chunk
  <2>4. x \in Chunk /\ x.span = <<ch[here].span[1], p[2]>> /\ x.tokens = ch[here].tokens + Tokens(p)
    <3>1. ch[here].span[1] \in Nat /\ ch[here].tokens + Tokens(p) \in Nat
      BY <1>2, <2>3
    <3>2. <<ch[here].span[1], p[2]>> \in Nat \X Nat
      BY <1>2, <3>1
    <3> QED  BY <3>1, <3>2 DEF Chunk
  <2> HIDE DEF x, here
  <2>5. d = [ch EXCEPT ![here] = x]
    BY <1>3, <1>4
  <2>6. /\ [ch EXCEPT ![here] = x] \in Seq(Chunk) /\ Len([ch EXCEPT ![here] = x]) = here
        /\ \A j \in 1..here : [ch EXCEPT ![here] = x][j] = IF j = here THEN x ELSE ch[j]
    BY <2>1, <2>4, ExceptSeq DEF here
  <2>7. d[here] = x /\ \A c \in 1..(here - 1) : d[c] = ch[c]
    BY <1>1, <2>1, <2>5, <2>6
  <2> QED  BY <2>1, <2>4, <2>5, <2>6, <2>7
<1>5. ASSUME ~Takes(ch, p)
      PROVE  /\ d \in Seq(Chunk) /\ Len(d) = here + 1
             /\ d[here + 1].span = p /\ d[here + 1].tokens = Tokens(p)
             /\ \A c \in 1..here : d[c] = ch[c]
  <2>1. y \in Chunk /\ y.span = p /\ y.tokens = Tokens(p)
    BY <1>2 DEF Chunk
  <2> HIDE DEF y
  <2>2. d = Append(ch, y)
    BY <1>3, <1>5
  <2>3. /\ Append(ch, y) \in Seq(Chunk) /\ Len(Append(ch, y)) = Len(ch) + 1
        /\ Append(ch, y)[Len(ch) + 1] = y
        /\ \A c \in 1..Len(ch) : Append(ch, y)[c] = ch[c]
    BY <2>1
  <2> QED  BY <2>1, <2>2, <2>3
<1> HIDE DEF d
<1>6. Takes(ch, p) => Lengthens(d, ch, p)
  BY <1>1, <1>4 DEF Lengthens
<1>7. ~Takes(ch, p) => Appends(d, ch, p)
  BY <1>1, <1>5 DEF Appends
<1> QED  BY <1>4, <1>5, <1>6, <1>7 DEF d

\* What has been packed at a position.
Packed(P) ==
  CHOOSE f : f = [i \in 0..Len(text) |->
    IF i = 0 THEN <<>> ELSE IF Ending(P, i) = {} THEN f[i - 1] ELSE Pack(f[i - 1], At(P, i))]

LEMMA PackedFacts ==
  ASSUME text \in Seq(Alphabet), budget \in Budgets, NEW span, NEW P, Tiles(span, P)
  PROVE  /\ Packed(P)[0] = <<>>
         /\ \A i \in 1..Len(text) :
              Packed(P)[i] = IF Ending(P, i) = {} THEN Packed(P)[i - 1]
                             ELSE Pack(Packed(P)[i - 1], At(P, i))
<1> DEFINE n == Len(text)
           X == Seq(Chunk)
           Grow(b, i) == IF Ending(P, i) = {} THEN b ELSE Pack(b, At(P, i))
           step == [i \in 1..n |-> [b \in X |-> Grow(b, i)]]
           x0 == <<>>
           f == Packed(P)
<1>1. n \in Nat /\ x0 \in X
  BY SeqDomain
<1>2. \A i \in 1..n : \A b \in X : Grow(b, i) \in X
  BY AtFacts, PackFacts
<1> HIDE DEF n, X, Grow, x0
<1>3. step \in Steps(X, n)
  BY <1>2 DEF Steps
<1>4. \A i \in 1..n : \A b \in X : step[i][b] = Grow(b, i)
  OBVIOUS
<1> HIDE DEF step
<1>5. PICK g \in Runs(X, x0, n, step) : TRUE
  BY <1>1, <1>3, RunExists, Zenon
<1>6. g \in [0..n -> X] /\ g[0] = x0 /\ \A k \in 1..n : g[k] = step[k][g[k - 1]]
  BY <1>5 DEF Runs
<1>7. \A k \in 1..n : g[k] = Grow(g[k - 1], k)
  <2>1. \A k \in 1..n : k - 1 \in 0..n
    BY <1>1
  <2>2. \A k \in 1..n : g[k - 1] \in X
    BY <1>6, <2>1
  <2> QED  BY <1>4, <1>6, <2>2
<1>8. g = [i \in 0..n |-> IF i = 0 THEN x0 ELSE Grow(g[i - 1], i)]
  <2>1. \A k \in 0..n : k = 0 \/ k \in 1..n
    BY <1>1
  <2> QED  BY <1>6, <1>7, <2>1
<1>9. f = CHOOSE h : h = [i \in 0..n |-> IF i = 0 THEN x0 ELSE Grow(h[i - 1], i)]
  BY Zenon DEF Packed, Grow, x0, n
<1> HIDE DEF f
<1>10. f = [i \in 0..n |-> IF i = 0 THEN x0 ELSE Grow(f[i - 1], i)]
  BY <1>8, <1>9
<1>11. f[0] = x0
  BY <1>1, <1>10
<1>12. \A k \in 1..n : f[k] = Grow(f[k - 1], k)
  <2>1. \A k \in 1..n : k \in 0..n /\ k # 0
    BY <1>1
  <2> QED  BY <1>10, <2>1
<1> QED  BY <1>11, <1>12 DEF f, n, x0, Grow

\* What is true of the chunks when the pieces up to a position are packed.
Covers(P, ch, i) ==
  /\ Len(ch) = 0 => \A p \in P : i < p[2]
  /\ Len(ch) > 0 => /\ \A p \in P : ch[1].span[1] <= p[1]
                    /\ \A p \in P : p[2] <= ch[Len(ch)].span[2] \/ i < p[2]

FromTo(P, ch, i) ==
  \A c \in 1..Len(ch) :
    \E p, q \in P : p[1] = ch[c].span[1] /\ q[2] = ch[c].span[2] /\ p[1] <= q[1] /\ q[2] <= i

InLine(P, ch) ==
  \A c \in 1..(Len(ch) - 1) :
    /\ ch[c].span[2] < ch[c + 1].span[1]
    /\ \A p \in P : p[2] <= ch[c].span[2] \/ ch[c + 1].span[1] <= p[1]

Counted(P, ch) ==
  LET u == TokensUpTo(P)
  IN  \A c \in 1..Len(ch) : ch[c].tokens = u[ch[c].span[2]] - u[ch[c].span[1] - 1]

WithinCap(P, ch) == \A c \in 1..Len(ch) : ch[c].span \in P \/ ch[c].tokens <= Cap(c)

Greedy(P, ch) ==
  \A c \in 1..(Len(ch) - 1) :
    \E p \in P : p[1] = ch[c + 1].span[1] /\ ch[c].tokens + Tokens(p) > Cap(c)

PackInv(P, ch, i) ==
  /\ ch \in Seq(Chunk) /\ Covers(P, ch, i) /\ FromTo(P, ch, i) /\ InLine(P, ch)
  /\ Counted(P, ch) /\ WithinCap(P, ch) /\ Greedy(P, ch)

LEMMA PackInvSkip ==
  ASSUME text \in Seq(Alphabet), NEW span, NEW P, Tiles(span, P), NEW ch, NEW i \in Nat,
         PackInv(P, ch, i), Ending(P, i + 1) = {}
  PROVE  PackInv(P, ch, i + 1)
<1>1. \A p \in P : p[2] \in Nat
  BY PieceFacts DEF Tiles
<1>2. \A p \in P : p[2] # i + 1
  BY DEF Ending
<1>3. \A p \in P : i < p[2] <=> i + 1 < p[2]
  BY <1>1, <1>2
<1>4. Covers(P, ch, i + 1)
  BY <1>3 DEF Covers, PackInv
<1>5. FromTo(P, ch, i + 1)
  <2> SUFFICES ASSUME NEW c \in 1..Len(ch)
               PROVE  \E p, q \in P : /\ p[1] = ch[c].span[1] /\ q[2] = ch[c].span[2]
                                     /\ p[1] <= q[1] /\ q[2] <= i + 1
    BY DEF FromTo
  <2>1. PICK p \in P, q \in P : p[1] = ch[c].span[1] /\ q[2] = ch[c].span[2] /\ p[1] <= q[1] /\ q[2] <= i
    BY DEF PackInv, FromTo
  <2>2. q[2] <= i + 1
    BY <1>1, <2>1
  <2> QED  BY <2>1, <2>2
<1> QED  BY <1>4, <1>5 DEF PackInv

LEMMA ChunkTyped ==
  ASSUME budget \in Budgets, NEW ch \in Seq(Chunk), NEW c \in 1..Len(ch)
  PROVE  /\ ch[c].span = <<ch[c].span[1], ch[c].span[2]>> /\ ch[c].span[1] \in Nat
         /\ ch[c].span[2] \in Nat
         /\ ch[c].tokens \in Nat /\ Cap(c) \in Nat /\ Len(ch) \in Nat
<1>1. ch[c] \in Chunk /\ Len(ch) \in Nat
  BY ElementOfSeq, LenProperties
<1>2. ch[c].span \in Nat \X Nat /\ ch[c].tokens \in Nat
  BY <1>1 DEF Chunk
<1> QED  BY <1>1, <1>2, CapIsNat

\* A chunk lies within what is packed.
LEMMA ChunkBounds ==
  ASSUME text \in Seq(Alphabet), budget \in Budgets, NEW span, NEW P, Tiles(span, P), NEW ch,
         NEW i \in Nat,
         PackInv(P, ch, i), NEW c \in 1..Len(ch)
  PROVE  1 <= ch[c].span[1] /\ ch[c].span[1] <= ch[c].span[2] /\ ch[c].span[2] <= i
<1>1. PICK p \in P, q \in P : p[1] = ch[c].span[1] /\ q[2] = ch[c].span[2] /\ p[1] <= q[1] /\ q[2] <= i
  BY DEF PackInv, FromTo
<1>2. IsPiece(p) /\ IsPiece(q)
  BY DEF Tiles
<1>3. p[1] \in Nat /\ 1 <= p[1] /\ q[1] \in Nat /\ q[2] \in Nat /\ q[1] <= q[2]
  BY <1>2, PieceFacts
<1> QED  BY <1>1, <1>3

\* The next piece, and what was packed before it.
LEMMA NextPiece ==
  ASSUME text \in Seq(Alphabet), budget \in Budgets, NEW span, NEW P, Tiles(span, P), NEW ch,
         NEW i \in Nat,
         PackInv(P, ch, i), Ending(P, i + 1) # {}
  PROVE  LET p == At(P, i + 1)
             u == TokensUpTo(P)
         IN  /\ p \in P /\ IsPiece(p) /\ p[1] \in Nat /\ 1 <= p[1] /\ p[1] <= i + 1 /\ p[2] = i + 1
             /\ Tokens(p) \in Nat /\ i + 1 <= Len(text)
             /\ u[i] \in Nat /\ u[i + 1] = u[i] + Tokens(p) /\ u[p[1] - 1] = u[i]
             /\ \A r \in P : r[2] < p[1] \/ p[1] <= r[1]
             /\ \A r \in P : i < r[2] => p[1] <= r[1]
             /\ Len(ch) > 0 => ch[Len(ch)].span[2] < p[1] /\ u[ch[Len(ch)].span[2]] = u[i]
<1> DEFINE p == At(P, i + 1)
           u == TokensUpTo(P)
           n == Len(text)
<1>1. p \in P /\ IsPiece(p) /\ p[2] = i + 1
  BY AtFacts
<1>2. p[1] \in Nat /\ 1 <= p[1] /\ p[1] <= i + 1 /\ i + 1 <= n /\ n \in Nat /\ Tokens(p) \in Nat
  BY <1>1, PieceFacts, PieceHasTokens
<1>3. /\ u \in [0..n -> Nat]
      /\ \A k \in 1..n : u[k] = IF Ending(P, k) = {} THEN u[k - 1] ELSE u[k - 1] + Tokens(At(P, k))
  BY SumFacts
<1>4. u[i] \in Nat /\ u[i + 1] = u[i] + Tokens(p)
  <2>1. i + 1 \in 1..n /\ (i + 1) - 1 = i /\ i \in 0..n
    BY <1>2
  <2>2. u[i + 1] = u[(i + 1) - 1] + Tokens(p)
    BY <1>3, <2>1
  <2> QED  BY <1>3, <2>1, <2>2
<1>5. \A r \in P : r[1] \in Nat /\ r[2] \in Nat /\ r[1] <= r[2]
  BY PieceFacts DEF Tiles
<1>6. \A r \in P : r = p \/ r[2] < p[1] \/ p[2] < r[1]
  BY <1>1 DEF Tiles
<1> HIDE DEF p, u, n
<1>7. \A r \in P : r[2] < p[1] \/ p[1] <= r[1]
  BY <1>1, <1>2, <1>5, <1>6
<1>8. \A r \in P : i < r[2] => p[1] <= r[1]
  BY <1>1, <1>2, <1>5, <1>6
<1>9. u[p[1] - 1] = u[i]
  <2>1. p[1] - 1 \in 0..n /\ i \in (p[1] - 1)..n
    BY <1>2
  <2>2. \A r \in P : r[2] <= p[1] - 1 \/ i < r[2]
    BY <1>1, <1>2, <1>5, <1>6
  <2> QED  BY <2>1, <2>2, SumGrows DEF u, n
<1>10. ASSUME Len(ch) > 0 PROVE ch[Len(ch)].span[2] < p[1] /\ u[ch[Len(ch)].span[2]] = u[i]
  <2> DEFINE e == ch[Len(ch)].span[2]
  <2>1. Len(ch) \in 1..Len(ch) /\ ch \in Seq(Chunk)
    BY <1>10, LenProperties DEF PackInv
  <2>2. e \in Nat /\ e <= i
    BY <2>1, ChunkBounds, ChunkTyped
  <2>3. PICK q \in P : q[2] = e
    BY <2>1 DEF PackInv, FromTo
  <2>4. e < p[1]
    BY <1>1, <1>2, <1>5, <1>6, <2>2, <2>3
  <2>5. \A r \in P : r[2] <= e \/ i < r[2]
    BY <1>10 DEF PackInv, Covers
  <2>6. e \in 0..n /\ i \in e..n
    BY <1>2, <2>2
  <2> HIDE DEF e
  <2>7. u[e] = u[i]
    BY <2>5, <2>6, SumGrows DEF u, n
  <2> QED  BY <2>4, <2>7 DEF e
<1> QED  BY <1>1, <1>2, <1>4, <1>7, <1>8, <1>9, <1>10 DEF p, u, n

LEMMA PackInvJoin ==
  ASSUME text \in Seq(Alphabet), budget \in Budgets, NEW span, NEW P, Tiles(span, P), NEW ch,
         NEW i \in Nat,
         PackInv(P, ch, i), Ending(P, i + 1) # {}, Takes(ch, At(P, i + 1))
  PROVE  PackInv(P, Pack(ch, At(P, i + 1)), i + 1)
<1> DEFINE p == At(P, i + 1)
           d == Pack(ch, p)
           here == Len(ch)
           u == TokensUpTo(P)
<1>1. /\ p \in P /\ IsPiece(p) /\ p[1] \in Nat /\ p[1] <= i + 1 /\ p[2] = i + 1 /\ Tokens(p) \in Nat
      /\ u[i] \in Nat /\ u[i + 1] = u[i] + Tokens(p)
      /\ here > 0 => ch[here].span[2] < p[1] /\ u[ch[here].span[2]] = u[i]
  BY NextPiece
<1>2. ch \in Seq(Chunk) /\ Takes(ch, p)
  BY DEF PackInv
<1> HIDE DEF p
<1>3. /\ d \in Seq(Chunk) /\ here \in Nat /\ here > 0 /\ Len(d) = here
      /\ d[here].span = <<ch[here].span[1], p[2]>>
      /\ d[here].tokens = ch[here].tokens + Tokens(p)
      /\ \A c \in 1..(here - 1) : d[c] = ch[c]
  <2>1. Lengthens(d, ch, p)
    BY <1>1, <1>2, PackFacts
  <2> HIDE DEF d
  <2> QED  BY <2>1 DEF Lengthens
<1>4. ch[here].tokens + Tokens(p) <= Cap(here)
  BY <1>2 DEF Takes
<1> HIDE DEF d, u
<1>5. here \in 1..here /\ \A c \in 1..here : c = here \/ c \in 1..(here - 1)
  BY <1>3
<1>6. \A c \in 1..here : d[c].span[1] = ch[c].span[1]
  BY <1>3, <1>5
<1>7. d[here].span[2] = i + 1
  BY <1>1, <1>3
<1>8. \A c \in 1..here : /\ ch[c].span[1] \in Nat /\ ch[c].span[2] \in Nat /\ ch[c].tokens \in Nat
                         /\ 1 <= ch[c].span[1] /\ ch[c].span[1] <= ch[c].span[2] /\ ch[c].span[2] <= i
  BY <1>2, ChunkTyped, ChunkBounds
<1>9. \A r \in P : r[2] \in Nat
  BY PieceFacts DEF Tiles
<1>10. Covers(P, d, i + 1)
  <2>1. 1 \in 1..here
    BY <1>3
  <2>2. d[1].span[1] = ch[1].span[1]
    BY <1>6, <2>1
  <2>3. \A r \in P : ch[1].span[1] <= r[1]
    BY <1>3 DEF PackInv, Covers
  <2>4. \A r \in P : r[2] <= d[here].span[2] \/ i + 1 < r[2]
    BY <1>7, <1>9
  <2> QED  BY <1>3, <2>2, <2>3, <2>4 DEF Covers
<1>11. FromTo(P, d, i + 1)
  <2> SUFFICES ASSUME NEW c \in 1..here
               PROVE  \E r, q \in P : /\ r[1] = d[c].span[1] /\ q[2] = d[c].span[2]
                                     /\ r[1] <= q[1] /\ q[2] <= i + 1
    BY <1>3 DEF FromTo
  <2>1. PICK r \in P, q \in P : r[1] = ch[c].span[1] /\ q[2] = ch[c].span[2] /\ r[1] <= q[1] /\ q[2] <= i
    BY DEF PackInv, FromTo
  <2>2. CASE c = here
    <3>1. r[1] = d[c].span[1] /\ p[2] = d[c].span[2] /\ p[2] <= i + 1
      BY <1>1, <1>6, <1>7, <2>1, <2>2
    <3>2. r[1] <= p[1]
      BY <1>1, <1>3, <1>8, <2>1, <2>2
    <3> QED  BY <1>1, <3>1, <3>2
  <2>3. CASE c \in 1..(here - 1)
    <3>1. d[c] = ch[c] /\ q[2] <= i + 1
      BY <1>3, <1>9, <2>1, <2>3
    <3> QED  BY <2>1, <3>1
  <2> QED  BY <1>5, <2>2, <2>3
<1>12. \A c \in 1..(here - 1) : /\ c \in 1..here /\ c + 1 \in 1..here
                                /\ d[c] = ch[c] /\ d[c + 1].span[1] = ch[c + 1].span[1]
  BY <1>3, <1>6
<1>13. InLine(P, d)
  BY <1>3, <1>12 DEF PackInv, InLine
<1>14. Counted(P, d)
  <2> SUFFICES ASSUME NEW c \in 1..here PROVE d[c].tokens = u[d[c].span[2]] - u[d[c].span[1] - 1]
    BY <1>3 DEF Counted, u
  <2>1. ch[c].tokens = u[ch[c].span[2]] - u[ch[c].span[1] - 1]
    BY DEF PackInv, Counted, u
  <2>2. CASE c = here
    <3> DEFINE a == u[ch[here].span[1] - 1]
    <3>1. ch[here].tokens = u[i] - a
      BY <1>1, <1>3, <2>1, <2>2
    <3>2. /\ d[here].tokens = u[i] - a + Tokens(p) /\ u[d[here].span[2]] = u[i] + Tokens(p)
          /\ u[d[here].span[1] - 1] = a
      BY <1>1, <1>3, <1>5, <1>6, <1>7, <3>1
    <3>3. a \in Int
      <4>1. ch[here].span[1] - 1 \in 0..Len(text)
        <5>1. i + 1 <= Len(text)
          BY NextPiece
        <5> QED  BY <1>5, <1>8, <5>1, SeqDomain
      <4>2. u \in [0..Len(text) -> Nat]
        BY SumFacts DEF u
      <4> QED  BY <4>1, <4>2
    <3> HIDE DEF a
    <3>4. d[here].tokens = u[d[here].span[2]] - u[d[here].span[1] - 1]
      BY <1>1, <3>2, <3>3
    <3> QED  BY <2>2, <3>4
  <2>3. CASE c \in 1..(here - 1)
    BY <1>12, <2>1, <2>3
  <2> QED  BY <1>5, <2>2, <2>3
<1>15. WithinCap(P, d)
  <2> SUFFICES ASSUME NEW c \in 1..here PROVE d[c].span \in P \/ d[c].tokens <= Cap(c)
    BY <1>3 DEF WithinCap
  <2>1. CASE c = here
    BY <1>3, <1>4, <2>1 DEF p
  <2>2. CASE c \in 1..(here - 1)
    BY <1>12, <2>2 DEF PackInv, WithinCap
  <2> QED  BY <1>5, <2>1, <2>2
<1>16. Greedy(P, d)
  BY <1>3, <1>12 DEF PackInv, Greedy
<1> QED  BY <1>3, <1>10, <1>11, <1>13, <1>14, <1>15, <1>16 DEF PackInv, d, p

LEMMA PackInvOpen ==
  ASSUME text \in Seq(Alphabet), budget \in Budgets, NEW span, NEW P, Tiles(span, P), NEW ch,
         NEW i \in Nat,
         PackInv(P, ch, i), Ending(P, i + 1) # {}, ~Takes(ch, At(P, i + 1))
  PROVE  PackInv(P, Pack(ch, At(P, i + 1)), i + 1)
<1> DEFINE p == At(P, i + 1)
           d == Pack(ch, p)
           here == Len(ch)
           u == TokensUpTo(P)
<1>1. /\ p \in P /\ IsPiece(p) /\ p[1] \in Nat /\ p[1] <= i + 1 /\ p[2] = i + 1 /\ Tokens(p) \in Nat
      /\ u[i] \in Nat /\ u[i + 1] = u[i] + Tokens(p) /\ u[p[1] - 1] = u[i]
      /\ \A r \in P : i < r[2] => p[1] <= r[1]
      /\ here > 0 => ch[here].span[2] < p[1] /\ u[ch[here].span[2]] = u[i]
  BY NextPiece
<1>2. ch \in Seq(Chunk) /\ ~Takes(ch, p)
  BY DEF PackInv
<1> HIDE DEF p
<1>3. /\ d \in Seq(Chunk) /\ here \in Nat /\ Len(d) = here + 1
      /\ d[here + 1].span = p /\ d[here + 1].tokens = Tokens(p)
      /\ \A c \in 1..here : d[c] = ch[c]
  <2>1. Appends(d, ch, p)
    BY <1>1, <1>2, PackFacts
  <2> HIDE DEF d
  <2> QED  BY <2>1 DEF Appends
<1>4. here > 0 => ~(ch[here].tokens + Tokens(p) <= Cap(here))
  BY <1>2 DEF Takes
<1> HIDE DEF d, u
<1>5. \A c \in 1..(here + 1) : c = here + 1 \/ c \in 1..here
  BY <1>3
<1>6. \A r \in P : r[1] \in Nat /\ r[2] \in Nat
  BY PieceFacts DEF Tiles
<1>7. Covers(P, d, i + 1)
  <2>1. \A r \in P : d[1].span[1] <= r[1]
    <3>1. CASE here = 0
      <4>1. \A r \in P : i < r[2]
        BY <3>1 DEF PackInv, Covers
      <4> QED  BY <1>1, <1>3, <3>1, <4>1
    <3>2. CASE here > 0
      <4>1. d[1] = ch[1]
        BY <1>3, <3>2
      <4> QED  BY <3>2, <4>1 DEF PackInv, Covers
    <3> QED  BY <1>3, <3>1, <3>2
  <2>2. \A r \in P : r[2] <= d[here + 1].span[2] \/ i + 1 < r[2]
    BY <1>1, <1>3, <1>6
  <2> QED  BY <1>3, <2>1, <2>2 DEF Covers
<1>8. FromTo(P, d, i + 1)
  <2> SUFFICES ASSUME NEW c \in 1..(here + 1)
               PROVE  \E r, q \in P : /\ r[1] = d[c].span[1] /\ q[2] = d[c].span[2]
                                     /\ r[1] <= q[1] /\ q[2] <= i + 1
    BY <1>3 DEF FromTo
  <2>1. CASE c = here + 1
    <3>1. p[1] = d[c].span[1] /\ p[2] = d[c].span[2] /\ p[1] <= p[1] /\ p[2] <= i + 1
      BY <1>1, <1>3, <2>1
    <3> QED  BY <1>1, <3>1
  <2>2. CASE c \in 1..here
    <3>1. PICK r \in P, q \in P :
            r[1] = ch[c].span[1] /\ q[2] = ch[c].span[2] /\ r[1] <= q[1] /\ q[2] <= i
      BY <2>2 DEF PackInv, FromTo
    <3>2. d[c] = ch[c] /\ q[2] <= i + 1
      BY <1>3, <1>6, <2>2, <3>1
    <3> QED  BY <3>1, <3>2
  <2> QED  BY <1>5, <2>1, <2>2
<1>9. ASSUME NEW c \in 1..here
      PROVE  \/ c = here /\ here > 0 /\ d[c + 1].span = p /\ d[c] = ch[c]
             \/ c \in 1..(here - 1) /\ d[c + 1] = ch[c + 1] /\ d[c] = ch[c]
  <2>1. CASE c = here
    BY <1>3, <2>1
  <2>2. CASE c # here
    <3>1. c \in 1..(here - 1) /\ c + 1 \in 1..here
      BY <1>3, <2>2
    <3> QED  BY <1>3, <3>1
  <2> QED  BY <2>1, <2>2
<1>10. InLine(P, d)
  <2> SUFFICES ASSUME NEW c \in 1..here
               PROVE  /\ d[c].span[2] < d[c + 1].span[1]
                      /\ \A r \in P : r[2] <= d[c].span[2] \/ d[c + 1].span[1] <= r[1]
    BY <1>3 DEF InLine
  <2>1. CASE c = here /\ here > 0 /\ d[c + 1].span = p /\ d[c] = ch[c]
    <3>1. \A r \in P : r[2] <= ch[here].span[2] \/ i < r[2]
      BY <2>1 DEF PackInv, Covers
    <3> QED  BY <1>1, <2>1, <3>1
  <2>2. CASE c \in 1..(here - 1) /\ d[c + 1] = ch[c + 1] /\ d[c] = ch[c]
    BY <2>2 DEF PackInv, InLine
  <2> QED  BY <1>9, <2>1, <2>2
<1>11. Counted(P, d)
  <2> SUFFICES ASSUME NEW c \in 1..(here + 1) PROVE d[c].tokens = u[d[c].span[2]] - u[d[c].span[1] - 1]
    BY <1>3 DEF Counted, u
  <2>1. CASE c = here + 1
    <3>1. u[d[c].span[2]] = u[i] + Tokens(p) /\ u[d[c].span[1] - 1] = u[i] /\ d[c].tokens = Tokens(p)
      BY <1>1, <1>3, <2>1
    <3> QED  BY <1>1, <3>1
  <2>2. CASE c \in 1..here
    BY <1>3, <2>2 DEF PackInv, Counted, u
  <2> QED  BY <1>5, <2>1, <2>2
<1>12. WithinCap(P, d)
  <2> SUFFICES ASSUME NEW c \in 1..(here + 1) PROVE d[c].span \in P \/ d[c].tokens <= Cap(c)
    BY <1>3 DEF WithinCap
  <2>1. CASE c = here + 1
    BY <1>1, <1>3, <2>1
  <2>2. CASE c \in 1..here
    BY <1>3, <2>2 DEF PackInv, WithinCap
  <2> QED  BY <1>5, <2>1, <2>2
<1>13. Greedy(P, d)
  <2> SUFFICES ASSUME NEW c \in 1..here
               PROVE  \E r \in P : r[1] = d[c + 1].span[1] /\ d[c].tokens + Tokens(r) > Cap(c)
    BY <1>3 DEF Greedy
  <2>1. CASE c = here /\ here > 0 /\ d[c + 1].span = p /\ d[c] = ch[c]
    <3>1. ch[here].tokens \in Nat /\ Cap(here) \in Nat
      BY <1>2, <2>1, ChunkTyped
    <3>2. d[c].tokens + Tokens(p) > Cap(c)
      BY <1>1, <1>4, <2>1, <3>1
    <3> QED  BY <1>1, <2>1, <3>2
  <2>2. CASE c \in 1..(here - 1) /\ d[c + 1] = ch[c + 1] /\ d[c] = ch[c]
    BY <2>2 DEF PackInv, Greedy
  <2> QED  BY <1>9, <2>1, <2>2
<1> QED  BY <1>3, <1>7, <1>8, <1>10, <1>11, <1>12, <1>13 DEF PackInv, d, p

LEMMA ChunksArePacked ==
  ASSUME text \in Seq(Alphabet), budget \in Budgets, NEW span, NEW P, Tiles(span, P), Pieces = P
  PROVE  PackInv(P, Chunks, Len(text))
<1> DEFINE n == Len(text)
           f == Packed(P)
<1>1. n \in Nat
  BY SeqDomain
<1>2. Chunks = f[n]
  <2>1. Chunks = Packed(Pieces)[n]
    BY Zenon DEF Chunks, Packed, At
  <2> QED  BY <2>1
<1>3. /\ f[0] = <<>>
      /\ \A i \in 1..n : f[i] = IF Ending(P, i) = {} THEN f[i - 1] ELSE Pack(f[i - 1], At(P, i))
  BY PackedFacts
<1>4. PackInv(P, <<>>, 0)
  <2> DEFINE ch == <<>>
  <2>1. ch \in Seq(Chunk) /\ Len(ch) = 0
    OBVIOUS
  <2>2. \A p \in P : 0 < p[2]
    BY PieceFacts DEF Tiles
  <2> HIDE DEF ch
  <2>3. PackInv(P, ch, 0)
    BY <2>1, <2>2 DEF PackInv, Covers, FromTo, InLine, Counted, WithinCap, Greedy
  <2> QED  BY <2>3 DEF ch
<1> HIDE DEF f, n
<1> DEFINE Ks == {k \in Nat : k <= n => PackInv(P, f[k], k)}
<1>5. 0 \in Ks
  BY <1>3, <1>4
<1>6. ASSUME NEW k \in Nat, k \in Ks, k + 1 <= n PROVE PackInv(P, f[k + 1], k + 1)
  <2>1. k + 1 \in 1..n /\ (k + 1) - 1 = k /\ k <= n
    BY <1>1, <1>6
  <2>2. PackInv(P, f[k], k)
    BY <1>6, <2>1
  <2>3. f[k + 1] = IF Ending(P, k + 1) = {} THEN f[k] ELSE Pack(f[k], At(P, k + 1))
    BY <1>3, <2>1
  <2> HIDE DEF Ks
  <2>4. CASE Ending(P, k + 1) = {}
    BY <2>2, <2>3, <2>4, PackInvSkip
  <2>5. CASE Ending(P, k + 1) # {} /\ Takes(f[k], At(P, k + 1))
    BY <2>2, <2>3, <2>5, PackInvJoin
  <2>6. CASE Ending(P, k + 1) # {} /\ ~Takes(f[k], At(P, k + 1))
    BY <2>2, <2>3, <2>6, PackInvOpen
  <2> QED  BY <2>4, <2>5, <2>6
<1>7. \A k \in Nat : k \in Ks => k + 1 \in Ks
  BY <1>6
<1>8. n \in Ks
  <2> HIDE DEF Ks
  <2> QED  BY <1>1, <1>5, <1>7, NatSetInduction
<1> QED  BY <1>1, <1>2, <1>8 DEF n

\* Every chunk makes a segment when none of them encodes to nothing.
LEMMA EveryChunkASegment ==
  ASSUME NEW ch \in Seq(Chunk), \A c \in 1..Len(ch) : Encode(Words(ch[c].span)) # <<>>
  PROVE  SegmentsOf(ch) = [c \in 1..Len(ch) |-> Encode(Words(ch[c].span))]
<1> DEFINE n == Len(ch)
           ids(c) == Encode(Words(ch[c].span))
           f == CHOOSE g : g = [c \in 0..n |-> IF c = 0 THEN <<>>
                                               ELSE IF ids(c) = <<>> THEN g[c - 1]
                                               ELSE Append(g[c - 1], ids(c))]
           h == [c \in 0..n |-> [k \in 1..c |-> ids(k)]]
<1>1. n \in Nat
  BY LenProperties
<1>2. SegmentsOf(ch) = f[n]
  BY Zenon DEF SegmentsOf
<1>3. \A c \in 1..n : ids(c) # <<>>
  OBVIOUS
<1> HIDE DEF n, ids
<1>4. \A c \in 1..n : h[c] = Append(h[c - 1], ids(c))
  <2> SUFFICES ASSUME NEW c \in 1..n PROVE h[c] = Append(h[c - 1], ids(c))
    OBVIOUS
  <2> DEFINE s == [k \in 1..(c - 1) |-> ids(k)]
             T == {ids(k) : k \in 1..c}
             t == [k \in 1..c |-> ids(k)]
  <2>1. c - 1 \in Nat /\ c - 1 \in 0..n /\ c \in 0..n /\ (c - 1) + 1 = c
    BY <1>1
  <2>2. s \in Seq(T) /\ Len(s) = c - 1 /\ \A k \in 1..(c - 1) : s[k] = ids(k)
    <3>1. s \in [1..(c - 1) -> T]
      BY <2>1
    <3> QED  BY <2>1, <3>1, LenProperties
  <2>3. h[c - 1] = s /\ h[c] = t
    BY <2>1
  <2>4. ids(c) \in T
    BY <2>1
  <2> HIDE DEF s, h, T
  <2>5. /\ Append(s, ids(c)) \in Seq(T) /\ Len(Append(s, ids(c))) = c
        /\ \A k \in 1..(c - 1) : Append(s, ids(c))[k] = s[k]
        /\ Append(s, ids(c))[c] = ids(c)
    <3>1. /\ Append(s, ids(c)) \in Seq(T) /\ Len(Append(s, ids(c))) = Len(s) + 1
          /\ \A k \in 1..Len(s) : Append(s, ids(c))[k] = s[k]
          /\ Append(s, ids(c))[Len(s) + 1] = ids(c)
      BY <2>2, <2>4, AppendProperties
    <3> QED  BY <2>1, <2>2, <3>1
  <2>6. Append(s, ids(c)) = [k \in 1..c |-> Append(s, ids(c))[k]]
    BY <2>5, LenProperties
  <2>7. \A k \in 1..c : Append(s, ids(c))[k] = ids(k)
    <3>1. \A k \in 1..c : k = c \/ k \in 1..(c - 1)
      BY <2>1
    <3> QED  BY <2>2, <2>5, <3>1
  <2>8. Append(s, ids(c)) = t
    BY <2>6, <2>7
  <2> QED  BY <2>3, <2>8
<1>5. h[0] = <<>>
  <2>1. 1..0 = {} /\ 0 \in 0..n
    BY <1>1
  <2> QED  BY <2>1
<1>6. h = [c \in 0..n |-> h[c]]
  OBVIOUS
<1> HIDE DEF h
<1>7. h = [c \in 0..n |-> IF c = 0 THEN <<>>
                        ELSE IF ids(c) = <<>> THEN h[c - 1] ELSE Append(h[c - 1], ids(c))]
  <2>1. \A c \in 0..n : c = 0 \/ c \in 1..n
    BY <1>1
  <2>2. \A c \in 0..n : h[c] = IF c = 0 THEN <<>>
                               ELSE IF ids(c) = <<>> THEN h[c - 1] ELSE Append(h[c - 1], ids(c))
    BY <1>3, <1>4, <1>5, <2>1
  <2> QED  BY <1>6, <2>2
<1>8. f = [c \in 0..n |-> IF c = 0 THEN <<>>
                        ELSE IF ids(c) = <<>> THEN f[c - 1] ELSE Append(f[c - 1], ids(c))]
  BY <1>7
<1> HIDE DEF f
<1>9. f[0] = <<>> /\ \A c \in 1..n : f[c] = Append(f[c - 1], ids(c))
  <2>1. \A c \in 1..n : c \in 0..n /\ c # 0
    BY <1>1
  <2>2. 0 \in 0..n
    BY <1>1
  <2> QED  BY <1>3, <1>8, <2>1, <2>2
<1> DEFINE Ks == {k \in Nat : k <= n => f[k] = h[k]}
<1>10. 0 \in Ks
  BY <1>5, <1>9
<1>11. ASSUME NEW k \in Nat, k \in Ks, k + 1 <= n PROVE f[k + 1] = h[k + 1]
  <2>1. k + 1 \in 1..n /\ (k + 1) - 1 = k /\ f[k] = h[k]
    BY <1>1, <1>11
  <2>2. f[k + 1] = Append(f[k], ids(k + 1)) /\ h[k + 1] = Append(h[k], ids(k + 1))
    BY <1>4, <1>9, <2>1
  <2> QED  BY <2>1, <2>2
<1>12. \A k \in Nat : k \in Ks => k + 1 \in Ks
  BY <1>11
<1>13. n \in Ks
  <2> HIDE DEF Ks
  <2> QED  BY <1>1, <1>10, <1>12, NatSetInduction
<1>14. f[n] = h[n] /\ n \in 0..n
  BY <1>1, <1>13
<1> QED  BY <1>2, <1>14 DEF h, n, ids

-----------------------------------------------------------------------------
(* The chunks of a whole text.                                             *)

LEMMA ChunkIsPiece ==
  ASSUME text \in Seq(Alphabet), budget \in Budgets, NEW span, IsPiece(span), NEW P, Tiles(span, P),
         NEW ch,
         PackInv(P, ch, Len(text)), NEW c \in 1..Len(ch)
  PROVE  /\ IsPiece(ch[c].span) /\ span[1] <= ch[c].span[1] /\ ch[c].span[2] <= span[2]
         /\ ch[c].span[1] \in Nat /\ ch[c].span[2] \in Nat /\ ch[c].span[1] <= ch[c].span[2]
         /\ ch[c].span = <<ch[c].span[1], ch[c].span[2]>>
         /\ span[1] \in Nat /\ span[2] \in Nat /\ 1 <= span[1] /\ span[2] <= Len(text)
         /\ Len(text) \in Nat
<1> DEFINE s == ch[c].span
<1>0. s = <<s[1], s[2]>> /\ s[1] \in Nat /\ s[2] \in Nat
  BY ChunkTyped DEF PackInv
<1>1. PICK p \in P, q \in P : p[1] = s[1] /\ q[2] = s[2] /\ p[1] <= q[1]
  BY DEF PackInv, FromTo
<1>2. IsPiece(p) /\ IsPiece(q) /\ span[1] <= p[1] /\ q[2] <= span[2]
  BY DEF Tiles
<1>3. /\ p[1] \in Nat /\ 1 <= p[1] /\ text[p[1]] \notin Whitespace
      /\ q[1] \in Nat /\ q[2] \in Nat /\ q[1] <= q[2] /\ q[2] <= Len(text)
      /\ text[q[2]] \notin Whitespace
      /\ span[1] \in Nat /\ span[2] \in Nat /\ 1 <= span[1] /\ span[2] <= Len(text) /\ Len(text) \in Nat
  BY <1>2, PieceFacts
<1> HIDE DEF s
<1>4. s[1] <= s[2] /\ s \in Nat \X Nat
  BY <1>0, <1>1, <1>3
<1>5. IsPiece(s)
  BY <1>1, <1>3, <1>4 DEF IsPiece, Inside
<1> QED  BY <1>0, <1>1, <1>2, <1>3, <1>4, <1>5 DEF s

\* The first chunk begins with the text and the last one ends with it.
LEMMA ChunksSpanTheText ==
  ASSUME text \in Seq(Alphabet), budget \in Budgets, NEW span, IsPiece(span), NEW P, Tiles(span, P),
         NEW ch,
         PackInv(P, ch, Len(text))
  PROVE  /\ Len(ch) \in Nat /\ Len(ch) > 0
         /\ ch[1].span[1] = span[1] /\ ch[Len(ch)].span[2] = span[2]
<1> DEFINE n == Len(text)
           last == Len(ch)
<1>1. ch \in Seq(Chunk) /\ last \in Nat
  BY LenProperties DEF PackInv
<1>2. span[1] \in Nat /\ span[2] \in Nat /\ span[1] <= span[2] /\ span[2] <= n /\ n \in Nat
  BY PieceFacts
<1>3. \A p \in P : p[1] \in Nat /\ p[2] \in Nat /\ span[1] <= p[1] /\ p[2] <= span[2]
  BY PieceFacts DEF Tiles
<1>4. PICK p \in P : span[1] \in p[1]..p[2]
  <2>1. span[1] \in span[1]..span[2] /\ text[span[1]] \notin Whitespace
    BY <1>2, PieceFacts
  <2> QED  BY <2>1 DEF Tiles
<1>5. PICK q \in P : span[2] \in q[1]..q[2]
  <2>1. span[2] \in span[1]..span[2] /\ text[span[2]] \notin Whitespace
    BY <1>2, PieceFacts
  <2> QED  BY <2>1 DEF Tiles
<1> HIDE DEF n, last
<1>6. last > 0
  <2>1. last # 0
    BY <1>2, <1>3, <1>4 DEF PackInv, Covers, n, last
  <2> QED  BY <1>1, <2>1
<1>7. 1 \in 1..last /\ last \in 1..last
  BY <1>1, <1>6
<1>8. /\ ch[1].span[1] \in Nat /\ ch[last].span[2] \in Nat
      /\ span[1] <= ch[1].span[1] /\ ch[last].span[2] <= span[2]
  <2>1. \A c \in 1..last : /\ span[1] <= ch[c].span[1] /\ ch[c].span[2] <= span[2]
                            /\ ch[c].span[1] \in Nat /\ ch[c].span[2] \in Nat
    BY ChunkIsPiece DEF last
  <2> QED  BY <1>7, <2>1
<1>9. ch[1].span[1] <= p[1]
  BY <1>6 DEF PackInv, Covers, last
<1>10. q[2] <= ch[last].span[2]
  <2>1. q[2] <= ch[last].span[2] \/ n < q[2]
    BY <1>6 DEF PackInv, Covers, last, n
  <2> QED  BY <1>2, <1>3, <2>1
<1>11. ch[1].span[1] = span[1]
  BY <1>2, <1>3, <1>4, <1>8, <1>9
<1>12. ch[last].span[2] = span[2]
  BY <1>2, <1>3, <1>5, <1>8, <1>10
<1> QED  BY <1>1, <1>6, <1>11, <1>12 DEF last

\* Between two chunks there is only whitespace.
LEMMA BlanksBetween ==
  ASSUME text \in Seq(Alphabet), budget \in Budgets, NEW span, IsPiece(span), NEW P, Tiles(span, P),
         NEW ch,
         PackInv(P, ch, Len(text)), NEW c \in 1..(Len(ch) - 1),
         NEW i \in (ch[c].span[2] + 1)..(ch[c + 1].span[1] - 1)
  PROVE  text[i] \in Whitespace
<1>1. ch \in Seq(Chunk) /\ Len(ch) \in Nat
  BY LenProperties DEF PackInv
<1>2. c \in 1..Len(ch) /\ c + 1 \in 1..Len(ch)
  BY <1>1
<1> DEFINE e == ch[c].span[2]
           b == ch[c + 1].span[1]
<1>3. /\ e \in Nat /\ b \in Nat /\ span[1] \in Nat /\ span[2] \in Nat
      /\ span[1] <= e /\ b <= span[2]
  <2>1. /\ ch[c].span[1] \in Nat /\ ch[c].span[2] \in Nat /\ ch[c].span[1] <= ch[c].span[2]
        /\ span[1] <= ch[c].span[1] /\ span[1] \in Nat /\ span[2] \in Nat
    BY <1>2, ChunkIsPiece
  <2>2. /\ ch[c + 1].span[1] \in Nat /\ ch[c + 1].span[2] \in Nat
        /\ ch[c + 1].span[1] <= ch[c + 1].span[2]
        /\ ch[c + 1].span[2] <= span[2]
    BY <1>2, ChunkIsPiece
  <2> DEFINE e0 == ch[c].span[1]
             b0 == ch[c + 1].span[2]
  <2>3. e0 \in Nat /\ e \in Nat /\ e0 <= e /\ span[1] <= e0 /\ span[1] \in Nat /\ span[2] \in Nat
    BY <2>1
  <2>4. b0 \in Nat /\ b \in Nat /\ b <= b0 /\ b0 <= span[2]
    BY <2>2
  <2> HIDE DEF e, b, e0, b0
  <2> QED  BY <2>3, <2>4
<1>4. \A p \in P : p[2] <= e \/ b <= p[1]
  BY DEF PackInv, InLine
<1> HIDE DEF e, b
<1>5. i \in (e + 1)..(b - 1)
  BY DEF e, b
<1>6. i \in span[1]..span[2]
  BY <1>3, <1>5
<1>7. ASSUME text[i] \notin Whitespace PROVE FALSE
  <2>1. PICK p \in P : i \in p[1]..p[2]
    BY <1>6, <1>7 DEF Tiles
  <2>2. p[1] \in Nat /\ p[2] \in Nat
    BY PieceFacts DEF Tiles
  <2> QED  BY <1>3, <1>4, <1>5, <2>1, <2>2
<1> QED  BY <1>7

\* When the pieces fit in the first chunk there is no second one.
LEMMA OneChunkIfItFits ==
  ASSUME text \in Seq(Alphabet), budget \in Budgets, NEW span, IsPiece(span), NEW P, Tiles(span, P),
         NEW ch,
         PackInv(P, ch, Len(text)), TokensUpTo(P)[Len(text)] <= Cap(1)
  PROVE  Len(ch) = 1
<1> DEFINE n == Len(text)
           u == TokensUpTo(P)
<1>1. Len(ch) \in Nat /\ Len(ch) > 0 /\ ch \in Seq(Chunk)
  BY ChunksSpanTheText DEF PackInv
<1>2. ASSUME Len(ch) > 1 PROVE FALSE
  <2>1. 1 \in 1..(Len(ch) - 1) /\ 1 \in 1..Len(ch) /\ 1 + 1 \in 1..Len(ch)
    BY <1>1, <1>2
  <2>2. PICK p \in P : p[1] = ch[1 + 1].span[1] /\ ch[1].tokens + Tokens(p) > Cap(1)
    BY <2>1 DEF PackInv, Greedy
  <2> DEFINE b == ch[1].span[1]
             e == ch[1].span[2]
  <2>3. IsPiece(p)
    BY DEF Tiles
  <2>4. /\ p[1] \in Nat /\ p[2] \in Nat /\ 1 <= p[1] /\ p[1] <= p[2] /\ p[2] <= n /\ n \in Nat
        /\ Tokens(p) \in Nat /\ Cap(1) \in Nat
    BY <2>3, PieceFacts, PieceHasTokens, CapIsNat
  <2>5. e < p[1]
    BY <2>1, <2>2 DEF PackInv, InLine
  <2>6. e \in Nat /\ b \in Nat /\ 1 <= b /\ b <= e /\ ch[1].tokens \in Nat
    BY <1>1, <2>1, <2>4, ChunkTyped, ChunkBounds
  <2>7. ch[1].tokens = u[e] - u[b - 1]
    BY <2>1 DEF PackInv, Counted
  <2>8. /\ u \in [0..n -> Nat]
        /\ \A k \in 1..n : u[k] = IF Ending(P, k) = {} THEN u[k - 1] ELSE u[k - 1] + Tokens(At(P, k))
    BY SumFacts
  <2>9. Ending(P, p[2]) # {} /\ p = At(P, p[2])
    <3>1. p \in Ending(P, p[2])
      BY DEF Ending
    <3> QED  BY <3>1, AtFacts
  <2> HIDE DEF n, u, b, e
  <2>10. /\ p[2] \in 1..n /\ p[2] - 1 \in e..n /\ e \in 0..n /\ b - 1 \in 0..n /\ n \in p[2]..n
         /\ p[2] \in 0..n /\ n \in 0..n
    BY <2>4, <2>5, <2>6
  <2>11. u[p[2]] = u[p[2] - 1] + Tokens(p)
    BY <2>8, <2>9, <2>10
  <2>12. u[e] <= u[p[2] - 1]
    BY <2>10, SumGrows DEF u, n
  <2>13. u[p[2]] <= u[n]
    BY <2>10, SumGrows DEF u, n
  <2>14. u[e] \in Nat /\ u[b - 1] \in Nat /\ u[p[2] - 1] \in Nat /\ u[p[2]] \in Nat /\ u[n] \in Nat
    <3>1. p[2] - 1 \in 0..n
      BY <2>4
    <3> QED  BY <2>8, <2>10, <3>1
  <2>15. u[n] <= Cap(1)
    BY DEF u, n
  <2> DEFINE ue == u[e]
             ub == u[b - 1]
             up == u[p[2] - 1]
             uq == u[p[2]]
             un == u[n]
             tok == Tokens(p)
             cap == Cap(1)
             had == ch[1].tokens
  <2>16. /\ ue \in Nat /\ ub \in Nat /\ up \in Nat /\ uq \in Nat /\ un \in Nat /\ tok \in Nat
         /\ cap \in Nat /\ had \in Nat
         /\ had = ue - ub /\ uq = up + tok /\ ue <= up /\ uq <= un /\ un <= cap /\ had + tok > cap
    BY <2>2, <2>4, <2>6, <2>7, <2>11, <2>12, <2>13, <2>14, <2>15
  <2> HIDE DEF ue, ub, up, uq, un, tok, cap, had
  <2> QED  BY <2>16
<1>3. ~(Len(ch) > 1)
  BY <1>2
<1> DEFINE last == Len(ch)
<1>4. last \in Nat /\ last > 0 /\ ~(last > 1)
  BY <1>1, <1>3
<1> HIDE DEF last
<1>5. last = 1
  BY <1>4
<1> QED  BY <1>5 DEF last

LEMMA PackedIsDivided ==
  ASSUME text \in Seq(Alphabet), budget \in Budgets, IsPiece(Whole), NEW P, Tiles(Whole, P), NEW ch,
         PackInv(P, ch, Len(text))
  PROVE  Divided(ch, P, TokensUpTo(P), SegmentsOf(ch))
<1> DEFINE last == Len(ch)
           u == TokensUpTo(P)
           whole == Whole
<1>1. last \in Nat /\ last > 0 /\ ch[1].span[1] = whole[1] /\ ch[last].span[2] = whole[2]
  BY ChunksSpanTheText
<1>2. ASSUME NEW c \in 1..last
      PROVE  /\ \E p, q \in P : p[1] = ch[c].span[1] /\ q[2] = ch[c].span[2] /\ p[1] <= q[1]
             /\ ch[c].span \in P \/ u[ch[c].span[2]] - u[ch[c].span[1] - 1] <= Cap(c)
  <2>1. \E p, q \in P : p[1] = ch[c].span[1] /\ q[2] = ch[c].span[2] /\ p[1] <= q[1]
    BY DEF PackInv, FromTo
  <2>2. ch[c].tokens = u[ch[c].span[2]] - u[ch[c].span[1] - 1]
    BY DEF PackInv, Counted
  <2>3. ch[c].span \in P \/ ch[c].tokens <= Cap(c)
    BY DEF PackInv, WithinCap
  <2> QED  BY <2>1, <2>2, <2>3, Zenon
<1>3. ASSUME NEW c \in 1..(last - 1)
      PROVE  /\ ch[c].span[2] < ch[c + 1].span[1]
             /\ \A i \in (ch[c].span[2] + 1)..(ch[c + 1].span[1] - 1) : text[i] \in Whitespace
             /\ \E p \in P : /\ p[1] = ch[c + 1].span[1]
                             /\ (u[ch[c].span[2]] - u[ch[c].span[1] - 1]) + Tokens(p) > Cap(c)
  <2>1. ch[c].span[2] < ch[c + 1].span[1]
    BY DEF PackInv, InLine
  <2>2. \A i \in (ch[c].span[2] + 1)..(ch[c + 1].span[1] - 1) : text[i] \in Whitespace
    BY BlanksBetween
  <2>3. ch[c].tokens = u[ch[c].span[2]] - u[ch[c].span[1] - 1]
    <3>1. c \in 1..last
      BY <1>1
    <3> QED  BY <3>1 DEF PackInv, Counted
  <2>4. \E p \in P : p[1] = ch[c + 1].span[1] /\ ch[c].tokens + Tokens(p) > Cap(c)
    BY DEF PackInv, Greedy
  <2> QED  BY <2>1, <2>2, <2>3, <2>4, Zenon
<1>4. SegmentsOf(ch) = [c \in 1..last |-> Encode(Words(ch[c].span))]
  <2>1. ch \in Seq(Chunk)
    BY DEF PackInv
  <2>2. \A c \in 1..last : Encode(Words(ch[c].span)) # <<>>
    BY ChunkIsPiece, PieceHasTokens
  <2> QED  BY <2>1, <2>2, EveryChunkASegment
<1>5. ASSUME u[Len(text)] <= Cap(1) PROVE SegmentsOf(ch) = <<Encode(Words(whole))>>
  <2>1. last = 1
    BY <1>5, OneChunkIfItFits
  <2>2. 1 \in 1..Len(ch)
    BY <2>1
  <2>3. ch[1].span = <<ch[1].span[1], ch[1].span[2]>>
    BY <2>2, ChunkIsPiece
  <2>4. whole = <<whole[1], whole[2]>>
    BY PieceFacts
  <2>5. ch[1].span = whole
    BY <1>1, <2>1, <2>3, <2>4
  <2> DEFINE ids == Encode(Words(whole))
  <2>6. SegmentsOf(ch) = [c \in 1..1 |-> Encode(Words(ch[c].span))]
    BY <1>4, <2>1
  <2>7. \A c \in 1..1 : Encode(Words(ch[c].span)) = ids
    BY <2>5
  <2> HIDE DEF ids
  <2>8. SegmentsOf(ch) = [c \in 1..1 |-> ids]
    BY <2>6, <2>7
  <2>9. [c \in 1..1 |-> ids] = <<ids>>
    OBVIOUS
  <2> QED  BY <2>8, <2>9 DEF ids
<1>6. \A i : Blank(i) <=> text[i] \in Whitespace
  BY DEF Blank
<1> QED  BY <1>1, <1>2, <1>3, <1>4, <1>5, <1>6, Zenon DEF Divided

\* A refused text is one of whitespace only, and then nothing is packed.
LEMMA RefusedFacts ==
  ASSUME text \in Seq(Alphabet), budget \in Budgets
  PROVE  /\ ~Refused => IsPiece(Whole)
         /\ Refused => Pieces = {}
<1> DEFINE n == Len(text)
           s == <<1, n>>
           W == {i \in s[1]..s[2] : text[i] \notin Whitespace}
           t == Trim(s)
<1>1. n \in Nat /\ s[1] = 1 /\ s[2] = n
  BY SeqDomain
<1>2. Inside(s)
  BY <1>1 DEF Inside
<1>3. Whole = t
  BY DEF Whole
<1>4. /\ W = {} => t = <<s[1], s[1] - 1>>
      /\ W # {} => IsPiece(t)
  <2> HIDE DEF s
  <2> QED  BY <1>2, TrimFacts
<1> HIDE DEF s, W, t
<1>5. CASE W # {}
  <2>1. IsPiece(t)
    BY <1>4, <1>5
  <2>2. t[1] \in Nat /\ t[2] \in Nat /\ t[1] <= t[2]
    BY <2>1, PieceFacts
  <2>3. Width(t) # 0
    BY <2>2 DEF Width
  <2> QED  BY <1>3, <2>1, <2>3 DEF Refused
<1>6. CASE W = {}
  <2>1. t = <<1, 0>>
    BY <1>1, <1>4, <1>6
  <2>2. Width(t) = 0
    BY <2>1 DEF Width
  <2> DEFINE D == 1..(0 + 1)
             g == [i \in D |-> {0}]
             f == CHOOSE c : c = [i \in D |-> ScanFrom(SentenceMarks, 0, c, i)]
             w == <<1, 0>>
  <2>3. w[1] = 1 /\ w[2] = 0 /\ Whole = w
    BY <1>3, <2>1
  <2>4. \A i \in D : i = 1
    OBVIOUS
  <2> HIDE DEF D, w
  <2>5. \A c : \A i \in D : ScanFrom(SentenceMarks, 0, c, i) = {0}
    BY <2>4 DEF ScanFrom
  <2>6. g = [i \in D |-> ScanFrom(SentenceMarks, 0, g, i)]
    BY <2>5
  <2>7. Cuts(w, SentenceMarks) = f[1]
    BY <2>3 DEF Cuts, ScanFrom, D
  <2> HIDE DEF g
  <2>8. f = [i \in D |-> ScanFrom(SentenceMarks, 0, f, i)]
    BY <2>6
  <2> HIDE DEF f
  <2>9. f[1] = {0}
    <3>1. 1 \in D
      BY DEF D
    <3>2. f[1] = ScanFrom(SentenceMarks, 0, f, 1)
      BY <2>8, <3>1
    <3> QED  BY <2>5, <3>1, <3>2
  <2>10. Cuts(w, SentenceMarks) = {0}
    BY <2>7, <2>9
  <2>11. Max({w[1] - 1} \cup {c \in {0} : c < 0}) = 0
    <3>1. {w[1] - 1} \cup {c \in {0} : c < 0} = {0}
      BY <2>3
    <3>2. Max({0}) = 0
      BY DEF Max
    <3> QED  BY <3>1, <3>2
  <2>12. \A piece \in Between(w, {0}) : piece = t
    <3> SUFFICES ASSUME NEW piece \in Between(w, {0}) PROVE piece = t
      OBVIOUS
    <3>1. PICK e \in {0} : piece = Trim(<<Max({w[1] - 1} \cup {c \in {0} : c < e}) + 1, e>>)
      BY DEF Between
    <3>2. e = 0
      OBVIOUS
    <3>3. piece = Trim(<<0 + 1, 0>>)
      BY <2>11, <3>1, <3>2
    <3>4. Trim(<<0 + 1, 0>>) = <<0 + 1, 0 + 1 - 1>>
      <4> DEFINE V == {i \in (0 + 1)..0 : ~Blank(i)}
      <4>1. V = {}
        OBVIOUS
      <4> QED  BY <4>1 DEF Trim
    <3> QED  BY <2>1, <3>3, <3>4
  <2>13. Split(w, SentenceMarks) = {}
    BY <2>2, <2>10, <2>12 DEF Split
  <2>14. Pieces = {}
    BY <2>3, <2>13 DEF Pieces, Sentences
  <2>15. Refused
    BY <1>3, <2>2 DEF Refused
  <2> QED  BY <2>14, <2>15
<1> QED  BY <1>5, <1>6

\* Where nothing was found to pack, nothing is packed.
LEMMA NothingPacked ==
  ASSUME text \in Seq(Alphabet), budget \in Budgets, Pieces = {}
  PROVE  Chunks = <<>>
<1>1. Tiles(<<1, 0>>, {})
  <2>1. 1..0 = {}
    OBVIOUS
  <2> QED  BY <2>1 DEF Tiles
<1>2. PackInv({}, Chunks, Len(text))
  BY <1>1, ChunksArePacked
<1>3. Chunks \in Seq(Chunk) /\ \A c \in 1..Len(Chunks) : FALSE
  BY <1>2 DEF PackInv, FromTo
<1>4. Len(Chunks) = 0
  <2>1. Len(Chunks) \in Nat
    BY <1>3, LenProperties
  <2> DEFINE last == Len(Chunks)
  <2> HIDE DEF last
  <2>2. last \in Nat /\ \A c \in 1..last : FALSE
    BY <1>3, <2>1 DEF last
  <2>3. last # 0 => 1 \in 1..last
    BY <2>2
  <2> QED  BY <2>2, <2>3 DEF last
<1> QED  BY <1>3, <1>4, EmptySeq

\* For every text and every pair of budgets, however Encode counts, the chunks
\* are those that the greedy rule promises over the pieces that the two cutting
\* rules promise, and nothing of the text is lost or repeated between them.
THEOREM ChunksKeepThePromise ==
  Spec => []ChunksAreGreedy
<1>1. Written => ChunksAreGreedy
  <2> SUFFICES ASSUME Written PROVE ChunksAreGreedy
    OBVIOUS
  <2>1. text \in Seq(Alphabet) /\ budget \in Budgets
    BY DEF Written
  <2>2. CASE Refused
    <3>1. Pieces = {}
      BY <2>1, <2>2, RefusedFacts
    <3>2. Chunks = <<>>
      BY <2>1, <3>1, NothingPacked
    <3>3. \E chunks \in {Chunks}, pieces \in {Promised} : chunks = <<>>
      BY <3>2, Zenon
    <3> QED  BY <2>2, <3>3, Zenon DEF ChunksAreGreedy
  <2>3. CASE ~Refused
    <3>1. IsPiece(Whole)
      BY <2>1, <2>3, RefusedFacts
    <3>2. Pieces = Promised /\ Tiles(Whole, Promised)
      BY <2>1, <3>1, PiecesArePromised
    <3>3. PackInv(Promised, Chunks, Len(text))
      BY <2>1, <3>2, ChunksArePacked
    <3>4. Divided(Chunks, Promised, TokensUpTo(Promised), SegmentsOf(Chunks))
      BY <2>1, <3>1, <3>2, <3>3, PackedIsDivided
    <3> QED  BY <2>3, <3>4, Zenon DEF ChunksAreGreedy
  <2> QED  BY <2>2, <2>3
<1> QED  BY <1>1, WrittenAlways, PTL
==============================================================================
