----------------------------- MODULE SentencePiece -----------------------------
(*************************************************************************)
(* The unigram encoder of src/src/tokenizer_sentencepiece.c: a text is   *)
(* normalised, a lattice of dictionary pieces is laid over it, and the   *)
(* ids of the best path are returned.  A text is a sequence of           *)
(* characters, a character a value of its own; what the code needs of    *)
(* its bytes is their number, BytesOf.  Scores are integers.             *)
(*                                                                       *)
(* Only operators: the lattice of sp_viterbi is looked at from the end   *)
(* of each edge, and the back pointers it follows afterwards are         *)
(* replaced by the ids of the path that each position keeps.             *)
(*************************************************************************)
EXTENDS Integers, SequencesExt

CONSTANTS
  Dictionary,    \* the pieces in id order: [spelling, score, type]
  BytesOf,       \* [character -> bytes of its UTF-8 form]
  Space,         \* 0x20, the only character that is escaped
  Escaped,       \* U+2581, what it becomes
  Invalid,       \* a byte that starts no valid character
  Replacement,   \* U+FFFD, what that becomes
  DummyPrefix, EscapeSpaces, ByteFallback   \* NormalizerSpec and TrainerSpec

Normal == "normal"
UserDefined == "user_defined"
Unused == "unused"
Reserved == {"unknown", "control", "byte"}

Types == {Normal, UserDefined, Unused} \cup Reserved

ASSUME DictionaryAssumption ==
  /\ Dictionary \in Seq([spelling : Seq(DOMAIN BytesOf) \ {<<>>}, score : Int, type : Types])
  /\ \E id \in DOMAIN Dictionary : Dictionary[id].type = Normal

ASSUME BytesAssumption ==
  /\ {Space, Escaped, Replacement} \subseteq DOMAIN BytesOf /\ Space # Invalid
  /\ \A char \in DOMAIN BytesOf : BytesOf[char] \in Nat \ {0}

-----------------------------------------------------------------------------
(* Normalisation *)

NormalForm(char) ==
  CASE char = Invalid -> Replacement
    [] char = Space /\ EscapeSpaces -> Escaped
    [] OTHER -> char

Prefix == IF DummyPrefix THEN <<NormalForm(Space)>> ELSE <<>>

(* An empty text returns before the prefix is added. *)
Normalized(text) ==
  IF text = <<>> THEN <<>> ELSE Prefix \o [i \in DOMAIN text |-> NormalForm(text[i])]

-----------------------------------------------------------------------------
(* The table: of equal spellings the first is found, even when its type
   makes it useless to the lattice. *)

Segmentable == {id \in DOMAIN Dictionary : Dictionary[id].type \notin Reserved}

Index ==
  [spelling \in {Dictionary[id].spelling : id \in Segmentable} |->
     Min({id \in Segmentable : Dictionary[id].spelling = spelling})]

Usable == {spelling \in DOMAIN Index : Dictionary[Index[spelling]].type # Unused}

(* A word of the lattice is a usable piece, or the one character that is no
   usable piece by itself. *)
IsUnknown(word) == Len(word) = 1 /\ word \notin Usable
IsEdge(word) == word \in Usable \/ IsUnknown(word)

UnknownScore ==
  Min({Dictionary[id].score : id \in {d \in DOMAIN Dictionary : Dictionary[d].type = Normal}}) - 10

PieceScore(id, length) ==
  IF Dictionary[id].type = UserDefined THEN 10 * length ELSE Dictionary[id].score

ScoreOf(word) ==
  IF IsUnknown(word) THEN UnknownScore
  ELSE PieceScore(Index[word], Len(word))

(* The ids a word costs: its own, or one per byte of an unknown character. *)
IdsOf(word) ==
  IF ~IsUnknown(word) THEN <<Index[word]>>
  ELSE IF ByteFallback THEN [b \in 1..BytesOf[word[1]] |-> <<"byte", word[1], b>>]
  ELSE << <<"unknown">> >>

-----------------------------------------------------------------------------
(* The search *)

Start == [score |-> 0, ids |-> <<>>]

Origins(chars, at) == {c \in 0..(at - 1) : IsEdge(SubSeq(chars, c + 1, at))}

\* Mutant: the longest word that ends here, as a greedy tokenizer takes it.
ReachedByLongest(best, chars, at) ==
  LET longest == Min(Origins(chars, at))
      word == SubSeq(chars, longest + 1, at)
  IN  [score |-> best[longest + 1].score + ScoreOf(word),
       ids |-> best[longest + 1].ids \o IdsOf(word)]

(* best[c + 1] is what position c can be reached with.  Of its origins a
   position keeps the best; a later one replaces an earlier one only with a
   strictly better score. *)
Reached(best, chars, at) ==
  LET origins == Origins(chars, at)
      score == [c \in origins |-> best[c + 1].score + ScoreOf(SubSeq(chars, c + 1, at))]
      most == Max({score[c] : c \in origins})
      winner == Min({c \in origins : score[c] = most})
  IN  [score |-> most, ids |-> best[winner + 1].ids \o IdsOf(SubSeq(chars, winner + 1, at))]

Viterbi(chars) ==
  LET best[at \in 0..Len(chars)] ==
        IF at = 0 THEN <<Start>>
        ELSE LET before == best[at - 1] IN Append(before, Reached(before, chars, at))
  IN  best[Len(chars)]

Encode(text) == LET chars == Normalized(text) IN Last(Viterbi(chars)).ids

-----------------------------------------------------------------------------
(* What the search is for, without a lattice *)

(* Every way to spell chars in words of the lattice: its score and its ids. *)
Ways(chars) ==
  LET rest[from \in 0..Len(chars)] ==
        IF from = Len(chars) THEN {Start}
        ELSE UNION {{[score |-> ScoreOf(SubSeq(chars, from + 1, at)) + way.score,
                      ids |-> IdsOf(SubSeq(chars, from + 1, at)) \o way.ids] : way \in rest[at]} :
                      at \in {j \in (from + 1)..Len(chars) : IsEdge(SubSeq(chars, from + 1, j))}}
  IN  rest[0]

(* The buffer mynah_sp_encode allocates: one id per normalised byte. *)
IdBound(chars) ==
  LET bytes[k \in 0..Len(chars)] == IF k = 0 THEN 0 ELSE bytes[k - 1] + BytesOf[chars[k]]
  IN  bytes[Len(chars)]

=============================================================================
