------------------------------ MODULE TextSegment ------------------------------
(*************************************************************************)
(* src/src/text_segment.c: a text is cut after its sentences, an         *)
(* oversized sentence after its clauses, the pieces are packed greedily  *)
(* into chunks under a budget of tokens, and each chunk is encoded on    *)
(* its own.  A span is a pair <<first, last>> of positions of the text.  *)
(*                                                                       *)
(* The state machine only supplies the inputs: a text grows by one       *)
(* character at a time, under each pair of budgets.                      *)
(*************************************************************************)
EXTENDS SentencePiece

CONSTANTS
  Whitespace,      \* what seg_space accepts
  SentenceMarks, ClauseMarks, Closers,
  Alphabet,        \* characters of the texts
  MaxLength,       \* bound: the longest text
  Budgets          \* pairs <<max_tokens, first_max_tokens>>

ASSUME SegmentAssumption ==
  /\ Space \in Whitespace
  /\ Whitespace \cap (SentenceMarks \cup ClauseMarks \cup Closers) = {}
  /\ Alphabet \subseteq DOMAIN BytesOf
  /\ Budgets \subseteq (Nat \ {0}) \X Nat

VARIABLES text, budget

vars == <<text, budget>>

-----------------------------------------------------------------------------
(* Cutting *)

Blank(i) == text[i] \in Whitespace

Width(span) == span[2] - span[1] + 1

(* Without the whitespace at its ends; an empty span comes out empty. *)
Trim(span) ==
  LET words == {i \in span[1]..span[2] : ~Blank(i)}
  IN  IF words = {} THEN <<span[1], span[1] - 1>> ELSE <<Min(words), Max(words)>>

Words(span) == SubSeq(text, span[1], span[2])

Tokens(span) == Len(Encode(Words(span)))

(* The first position at or after i that is neither a mark nor a closer. *)
RunEnd(marks, i, last) ==
  LET after == {j \in i..last : text[j] \notin marks \cup Closers}
  IN  IF after = {} THEN last + 1 ELSE Min(after)

(* Where the scan of seg_split cuts a span: after a run that starts with a
   mark and that whitespace or the end follows; and at its end. *)
Cuts(span, marks) ==
  LET last == span[2]
      cuts[i \in span[1]..(last + 1)] ==
        IF i > last THEN {last}
        ELSE IF text[i] \notin marks THEN cuts[i + 1]
        ELSE LET j == RunEnd(marks, i, last)
             IN  (IF j > last \/ Blank(j) THEN {j - 1} ELSE {}) \cup cuts[j]
  IN  cuts[span[1]]

(* The spans that end at the cuts, each from after the cut before it, trimmed. *)
Between(span, cuts) ==
  {Trim(<<Max({span[1] - 1} \cup {c \in cuts : c < e}) + 1, e>>) : e \in cuts}

(* The pieces of a span, the empty ones left out.  A set: they are pushed, and
   taken, in the order of their positions. *)
Split(span, marks) == {piece \in Between(span, Cuts(span, marks)) : Width(piece) > 0}

-----------------------------------------------------------------------------
(* Packing *)

MaxTokens == budget[1]
FirstMaxTokens == IF budget[2] = 0 THEN budget[1] ELSE budget[2]

(* mynah_text_segment refuses a text of whitespace. *)
Whole == Trim(<<1, Len(text)>>)
Refused == Width(Whole) = 0

Sentences == Split(Whole, SentenceMarks)

(* An oversized sentence in which nothing cuts is kept whole. *)
PiecesOf(sentence) ==
  LET clauses == Split(sentence, ClauseMarks)
  IN  IF Tokens(sentence) > MaxTokens /\ Cardinality(clauses) > 1 THEN clauses ELSE {sentence}

Pieces == UNION {PiecesOf(sentence) : sentence \in Sentences}

Cap(chunk) == IF chunk = 1 THEN FirstMaxTokens ELSE MaxTokens

\* Mutant: the budget is that of the chunk about to be opened.
PackByNext(chunks, piece) ==
  LET here == Len(chunks)
      cost == Tokens(piece)
  IN  IF here > 0 /\ chunks[here].tokens + cost <= Cap(here + 1)
      THEN [chunks EXCEPT ![here] = [span |-> <<@.span[1], piece[2]>>, tokens |-> @.tokens + cost]]
      ELSE Append(chunks, [span |-> piece, tokens |-> cost])

(* A chunk while it is packed: its span and the sum of its pieces' tokens. *)
Pack(chunks, piece) ==
  LET here == Len(chunks)
      cost == Tokens(piece)
  IN  IF here > 0 /\ chunks[here].tokens + cost <= Cap(here)
      THEN [chunks EXCEPT ![here] = [span |-> <<@.span[1], piece[2]>>, tokens |-> @.tokens + cost]]
      ELSE Append(chunks, [span |-> piece, tokens |-> cost])

Ending(pieces, i) == {piece \in pieces : piece[2] = i}

Chunks ==
  LET pieces == Pieces
      packed[i \in 0..Len(text)] ==
        IF i = 0 THEN <<>>
        ELSE IF Ending(pieces, i) = {} THEN packed[i - 1]
        ELSE Pack(packed[i - 1], CHOOSE piece \in Ending(pieces, i) : TRUE)
  IN  packed[Len(text)]

(* A chunk that encodes to nothing makes no segment. *)
SegmentsOf(chunks) ==
  LET made[c \in 0..Len(chunks)] ==
        IF c = 0 THEN <<>>
        ELSE LET ids == Encode(Words(chunks[c].span))
             IN  IF ids = <<>> THEN made[c - 1] ELSE Append(made[c - 1], ids)
  IN  made[Len(chunks)]

-----------------------------------------------------------------------------
(* The inputs *)

Init == text = <<>> /\ budget \in Budgets

Write(char) == Len(text) < MaxLength /\ text' = Append(text, char) /\ UNCHANGED budget

Next == \E char \in Alphabet : Write(char)

Spec == Init /\ [][Next]_vars

-----------------------------------------------------------------------------
(* The ids of a text are those of a way to spell it whose score no other way
   beats, and they fit in the buffer that mynah_sp_encode sized beforehand by
   the bytes of the normalised text (tokenizer_sentencepiece.c:1101-1121). *)
EncodingIsBest ==
  LET chars == Normalized(text)
      ways == Ways(chars)
  IN  /\ \E way \in ways : way.ids = Encode(text) /\ \A other \in ways : other.score <= way.score
      /\ Len(Encode(text)) <= IdBound(chars)

(* Where a cut is allowed after position i, said of the text and not of a scan:
   the marks and closers that end there include a mark, and whitespace or the
   end follows. *)
Allowed(span, marks, i) ==
  /\ i = span[2] \/ Blank(i + 1)
  /\ \E m \in span[1]..i : text[m] \in marks /\ \A k \in m..i : text[k] \in marks \cup Closers

Ends(span, marks) == {i \in span[1]..span[2] : Allowed(span, marks, i)} \cup {span[2]}

(* The pieces that the two rules promise, from the text and not from a scan. *)
Promised ==
  UNION {IF Tokens(sentence) > MaxTokens THEN Between(sentence, Ends(sentence, ClauseMarks))
         ELSE {sentence} : sentence \in Between(Whole, Ends(Whole, SentenceMarks))}

(* The tokens of the pieces that end at or before a position, counted one by one. *)
TokensUpTo(pieces) ==
  LET upto[i \in 0..Len(text)] ==
        IF i = 0 THEN 0
        ELSE IF Ending(pieces, i) = {} THEN upto[i - 1]
        ELSE upto[i - 1] + Tokens(CHOOSE piece \in Ending(pieces, i) : TRUE)
  IN  upto

(* The chunks cut the text where the pieces allow, greedily, by the tokens up to
   each position; each of them makes one of the segments. *)
Divided(chunks, pieces, upto, segments) ==
  LET last == Len(chunks)
      span(c) == chunks[c].span
      cost(c) == upto[span(c)[2]] - upto[span(c)[1] - 1]
  IN  /\ last > 0 /\ span(1)[1] = Whole[1] /\ span(last)[2] = Whole[2]
      /\ \A c \in 1..last :
           /\ \E p, q \in pieces : p[1] = span(c)[1] /\ q[2] = span(c)[2] /\ p[1] <= q[1]
           /\ span(c) \in pieces \/ cost(c) <= Cap(c)
      /\ \A c \in 1..(last - 1) :
           /\ span(c)[2] < span(c + 1)[1]
           /\ \A i \in (span(c)[2] + 1)..(span(c + 1)[1] - 1) : Blank(i)
           /\ \E p \in pieces : p[1] = span(c + 1)[1] /\ cost(c) + Tokens(p) > Cap(c)
      /\ segments = [c \in 1..last |-> Encode(Words(span(c)))]
      /\ upto[Len(text)] <= Cap(1) => segments = <<Encode(Words(Whole))>>

(* The text is divided into the chunks that the greedy rule promises: no word
   is lost, repeated or cut where neither rule cuts, a chunk of more than one
   piece is within its budget by the count of its pieces, no chunk could have
   taken the next piece as well, every chunk makes a segment, and a text whose
   pieces fit in one chunk makes one segment with the ids of the trimmed text
   (text_segment.h:25-27). The four values are bound so that each is computed
   once. *)
ChunksAreGreedy ==
  \E chunks \in {Chunks}, pieces \in {Promised} :
    IF Refused THEN chunks = <<>>
    ELSE \E upto \in {TokensUpTo(pieces)}, segments \in {SegmentsOf(chunks)} :
           Divided(chunks, pieces, upto, segments)

=============================================================================
