------------------------- MODULE StreamDeliverProofs -------------------------
(***************************************************************************)
(* Theorems about one streaming response, for any number of streams, any   *)
(* capacity of the ring and any sizes of chunks; and about streams that    *)
(* helper threads deliver, for any number of lanes and items.              *)
(***************************************************************************)
EXTENDS StreamDeliver, SequenceTheorems, TLAPS

-----------------------------------------------------------------------------
(* The inductive invariant, in parts that speak of one stream each.        *)

\* the writer may still read the ring
Reading(s) == writer[s] \in {"none", "header", "loop", "asleep", "send"}

\* the writer has left its loop for good
Left(s) == writer[s] \in {"ended", "terminate", "close", "release", "gone"}

\* samples of spans that have been handed back to the producer
HandedBack(s) == Len(wire[s]) - (IF writer[s] = "send" THEN sent[s] ELSE 0)

\* The span is the front of the ring, and does not wrap.
SpanFits(s) ==
  writer[s] = "send" => /\ span[s] \in 1..queued[s] /\ sent[s] \in 0..span[s]
                        /\ head[s] + span[s] <= Cap
                        /\ sent[s] <= Len(wire[s])

\* The ring holds what was accepted and not handed back, in order.
RingHolds(s) ==
  Reading(s) =>
    /\ Len(accepted[s]) = HandedBack(s) + queued[s]
    /\ \A i \in 0..(queued[s] - 1) :
         ring[s][(head[s] + i) % Cap] = accepted[s][HandedBack(s) + i + 1]

WireIsPrefix(s) ==
  /\ Len(wire[s]) <= Len(accepted[s])
  /\ \A i \in 1..Len(wire[s]) : wire[s][i] = accepted[s][i]

\* A writer that leaves leaves nothing unsent, unless the stream failed; and no
\* chunk is accepted afterwards.
NothingUnsent(s) ==
  /\ failed[s] => producerDone[s]
  /\ Left(s) => producerDone[s]
  /\ writer[s] = "ended" /\ ~failed[s] => Len(wire[s]) = Len(accepted[s])
  /\ writer[s] = "terminate" => Len(wire[s]) = Len(accepted[s])
  /\ term[s] => /\ writer[s] \in {"close", "release", "gone"}
                /\ Len(wire[s]) = Len(accepted[s])

RingInv(s) == SpanFits(s) /\ RingHolds(s) /\ WireIsPrefix(s) /\ NothingUnsent(s)

\* Only the sink's end, or a failure, ends the producer's side; the socket is the
\* stream's until the writer closes it; a hangup was one.
SinkInv(s) ==
  /\ producerDone[s] => failed[s] \/ phase[s] \in {"finished", "released"}
  /\ writer[s] = "none" <=> phase[s] \in {"new", "rejected"}
  /\ fd[s] = "closed" => writer[s] \in {"release", "gone"} \/ phase[s] = "rejected"
  /\ err[s] = "hangup" => peer[s] = "gone"
  /\ reason[s] = "peer_gone" => peer[s] = "gone"

\* One reference for the writer's thread, one for the sink.
RefsExact(s) ==
  refs[s] = (IF writer[s] \in {"none", "gone"} THEN 0 ELSE 1)
              + (IF phase[s] \in {"running", "polled", "stopping", "finished"} THEN 1 ELSE 0)

StreamInv ==
  /\ TypeOK
  /\ \A s \in Streams : RingInv(s) /\ SinkInv(s) /\ RefsExact(s)

-----------------------------------------------------------------------------
(* Arithmetic of the ring, and sequences.                                  *)

\* A position in the ring is a cell; one round further it is the same cell.
LEMMA Round ==
  ASSUME NEW k \in Nat \ {0}, NEW x \in 0..(k - 1)
  PROVE  x % k = x /\ (x + k) % k = x
OBVIOUS

\* The cell that is b places after cell a.
LEMMA Wrapped ==
  ASSUME NEW a \in 0..(Cap - 1), NEW b \in 0..Cap
  PROVE  (a + b) % Cap = IF a + b < Cap THEN a + b ELSE a + b - Cap
<1>1. Cap \in Nat \ {0}
  BY StreamAssumption
<1>2. CASE a + b < Cap
  <2>1. a + b \in 0..(Cap - 1)
    BY <1>1, <1>2
  <2> QED  BY <1>1, <1>2, <2>1, Round
<1>3. CASE a + b >= Cap
  <2>1. a + b - Cap \in 0..(Cap - 1) /\ (a + b - Cap) + Cap = a + b
    BY <1>1, <1>3
  <2> QED  BY <1>1, <1>3, <2>1, Round
<1> QED  BY <1>1, <1>2, <1>3

\* What the ring's other streams keep: everything.
Same(u) ==
  /\ peer'[u] = peer[u] /\ wire'[u] = wire[u] /\ term'[u] = term[u] /\ fd'[u] = fd[u]
  /\ ring'[u] = ring[u] /\ head'[u] = head[u] /\ queued'[u] = queued[u]
  /\ producerDone'[u] = producerDone[u] /\ failed'[u] = failed[u] /\ err'[u] = err[u]
  /\ refs'[u] = refs[u] /\ writer'[u] = writer[u] /\ span'[u] = span[u] /\ sent'[u] = sent[u]
  /\ phase'[u] = phase[u] /\ reason'[u] = reason[u] /\ accepted'[u] = accepted[u]

LEMMA SameKeeps ==
  ASSUME NEW u, RingInv(u), SinkInv(u), Same(u)
  PROVE  RingInv(u)' /\ SinkInv(u)' /\ (RefsExact(u) => RefsExact(u)')
<1> USE DEF Same
<1>1. RingInv(u)'
  BY DEF RingInv, SpanFits, RingHolds, WireIsPrefix, NothingUnsent, Reading, Left, HandedBack
<1>2. SinkInv(u)'
  BY DEF SinkInv
<1>3. RefsExact(u) => RefsExact(u)'
  BY DEF RefsExact
<1> QED  BY <1>1, <1>2, <1>3

-----------------------------------------------------------------------------
(* Each critical section keeps the ring's invariant.                       *)

\* A chunk goes behind what is queued: no cell of the queue changes.
LEMMA TakeCells ==
  ASSUME TypeOK, NEW s \in Streams, NEW chunk \in Seq(Nat), Take(s, chunk)
  PROVE  /\ \A i \in 0..(queued[s] - 1) :
              ring'[s][(head[s] + i) % Cap] = ring[s][(head[s] + i) % Cap]
         /\ \A i \in queued[s]..(queued[s] + Len(chunk) - 1) :
              ring'[s][(head[s] + i) % Cap] = chunk[i - queued[s] + 1]
         /\ ring'[s] \in [0..(Cap - 1) -> Nat]
<1> DEFINE n == Len(chunk)
           tail == (head[s] + queued[s]) % Cap
           nth(i) == ((i - tail) + Cap) % Cap
<1>1. /\ Cap \in Nat \ {0} /\ n \in Nat /\ n <= Cap - queued[s]
      /\ head[s] \in 0..(Cap - 1) /\ queued[s] \in 0..Cap
  BY StreamAssumption DEF TypeOK, Take, Fits
<1>2. tail = IF head[s] + queued[s] < Cap THEN head[s] + queued[s] ELSE head[s] + queued[s] - Cap
  BY <1>1, Wrapped
<1>10. tail \in 0..(Cap - 1)
  <2>1. PICK h \in 0..(Cap - 1) : h = head[s]
    BY <1>1
  <2>2. PICK q \in 0..Cap : q = queued[s]
    BY <1>1
  <2>3. tail = IF h + q < Cap THEN h + q ELSE h + q - Cap
    BY <1>2, <2>1, <2>2
  <2> HIDE DEF tail
  <2> QED  BY <1>1, <2>3
<1> HIDE DEF tail
<1>3. \A c \in 0..(Cap - 1) : /\ c < tail => nth(c) = c - tail + Cap
                              /\ c >= tail => nth(c) = c - tail
  <2>1. TAKE c \in 0..(Cap - 1)
  <2>2. tail \in 0..(Cap - 1)
    BY <1>10
  <2>3. ASSUME c < tail PROVE nth(c) = c - tail + Cap
    <3>1. (c - tail) + Cap \in 0..(Cap - 1)
      BY <1>1, <2>2, <2>3
    <3> QED  BY <1>1, <2>3, <3>1, Round
  <2>4. ASSUME c >= tail PROVE nth(c) = c - tail
    <3>1. c - tail \in 0..(Cap - 1)
      BY <1>1, <2>2, <2>4
    <3> QED  BY <1>1, <2>2, <2>4, <3>1, Round
  <2> QED  BY <2>3, <2>4
<1>4. \A c \in 0..(Cap - 1) :
        ring'[s][c] = IF nth(c) < n THEN chunk[nth(c) + 1] ELSE ring[s][c]
  BY DEF Take, TypeOK, tail
<1> HIDE DEF nth, n
<1>5. ASSUME NEW i \in 0..(queued[s] + n - 1)
      PROVE  /\ (head[s] + i) % Cap \in 0..(Cap - 1)
             /\ i < queued[s] => ~(nth((head[s] + i) % Cap) < n)
             /\ i >= queued[s] => nth((head[s] + i) % Cap) = i - queued[s]
  <2>1. i \in 0..Cap
    BY <1>1
  <2> DEFINE c == (head[s] + i) % Cap
  <2>2. c = IF head[s] + i < Cap THEN head[s] + i ELSE head[s] + i - Cap
    BY <1>1, <2>1, Wrapped
  <2> HIDE DEF c
  <2>3. c \in 0..(Cap - 1)
    <3>1. PICK a \in 0..(Cap - 1) : a = head[s]
      BY <1>1
    <3>2. c = IF a + i < Cap THEN a + i ELSE a + i - Cap
      BY <2>2, <3>1
    <3> QED  BY <1>1, <2>1, <3>2
  <2>4. (c < tail => nth(c) = c - tail + Cap) /\ (c >= tail => nth(c) = c - tail)
    BY <1>3, <2>3
  <2> DEFINE h == head[s]  q == queued[s]
  <2>7. /\ h \in Int /\ q \in Int /\ i \in Int /\ n \in Int /\ Cap \in Int
        /\ 0 <= h /\ h < Cap /\ 0 <= q /\ n <= Cap - q /\ 0 <= i /\ i < q + n
    BY <1>1
  <2>8. (h + q < Cap /\ tail = h + q) \/ (h + q >= Cap /\ tail = h + q - Cap)
    BY <1>2, <2>7
  <2>9. (h + i < Cap /\ c = h + i) \/ (h + i >= Cap /\ c = h + i - Cap)
    BY <2>2, <2>7
  <2> HIDE DEF h, q
  <2>5. i < q => ~(nth(c) < n)
    BY <2>4, <2>7, <2>8, <2>9
  <2>6. i >= q => nth(c) = i - q
    BY <2>4, <2>7, <2>8, <2>9
  <2> QED  BY <2>3, <2>5, <2>6 DEF c, q
<1>6. ASSUME NEW i \in 0..(queued[s] - 1)
      PROVE  ring'[s][(head[s] + i) % Cap] = ring[s][(head[s] + i) % Cap]
  <2>1. i \in 0..(queued[s] + n - 1) /\ i < queued[s]
    BY <1>1
  <2> QED  BY <1>4, <1>5, <2>1
<1>7. ASSUME NEW i \in queued[s]..(queued[s] + n - 1)
      PROVE  ring'[s][(head[s] + i) % Cap] = chunk[i - queued[s] + 1]
  <2>1. i \in 0..(queued[s] + n - 1) /\ i >= queued[s] /\ i - queued[s] < n
    BY <1>1
  <2> QED  BY <1>4, <1>5, <2>1
<1>8. ring'[s] \in [0..(Cap - 1) -> Nat]
  <2>1. ring[s] \in [0..(Cap - 1) -> Nat] /\ DOMAIN ring'[s] = 0..(Cap - 1)
    BY DEF TypeOK, Take
  <2>2. ring'[s] = [c \in 0..(Cap - 1) |-> IF nth(c) < n THEN chunk[nth(c) + 1] ELSE ring[s][c]]
    BY DEF Take, TypeOK, tail, nth, n
  <2>3. ASSUME NEW c \in 0..(Cap - 1) PROVE ring'[s][c] \in Nat
    <3>1. CASE nth(c) < n
      <4>1. nth(c) \in Nat
        <5>1. tail \in 0..(Cap - 1)
          BY <1>1, <1>2
        <5>2. c < tail \/ c >= tail
          BY <5>1
        <5> QED  BY <1>1, <1>3, <5>1, <5>2
      <4>2. nth(c) + 1 \in 1..Len(chunk)
        BY <1>1, <3>1, <4>1 DEF n
      <4>3. chunk[nth(c) + 1] \in Nat
        BY <4>2, ElementOfSeq
      <4> QED  BY <1>4, <3>1, <4>3
    <3>2. CASE ~(nth(c) < n)
      BY <1>4, <2>1, <3>2
    <3> QED  BY <3>1, <3>2
  <2> QED  BY <2>2, <2>3
<1> QED  BY <1>6, <1>7, <1>8 DEF n

LEMMA TakeKeeps ==
  ASSUME TypeOK, NEW s \in Streams, RingInv(s), NEW chunk \in Seq(Nat), Take(s, chunk),
         UNCHANGED <<wire, term, span, sent>>
  PROVE  RingInv(s)'
<1> DEFINE n == Len(chunk)
<1>1. /\ n \in Nat /\ queued'[s] = queued[s] + n /\ queued[s] \in 0..Cap /\ Cap \in Nat
      /\ accepted'[s] = accepted[s] \o chunk
      /\ writer'[s] = (IF writer[s] = "asleep" THEN "loop" ELSE writer[s])
      /\ head' = head /\ flags' = flags /\ ~failed[s] /\ ~producerDone[s]
  <2>1. /\ queued' = [queued EXCEPT ![s] = @ + n] /\ writer' = Woken(s)
        /\ accepted' = [accepted EXCEPT ![s] = @ \o chunk]
        /\ head' = head /\ flags' = flags /\ ~failed[s] /\ ~producerDone[s]
    BY DEF Take
  <2>2. n \in Nat /\ Cap \in Nat
    BY StreamAssumption, LenProperties
  <2> QED  BY <2>1, <2>2 DEF TypeOK, Woken
<1>2. /\ Len(accepted[s]) \in Nat /\ Len(wire[s]) \in Nat /\ sent[s] \in Nat
      /\ Len(accepted'[s]) = Len(accepted[s]) + n
      /\ \A i \in 1..Len(accepted[s]) : accepted'[s][i] = accepted[s][i]
      /\ \A i \in 1..n : accepted'[s][Len(accepted[s]) + i] = chunk[i]
  <2>1. accepted[s] \in Seq(Nat) /\ wire[s] \in Seq(Nat) /\ sent[s] \in Nat
    BY DEF TypeOK
  <2> QED  BY <1>1, <2>1, ConcatProperties, LenProperties
<1> HIDE DEF n
<1>3. ~Left(s) /\ Reading(s) /\ ~Left(s)' /\ Reading(s)'
  <2>1. ~Left(s)
    BY <1>1 DEF RingInv, NothingUnsent
  <2>2. writer[s] \in WriterStates
    BY DEF TypeOK
  <2> QED  BY <1>1, <2>1, <2>2 DEF Left, Reading, WriterStates
<1>4. /\ HandedBack(s)' = HandedBack(s)
      /\ HandedBack(s) \in 0..Len(wire[s])
      /\ Len(accepted[s]) = HandedBack(s) + queued[s]
  BY <1>1, <1>2, <1>3 DEF HandedBack, RingInv, SpanFits, RingHolds
<1>5. SpanFits(s)'
  BY <1>1 DEF RingInv, SpanFits
<1>6. RingHolds(s)'
  <2>1. Len(accepted'[s]) = HandedBack(s) + queued'[s]
    BY <1>1, <1>2, <1>4
  <2>2. ASSUME NEW i \in 0..(queued'[s] - 1)
        PROVE  ring'[s][(head[s] + i) % Cap] = accepted'[s][HandedBack(s) + i + 1]
    <3>0. i \in Int /\ i >= 0 /\ i < queued[s] + n
      BY <1>1
    <3>3. queued[s] \in Int /\ n \in Int /\ HandedBack(s) \in Int /\ HandedBack(s) >= 0
      BY <1>1, <1>2, <1>4
    <3>4. Len(accepted[s]) = HandedBack(s) + queued[s]
      BY <1>4
    <3>1. CASE i < queued[s]
      <4>1. i \in 0..(queued[s] - 1)
        BY <3>0, <3>1, <3>3
      <4>2. HandedBack(s) + i + 1 \in 1..Len(accepted[s])
        BY <3>0, <3>1, <3>3, <3>4
      <4>3. ring[s][(head[s] + i) % Cap] = accepted[s][HandedBack(s) + i + 1]
        BY <1>3, <4>1 DEF RingInv, RingHolds
      <4>4. ring'[s][(head[s] + i) % Cap] = ring[s][(head[s] + i) % Cap]
        BY <4>1, TakeCells
      <4> QED  BY <1>2, <4>2, <4>3, <4>4
    <3>2. CASE i >= queued[s]
      <4>1. i \in queued[s]..(queued[s] + n - 1) /\ i - queued[s] + 1 \in 1..n
        BY <3>0, <3>2, <3>3
      <4>2. HandedBack(s) + i + 1 = Len(accepted[s]) + (i - queued[s] + 1)
        BY <3>0, <3>2, <3>3, <3>4
      <4>3. ring'[s][(head[s] + i) % Cap] = chunk[i - queued[s] + 1]
        BY <4>1, TakeCells DEF n
      <4> QED  BY <1>2, <4>1, <4>2, <4>3
    <3> QED  BY <3>0, <3>1, <3>2, <3>3
  <2> QED  BY <1>1, <1>4, <2>1, <2>2 DEF RingHolds
<1>7. WireIsPrefix(s)'
  BY <1>1, <1>2 DEF RingInv, WireIsPrefix
<1>8. NothingUnsent(s)'
  BY <1>1, <1>3 DEF RingInv, NothingUnsent, Left, Reading, flags
<1> QED  BY <1>5, <1>6, <1>7, <1>8 DEF RingInv

\* A step that moves no samples, and does not take the producer's side back.
Quiet(s) ==
  /\ wire'[s] = wire[s] /\ term'[s] = term[s] /\ ring'[s] = ring[s] /\ head'[s] = head[s]
  /\ queued'[s] = queued[s] /\ accepted'[s] = accepted[s]
  /\ span'[s] = span[s] /\ sent'[s] = sent[s]
  /\ producerDone[s] => producerDone'[s]
  /\ failed[s] => failed'[s]
  /\ failed'[s] => producerDone'[s]

LEMMA QuietKeeps ==
  ASSUME NEW s \in Streams, RingInv(s), Quiet(s),
         \/ writer'[s] = writer[s]
         \/ writer[s] \in {"none", "header", "loop", "asleep"} /\ writer'[s] \in {"header", "loop", "asleep"}
  PROVE  RingInv(s)'
<1> USE DEF Quiet
<1>1. SpanFits(s)'
  BY DEF RingInv, SpanFits
<1>2. RingHolds(s)'
  <2>1. (Reading(s)' <=> Reading(s)) /\ HandedBack(s)' = HandedBack(s)
    BY DEF Reading, HandedBack
  <2> QED  BY <2>1 DEF RingInv, RingHolds
<1>3. WireIsPrefix(s)'
  BY DEF RingInv, WireIsPrefix
<1>4. NothingUnsent(s)'
  BY DEF RingInv, NothingUnsent, Left
<1> QED  BY <1>1, <1>2, <1>3, <1>4 DEF RingInv

\* What marking a failure or the end does to a stream.
LEMMA AbandonIsQuiet ==
  ASSUME TypeOK, NEW s \in Streams, NEW e, MarkFailed(s, e) \/ FinishStream(s) \/ UNCHANGED flags,
         UNCHANGED <<wire, term, ringVars, accepted, span, sent>>, RingInv(s)
  PROVE  Quiet(s)
<1>1. UNCHANGED <<wire, term, ring, head, queued, accepted, span, sent>>
  BY DEF ringVars
<1>2. /\ producerDone[s] => producerDone'[s]
      /\ failed[s] => failed'[s]
      /\ failed'[s] => producerDone'[s]
  <2>1. failed[s] => producerDone[s]
    BY DEF RingInv, NothingUnsent
  <2> QED  BY <2>1 DEF TypeOK, MarkFailed, FinishStream, flags
<1> QED  BY <1>1, <1>2 DEF Quiet

LEMMA RefuseKeeps ==
  ASSUME TypeOK, NEW s \in Streams, RingInv(s), NEW chunk, RefuseChunk(s, chunk),
         UNCHANGED <<wire, term, span, sent>>
  PROVE  RingInv(s)'
<1>1. Quiet(s)
  BY AbandonIsQuiet DEF RefuseChunk, Abandon
<1>2. writer'[s] = writer[s] \/ (writer[s] = "asleep" /\ writer'[s] = "loop")
  BY DEF RefuseChunk, Abandon, Woken, TypeOK
<1> QED  BY <1>1, <1>2, QuietKeeps

LEMMA FinishKeeps ==
  ASSUME TypeOK, NEW s \in Streams, RingInv(s), FinishStream(s),
         UNCHANGED <<wire, term, ringVars, accepted, span, sent>>
  PROVE  RingInv(s)'
<1>1. Quiet(s)
  BY AbandonIsQuiet
<1>2. writer'[s] = writer[s] \/ (writer[s] = "asleep" /\ writer'[s] = "loop")
  BY DEF FinishStream, Woken, TypeOK
<1> QED  BY <1>1, <1>2, QuietKeeps

-----------------------------------------------------------------------------
(* Each step of the writer keeps it.                                       *)

\* The span taken is the front of the queue.
LEMMA TakeSpanKeeps ==
  ASSUME TypeOK, NEW s \in Streams, RingInv(s), TakeSpan(s)
  PROVE  RingInv(s)'
<1>1. /\ writer[s] = "loop" /\ writer'[s] = "send" /\ sent'[s] = 0
      /\ span'[s] = (IF queued[s] > Cap - head[s] THEN Cap - head[s] ELSE queued[s])
      /\ queued[s] > 0 /\ ~failed[s]
      /\ UNCHANGED <<wire, term, ring, head, queued, producerDone, failed, accepted>>
  BY DEF TakeSpan, TypeOK, ringVars, flags, Frame
<1>2. Cap \in Nat /\ head[s] \in 0..(Cap - 1) /\ queued[s] \in 0..Cap /\ Len(wire[s]) \in Nat
  BY StreamAssumption, LenProperties DEF TypeOK
<1>3. SpanFits(s)'
  BY <1>1, <1>2 DEF SpanFits
<1>4. RingHolds(s)'
  <2>1. Reading(s) /\ HandedBack(s)' = HandedBack(s)
    BY <1>1, <1>2 DEF Reading, HandedBack
  <2> QED  BY <1>1, <2>1 DEF RingInv, RingHolds
<1>5. WireIsPrefix(s)' /\ NothingUnsent(s)'
  BY <1>1 DEF RingInv, WireIsPrefix, NothingUnsent, Left
<1> QED  BY <1>3, <1>4, <1>5 DEF RingInv

\* The cell sent is the sample that comes next.
LEMMA NextSample ==
  ASSUME TypeOK, NEW s \in Streams, RingInv(s), writer[s] = "send", sent[s] < span[s]
  PROVE  /\ Len(wire[s]) < Len(accepted[s])
         /\ ring[s][head[s] + sent[s]] = accepted[s][Len(wire[s]) + 1]
         /\ head[s] + sent[s] \in 0..(Cap - 1)
         /\ sent[s] + 1 \in 0..Cap
<1>1. /\ Cap \in Nat \ {0} /\ head[s] \in 0..(Cap - 1) /\ queued[s] \in 0..Cap /\ sent[s] \in 0..Cap
      /\ Len(wire[s]) \in Nat /\ Len(accepted[s]) \in Nat
  BY StreamAssumption, LenProperties DEF TypeOK
<1>2. span[s] \in 1..queued[s] /\ head[s] + span[s] <= Cap
  BY DEF RingInv, SpanFits
<1>3. /\ HandedBack(s) = Len(wire[s]) - sent[s]
      /\ Len(accepted[s]) = HandedBack(s) + queued[s]
      /\ ring[s][(head[s] + sent[s]) % Cap] = accepted[s][HandedBack(s) + sent[s] + 1]
  <2>1. sent[s] \in 0..(queued[s] - 1)
    BY <1>1, <1>2
  <2> QED  BY <2>1 DEF RingInv, RingHolds, Reading, HandedBack
<1>4. (head[s] + sent[s]) % Cap = head[s] + sent[s]
  <2>1. head[s] + sent[s] < Cap
    BY <1>1, <1>2
  <2> QED  BY <1>1, <2>1, Wrapped
<1>5. HandedBack(s) + sent[s] + 1 = Len(wire[s]) + 1
  BY <1>1, <1>3
<1>6. Len(wire[s]) < Len(accepted[s])
  BY <1>1, <1>2, <1>3
<1>7. head[s] + sent[s] \in 0..(Cap - 1) /\ sent[s] + 1 \in 0..Cap
  BY <1>1, <1>2
<1> QED  BY <1>3, <1>4, <1>5, <1>6, <1>7

LEMMA SendSomeKeeps ==
  ASSUME TypeOK, NEW s \in Streams, RingInv(s), SendSome(s)
  PROVE  RingInv(s)'
<1> DEFINE x == ring[s][head[s] + sent[s]]
<1>1. /\ writer[s] = "send" /\ writer'[s] = "send" /\ sent'[s] = sent[s] + 1 /\ sent[s] < span[s]
      /\ wire'[s] = Append(wire[s], x)
      /\ UNCHANGED <<term, ring, head, queued, producerDone, failed, accepted, span>>
  BY DEF SendSome, TypeOK, ringVars, flags, Frame
<1>2. /\ span[s] \in 1..queued[s] /\ sent[s] \in 0..span[s] /\ head[s] + span[s] <= Cap
      /\ sent[s] <= Len(wire[s]) /\ queued[s] \in Nat
  BY <1>1 DEF TypeOK, RingInv, SpanFits
<1>3. x \in Nat
  <2>1. head[s] + sent[s] \in 0..(Cap - 1)
    BY <1>1, NextSample
  <2>2. ring[s] \in [0..(Cap - 1) -> Nat]
    BY DEF TypeOK
  <2> QED  BY <2>1, <2>2
<1>4. Len(wire[s]) < Len(accepted[s]) /\ x = accepted[s][Len(wire[s]) + 1]
  BY <1>1, NextSample
<1>5. /\ Len(wire[s]) \in Nat /\ Len(wire'[s]) = Len(wire[s]) + 1 /\ Len(accepted[s]) \in Nat
      /\ \A i \in 1..Len(wire[s]) : wire'[s][i] = wire[s][i]
      /\ wire'[s][Len(wire[s]) + 1] = x
  <2>1. wire[s] \in Seq(Nat) /\ accepted[s] \in Seq(Nat)
    BY DEF TypeOK
  <2> HIDE DEF x
  <2> QED  BY <1>1, <1>3, <2>1, AppendProperties, LenProperties
<1> HIDE DEF x
<1>6. SpanFits(s)'
  BY <1>1, <1>2, <1>5 DEF SpanFits
<1>7. RingHolds(s)'
  <2>1. HandedBack(s) = Len(wire[s]) - sent[s] /\ HandedBack(s)' = Len(wire'[s]) - sent'[s]
    BY <1>1 DEF HandedBack
  <2>2. Reading(s) /\ HandedBack(s)' = HandedBack(s)
    BY <1>1, <1>2, <1>5, <2>1 DEF Reading
  <2> QED  BY <1>1, <2>2 DEF RingInv, RingHolds
<1>8. WireIsPrefix(s)'
  BY <1>1, <1>4, <1>5 DEF RingInv, WireIsPrefix
<1>9. NothingUnsent(s)'
  BY <1>1 DEF RingInv, NothingUnsent, Left
<1> QED  BY <1>6, <1>7, <1>8, <1>9 DEF RingInv

\* Handing the span back moves the front of the queue past it.
LEMMA AdvanceKeeps ==
  ASSUME TypeOK, NEW s \in Streams, RingInv(s), Advance(s)
  PROVE  RingInv(s)'
<1>0. PICK h \in Int, q \in Int, n \in Int : h = head[s] /\ q = queued[s] /\ n = span[s]
  BY DEF TypeOK
<1>1. /\ writer[s] = "send" /\ writer'[s] = "loop" /\ sent[s] = n
      /\ head'[s] = (h + n) % Cap /\ queued'[s] = q - n
      /\ UNCHANGED <<wire, term, ring, producerDone, failed, accepted, span, sent>>
  BY <1>0 DEF Advance, TypeOK, flags, Frame
<1>2. /\ Cap \in Nat \ {0} /\ h \in 0..(Cap - 1) /\ q \in 0..Cap /\ n \in 1..q /\ h + n <= Cap
      /\ Len(wire[s]) \in Nat /\ Len(accepted[s]) \in Nat /\ n <= Len(wire[s])
  BY <1>0, <1>1, StreamAssumption, LenProperties DEF TypeOK, RingInv, SpanFits
<1>3. /\ HandedBack(s) = Len(wire[s]) - n /\ HandedBack(s)' = Len(wire[s])
      /\ Len(accepted[s]) = HandedBack(s) + q
      /\ \A i \in 0..(q - 1) : ring[s][(h + i) % Cap] = accepted[s][HandedBack(s) + i + 1]
  BY <1>0, <1>1 DEF HandedBack, RingInv, RingHolds, Reading
<1>4. \/ h + n < Cap /\ head'[s] = h + n
      \/ h + n = Cap /\ head'[s] = 0
  <2>1. n \in 0..Cap
    BY <1>2
  <2>2. head'[s] = IF h + n < Cap THEN h + n ELSE h + n - Cap
    BY <1>1, <1>2, <2>1, Wrapped
  <2> QED  BY <1>2, <2>2
<1>5. SpanFits(s)'
  BY <1>1 DEF SpanFits
<1>6. RingHolds(s)'
  <2>1. Len(accepted[s]) = Len(wire[s]) + queued'[s]
    BY <1>1, <1>2, <1>3
  <2>2. ASSUME NEW i \in 0..(queued'[s] - 1)
        PROVE  ring[s][(head'[s] + i) % Cap] = accepted[s][Len(wire[s]) + i + 1]
    <3>1. i \in Nat /\ n + i \in 0..(q - 1) /\ i \in 0..Cap /\ n + i \in 0..Cap
      <4>1. i \in 0..((q - n) - 1)
        BY <1>1
      <4> QED  BY <1>2, <4>1
    <3>2. ring[s][(h + (n + i)) % Cap] = accepted[s][HandedBack(s) + (n + i) + 1]
      BY <1>3, <3>1
    <3>3. HandedBack(s) + (n + i) + 1 = Len(wire[s]) + i + 1
      <4>1. PICK w \in Int : w = Len(wire[s])
        BY <1>2
      <4>2. HandedBack(s) = w - n
        BY <1>3, <4>1
      <4>3. i \in Int
        BY <3>1
      <4>4. (w - n) + (n + i) + 1 = w + i + 1
        BY <4>3
      <4> QED  BY <4>1, <4>2, <4>4, Zenon
    <3>4. (h + (n + i)) % Cap = (head'[s] + i) % Cap
      <4>1. CASE h + n < Cap /\ head'[s] = h + n
        <5>1. h + (n + i) = head'[s] + i
          BY <1>2, <3>1, <4>1
        <5> QED  BY <5>1
      <4>2. CASE h + n = Cap /\ head'[s] = 0
        <5>1. i \in 0..(Cap - 1)
          BY <1>2, <3>1
        <5>2. h + (n + i) = i + Cap /\ head'[s] + i = i
          BY <1>2, <3>1, <4>2
        <5> QED  BY <1>2, <5>1, <5>2, Round
      <4> QED  BY <1>4, <4>1, <4>2
    <3> QED  BY <3>2, <3>3, <3>4
  <2> QED  BY <1>1, <1>3, <2>1, <2>2 DEF RingHolds
<1>7. WireIsPrefix(s)' /\ NothingUnsent(s)'
  BY <1>1 DEF RingInv, WireIsPrefix, NothingUnsent, Left
<1> QED  BY <1>5, <1>6, <1>7 DEF RingInv

\* Out of the loop the writer touches neither ring nor wire.
LEMMA LeavingKeeps ==
  ASSUME TypeOK, NEW s \in Streams, RingInv(s),
         Leave(s) \/ SendFails(s) \/ Decide(s) \/ Terminate(s) \/ Close(s) \/ WriterReleases(s)
  PROVE  RingInv(s)'
<1>1. /\ UNCHANGED <<wire, ring, head, queued, accepted, span, sent>>
      /\ producerDone[s] => producerDone'[s]
      /\ failed[s] => failed'[s]
      /\ failed'[s] => producerDone'[s]
  <2>1. failed[s] => producerDone[s]
    BY DEF RingInv, NothingUnsent
  <2> QED  BY <2>1 DEF Leave, SendFails, Decide, Terminate, Close, WriterReleases, MarkFailed, TypeOK,
                       ringVars, flags, Frame
<1>2. Left(s)' /\ ~Reading(s)' /\ writer'[s] # "send"
  BY DEF Leave, SendFails, Decide, Terminate, Close, WriterReleases, TypeOK, Left, Reading
<1>3. SpanFits(s)' /\ RingHolds(s)' /\ WireIsPrefix(s)'
  BY <1>1, <1>2 DEF RingInv, SpanFits, RingHolds, WireIsPrefix
<1>4. NothingUnsent(s)'
  <2>1. CASE Leave(s)
    <3>1. /\ writer[s] = "loop" /\ writer'[s] = "ended" /\ UNCHANGED <<term, producerDone, failed>>
          /\ failed[s] \/ (queued[s] = 0 /\ producerDone[s])
      BY <2>1 DEF Leave, TypeOK, flags
    <3>2. ~failed[s] => Len(wire[s]) = Len(accepted[s])
      <4>1. Len(wire[s]) \in Nat /\ queued[s] \in Nat
        BY LenProperties DEF TypeOK
      <4>2. Len(accepted[s]) = HandedBack(s) + queued[s] /\ HandedBack(s) = Len(wire[s])
        BY <3>1, <4>1 DEF RingInv, RingHolds, Reading, HandedBack
      <4> QED  BY <3>1, <4>1, <4>2
    <3> QED  BY <1>1, <3>1, <3>2 DEF RingInv, NothingUnsent, Left
  <2>2. CASE SendFails(s)
    <3>1. writer[s] = "send" /\ writer'[s] = "ended" /\ term' = term /\ failed'[s] /\ producerDone'[s]
      BY <2>2 DEF SendFails, MarkFailed, TypeOK
    <3> QED  BY <1>1, <3>1 DEF RingInv, NothingUnsent, Left
  <2>3. CASE Decide(s)
    <3>1. /\ writer[s] = "ended" /\ writer'[s] = (IF failed[s] THEN "close" ELSE "terminate")
          /\ UNCHANGED <<term, producerDone, failed>>
      BY <2>3 DEF Decide, TypeOK, flags
    <3> QED  BY <1>1, <3>1 DEF RingInv, NothingUnsent, Left
  <2>4. CASE Terminate(s)
    <3>1. writer[s] = "terminate" /\ writer'[s] = "close"
      BY <2>4 DEF Terminate, TypeOK
    <3> QED  BY <1>1, <3>1 DEF RingInv, NothingUnsent, Left
  <2>5. CASE Close(s) \/ WriterReleases(s)
    <3>1. /\ writer[s] \in {"close", "release"} /\ writer'[s] \in {"release", "gone"}
          /\ UNCHANGED <<term, producerDone, failed>>
      BY <2>5 DEF Close, WriterReleases, TypeOK, flags
    <3> QED  BY <1>1, <3>1 DEF RingInv, NothingUnsent, Left
  <2> QED  BY <2>1, <2>2, <2>3, <2>4, <2>5
<1> QED  BY <1>3, <1>4 DEF RingInv

LEMMA WriterKeeps ==
  ASSUME TypeOK, NEW s \in Streams, RingInv(s), WriterStep(s) \/ SpuriousWakeup(s)
  PROVE  RingInv(s)'
<1>1. CASE Header(s)
  <2>1. Quiet(s)
    BY <1>1, AbandonIsQuiet DEF Header, Frame
  <2>2. writer[s] = "header" /\ writer'[s] = "loop"
    BY <1>1 DEF Header, TypeOK
  <2> QED  BY <2>1, <2>2, QuietKeeps
<1>2. CASE Sleep(s) \/ SpuriousWakeup(s)
  <2>1. Quiet(s)
    BY <1>2, AbandonIsQuiet DEF Sleep, SpuriousWakeup, Frame
  <2>2. writer[s] \in {"loop", "asleep"} /\ writer'[s] \in {"loop", "asleep"}
    BY <1>2 DEF Sleep, SpuriousWakeup, TypeOK
  <2> QED  BY <2>1, <2>2, QuietKeeps
<1> QED  BY <1>1, <1>2, TakeSpanKeeps, SendSomeKeeps, AdvanceKeeps, LeavingKeeps DEF WriterStep

-----------------------------------------------------------------------------
(* Type correctness.                                                       *)

LEMMA ChunkIsSeq ==
  ASSUME NEW from \in Nat, NEW n \in Nat
  PROVE  Positions(from, n) \in Seq(Nat) /\ Len(Positions(from, n)) = n
<1>1. Positions(from, n) \in [1..n -> Nat]
  BY DEF Positions
<1>2. Positions(from, n) \in Seq(Nat)
  BY <1>1, SeqDef
<1> QED  BY <1>1, <1>2, LenProperties

LEMMA TakeTypes ==
  ASSUME TypeOK, NEW s \in Streams, NEW chunk \in Seq(Nat), Take(s, chunk)
  PROVE  /\ ring' \in [Streams -> [0..(Cap - 1) -> Nat]]
         /\ queued' \in [Streams -> 0..Cap]
         /\ accepted' \in [Streams -> Seq(Nat)]
         /\ writer' \in [Streams -> WriterStates]
<1>1. ring' \in [Streams -> [0..(Cap - 1) -> Nat]]
  <2>1. /\ ring' \in [Streams -> {ring'[u] : u \in Streams}]
        /\ \A u \in Streams \ {s} : ring'[u] = ring[u]
    BY DEF Take, TypeOK
  <2> QED  BY <2>1, TakeCells DEF TypeOK
<1>2. queued' \in [Streams -> 0..Cap]
  <2>1. queued' = [queued EXCEPT ![s] = @ + Len(chunk)] /\ Len(chunk) <= Cap - queued[s]
    BY DEF Take, Fits
  <2>2. Len(chunk) \in Nat /\ Cap \in Nat /\ queued[s] \in 0..Cap
    BY LenProperties, StreamAssumption DEF TypeOK
  <2>3. queued[s] + Len(chunk) \in 0..Cap
    BY <2>1, <2>2
  <2> QED  BY <2>1, <2>3 DEF TypeOK
<1>3. accepted' \in [Streams -> Seq(Nat)]
  <2>1. accepted[s] \o chunk \in Seq(Nat)
    BY ConcatProperties DEF TypeOK
  <2> QED  BY <2>1 DEF Take, TypeOK
<1>4. writer' \in [Streams -> WriterStates]
  BY DEF Take, TypeOK, Woken, WriterStates
<1> QED  BY <1>1, <1>2, <1>3, <1>4

\* What marking a failure or the end leaves of the types.
FlagTypes ==
  /\ producerDone' \in [Streams -> BOOLEAN]
  /\ failed' \in [Streams -> BOOLEAN]
  /\ err' \in [Streams -> Errors]
  /\ writer' \in [Streams -> WriterStates]

LEMMA MarkTypes ==
  ASSUME TypeOK, NEW s \in Streams, NEW e \in Errors, MarkFailed(s, e)
  PROVE  /\ producerDone' \in [Streams -> BOOLEAN]
         /\ failed' \in [Streams -> BOOLEAN]
         /\ err' \in [Streams -> Errors]
<1>1. producerDone' \in [Streams -> BOOLEAN] /\ failed' \in [Streams -> BOOLEAN]
  BY DEF TypeOK, MarkFailed
<1>2. err' = [err EXCEPT ![s] = IF failed[s] THEN err[s] ELSE e]
  BY DEF MarkFailed, TypeOK
<1>3. (IF failed[s] THEN err[s] ELSE e) \in Errors
  BY DEF TypeOK
<1>4. err' \in [Streams -> Errors]
  BY <1>2, <1>3 DEF TypeOK
<1> QED  BY <1>1, <1>4

LEMMA AbandonTypes ==
  ASSUME TypeOK, NEW s \in Streams,
         \/ \E e \in Errors : Abandon(s, e)
         \/ FinishStream(s)
         \/ UNCHANGED <<flags, writer>>
  PROVE  FlagTypes
<1>1. ASSUME NEW e \in Errors, Abandon(s, e) PROVE FlagTypes
  <2>1. MarkFailed(s, e) /\ writer' = Woken(s)
    BY <1>1 DEF Abandon
  <2> QED  BY <2>1, MarkTypes DEF Woken, TypeOK, WriterStates, FlagTypes
<1>2. CASE FinishStream(s)
  BY <1>2 DEF TypeOK, FinishStream, Woken, WriterStates, FlagTypes
<1>3. CASE UNCHANGED <<flags, writer>>
  BY <1>3 DEF TypeOK, flags, FlagTypes
<1> QED  BY <1>1, <1>2, <1>3

LEMMA RefuseTypes ==
  ASSUME TypeOK, NEW s \in Streams, NEW chunk, RefuseChunk(s, chunk)
  PROVE  FlagTypes /\ refused' \in [Streams -> BOOLEAN]
<1>1. FlagTypes
  BY AbandonTypes DEF RefuseChunk, Errors
<1>2. refused' \in [Streams -> BOOLEAN]
  BY DEF RefuseChunk, TypeOK
<1> QED  BY <1>1, <1>2

LEMMA WriterTypes ==
  ASSUME TypeOK, NEW s \in Streams, RingInv(s), writer[s] = "release" => refs[s] > 0,
         WriterStep(s) \/ SpuriousWakeup(s)
  PROVE  TypeOK'
<1> USE DEF TypeOK
<1>1. CASE Header(s) \/ Terminate(s) \/ SendFails(s)
  <2>1. SendError(s) \in Errors
    BY DEF SendError, Errors
  <2>2. UNCHANGED <<peer, wire, fd, ringVars, refs, span, sent, sinkVars, accepted, refused>>
    BY <1>1 DEF Header, Terminate, SendFails, Frame
  <2>3. term' \in [Streams -> BOOLEAN] /\ writer' \in [Streams -> WriterStates]
    BY <1>1 DEF Header, Terminate, SendFails, WriterStates
  <2>4. /\ producerDone' \in [Streams -> BOOLEAN] /\ failed' \in [Streams -> BOOLEAN]
        /\ err' \in [Streams -> Errors]
    BY <1>1, <2>1, MarkTypes DEF Header, Terminate, SendFails, flags
  <2> QED  BY <2>2, <2>3, <2>4 DEF ringVars, sinkVars
<1>2. CASE Sleep(s) \/ SpuriousWakeup(s) \/ Leave(s) \/ Decide(s)
  BY <1>2 DEF Sleep, SpuriousWakeup, Leave, Decide, WriterStates, ringVars, flags, Frame, sinkVars
<1>3. CASE Close(s)
  BY <1>3 DEF Close, WriterStates, ringVars, flags, Frame, sinkVars
<1>4. CASE TakeSpan(s)
  <2>1. /\ span' = [span EXCEPT ![s] = IF queued[s] > Cap - head[s] THEN Cap - head[s] ELSE queued[s]]
        /\ sent' = [sent EXCEPT ![s] = 0] /\ writer' = [writer EXCEPT ![s] = "send"]
        /\ UNCHANGED <<wire, term, fd, ringVars, flags, refs, Frame>>
    BY <1>4 DEF TakeSpan
  <2>2. (IF queued[s] > Cap - head[s] THEN Cap - head[s] ELSE queued[s]) \in 0..Cap /\ 0 \in 0..Cap
    BY StreamAssumption
  <2>3. span' \in [Streams -> 0..Cap] /\ sent' \in [Streams -> 0..Cap]
    BY <2>1, <2>2
  <2> QED  BY <2>1, <2>3 DEF WriterStates, ringVars, flags, Frame, sinkVars
<1>5. CASE SendSome(s)
  <2>1. /\ wire' = [wire EXCEPT ![s] = Append(@, ring[s][head[s] + sent[s]])]
        /\ sent' = [sent EXCEPT ![s] = @ + 1] /\ sent[s] < span[s] /\ writer[s] = "send"
        /\ UNCHANGED <<term, fd, ringVars, flags, refs, writer, span, Frame>>
    BY <1>5 DEF SendSome
  <2>3. head[s] + sent[s] \in 0..(Cap - 1) /\ sent[s] + 1 \in 0..Cap
    BY <2>1, NextSample
  <2>4. ring[s][head[s] + sent[s]] \in Nat
    <3>1. ring[s] \in [0..(Cap - 1) -> Nat]
      OBVIOUS
    <3> QED  BY <2>3, <3>1
  <2>5. Append(wire[s], ring[s][head[s] + sent[s]]) \in Seq(Nat)
    BY <2>4, AppendProperties
  <2>6. wire' \in [Streams -> Seq(Nat)] /\ sent' \in [Streams -> 0..Cap]
    BY <2>1, <2>3, <2>5
  <2> QED  BY <2>1, <2>6 DEF ringVars, flags, Frame, sinkVars
<1>6. CASE Advance(s)
  <2>1. /\ head' = [head EXCEPT ![s] = (@ + span[s]) % Cap]
        /\ queued' = [queued EXCEPT ![s] = @ - span[s]]
        /\ writer' = [writer EXCEPT ![s] = "loop"] /\ writer[s] = "send"
        /\ UNCHANGED <<wire, term, fd, ring, flags, refs, span, sent, Frame>>
    BY <1>6 DEF Advance
  <2>2. span[s] \in 1..queued[s]
    BY <2>1 DEF RingInv, SpanFits
  <2>3. queued[s] - span[s] \in 0..Cap
    BY <2>2, StreamAssumption
  <2>4. (head[s] + span[s]) % Cap \in 0..(Cap - 1)
    <3>1. PICK a \in Nat : a = head[s] + span[s]
      BY StreamAssumption
    <3>2. a % Cap \in 0..(Cap - 1)
      BY StreamAssumption
    <3> QED  BY <3>1, <3>2
  <2>5. head' \in [Streams -> 0..(Cap - 1)] /\ queued' \in [Streams -> 0..Cap]
    BY <2>1, <2>3, <2>4
  <2> QED  BY <2>1, <2>5 DEF WriterStates, flags, Frame, sinkVars
<1>7. CASE WriterReleases(s)
  <2>1. /\ refs' = [refs EXCEPT ![s] = @ - 1] /\ writer[s] = "release"
        /\ writer' = [writer EXCEPT ![s] = "gone"]
        /\ UNCHANGED <<wire, term, fd, ringVars, flags, span, sent, Frame>>
    BY <1>7 DEF WriterReleases, Unreference
  <2>2. refs[s] - 1 \in 0..2
    BY <2>1
  <2> QED  BY <2>1, <2>2 DEF WriterStates, ringVars, flags, Frame, sinkVars
<1> QED  BY <1>1, <1>2, <1>3, <1>4, <1>5, <1>6, <1>7 DEF WriterStep

\* Ends, errors and phases a callback may leave.
LEMMA CallbackTypes ==
  ASSUME TypeOK, NEW s \in Streams, Callbacks(s)
  PROVE  TypeOK'
<1> USE DEF TypeOK
<1>1. CASE Start(s)
  <2>1. /\ fd' \in [Streams -> {"caller", "stream", "closed"}]
        /\ writer' \in [Streams -> WriterStates] /\ phase' \in [Streams -> Phases]
    BY <1>1 DEF Start, WriterStates, Phases
  <2>2. refs' \in [Streams -> 0..2]
    BY <1>1 DEF Start
  <2> QED  BY <1>1, <2>1, <2>2 DEF Start, ringVars, flags, history
<1>2. CASE StartFails(s)
  BY <1>2 DEF StartFails, Phases, ringVars, flags, writerVars, history
<1>3. CASE Expire(s) \/ EngineDone(s) \/ CheckFailed(s)
  <2>1. \/ \E why \in Ends : Stopping(s, why)
        \/ phase' = [phase EXCEPT ![s] = "running"] /\ reason' = reason
    BY <1>3 DEF Expire, EngineDone, CheckFailed, Ends
  <2>3. phase' \in [Streams -> Phases] /\ reason' \in [Streams -> Ends]
    <3>1. ASSUME NEW why \in Ends, Stopping(s, why)
          PROVE  phase' \in [Streams -> Phases] /\ reason' \in [Streams -> Ends]
      BY <3>1 DEF Stopping, Phases
    <3>2. CASE phase' = [phase EXCEPT ![s] = "running"] /\ reason' = reason
      BY <3>2 DEF Phases
    <3> QED  BY <2>1, <3>1, <3>2
  <2>2. UNCHANGED <<socket, ringVars, flags, refs, writerVars, produced, history>>
    BY <1>3 DEF Expire, EngineDone, CheckFailed
  <2> QED  BY <2>2, <2>3 DEF socket, ringVars, flags, writerVars, history
<1>4. CASE PollPeer(s)
  <2>1. phase' \in [Streams -> Phases] /\ reason' \in [Streams -> Ends]
    <3>1. CASE PeerGone(s)
      <4>1. Stopping(s, "peer_gone")
        BY <3>1 DEF PeerGone
      <4> QED  BY <4>1 DEF Stopping, Phases, Ends
    <3>2. CASE PeerStays(s)
      <4>1. phase' = [phase EXCEPT ![s] = "polled"] /\ reason' = reason
        BY <3>2 DEF PeerStays
      <4> QED  BY <4>1 DEF Phases
    <3> QED  BY <1>4, <3>1, <3>2 DEF PollPeer
  <2>2. FlagTypes
    BY <1>4, AbandonTypes DEF PollPeer, PeerGone, PeerStays, Errors, flags
  <2>3. UNCHANGED <<socket, ringVars, refs, span, sent, produced, history>>
    BY <1>4 DEF PollPeer
  <2> QED  BY <2>1, <2>2, <2>3 DEF FlagTypes, socket, ringVars, history
<1> QED  BY <1>1, <1>2, <1>3, <1>4 DEF Callbacks

LEMMA SinkTypes ==
  ASSUME TypeOK, NEW s \in Streams, RefsExact(s), Sink(s)
  PROVE  TypeOK'
<1>1. CASE Callbacks(s)
  BY <1>1, CallbackTypes
<1>2. CASE Finish(s)
  <2>1. FlagTypes
    BY <1>2, AbandonTypes DEF Finish
  <2> QED  BY <1>2, <2>1 DEF TypeOK, Finish, FlagTypes, Phases, socket, ringVars, history
<1>3. CASE Release(s)
  <2>1. refs[s] - 1 \in 0..2
    BY <1>3 DEF Release, RefsExact, TypeOK
  <2> QED  BY <1>3, <2>1 DEF TypeOK, Release, Unreference, Phases, socket, ringVars, flags, writerVars,
                            history
<1>4. ASSUME NEW n \in ChunkSizes, Chunk(s, n) PROVE TypeOK'
  <2> DEFINE chunk == Positions(produced[s], n)
  <2>1. n \in Nat /\ produced[s] \in Nat /\ chunk \in Seq(Nat)
    BY ChunkIsSeq, StreamAssumption DEF TypeOK
  <2>2. produced' \in [Streams -> 0..MaxSamples] /\ UNCHANGED <<socket, refs, span, sent>>
    BY <1>4, <2>1, StreamAssumption DEF Chunk, TypeOK
  <2> HIDE DEF chunk
  <2>3. CASE Take(s, chunk) /\ UNCHANGED <<phase, reason>>
    BY <2>1, <2>2, <2>3, TakeTypes DEF Take, TypeOK, socket, flags
  <2>4. CASE RefuseChunk(s, chunk) /\ Stopping(s, "cancelled")
    <3>1. phase' \in [Streams -> Phases] /\ reason' \in [Streams -> Ends]
      BY <2>4 DEF Stopping, TypeOK, Phases, Ends
    <3>2. UNCHANGED <<ringVars, accepted>>
      BY <2>4 DEF RefuseChunk
    <3> QED  BY <2>2, <2>4, <3>1, <3>2, RefuseTypes DEF FlagTypes, TypeOK, socket, ringVars
  <2> QED  BY <1>4, <2>3, <2>4 DEF Chunk, chunk
<1> QED  BY <1>1, <1>2, <1>3, <1>4 DEF Sink

-----------------------------------------------------------------------------
(* The steps of the sink.                                                  *)

LEMMA CallbackKeeps ==
  ASSUME TypeOK, NEW s \in Streams, RingInv(s), SinkInv(s), Callbacks(s)
  PROVE  RingInv(s)' /\ SinkInv(s)' /\ (RefsExact(s) => RefsExact(s)')
<1>1. CASE Start(s)
  <2>1. /\ phase[s] = "new" /\ phase'[s] = "running" /\ fd'[s] = "stream" /\ refs'[s] = 2
        /\ writer'[s] = "header" /\ UNCHANGED <<peer, flags, reason>>
    BY <1>1 DEF Start, TypeOK
  <2>2. writer[s] = "none"
    BY <2>1 DEF SinkInv
  <2>3. Quiet(s)
    BY <1>1, AbandonIsQuiet DEF Start, history
  <2>4. RingInv(s)'
    BY <2>1, <2>2, <2>3, QuietKeeps
  <2> QED  BY <2>1, <2>2, <2>4 DEF SinkInv, RefsExact, flags
<1>2. CASE StartFails(s)
  <2>1. /\ phase[s] = "new" /\ phase'[s] = "rejected" /\ fd'[s] = "closed"
        /\ UNCHANGED <<peer, flags, reason, writer, refs>>
    BY <1>2 DEF StartFails, TypeOK, writerVars
  <2>2. Quiet(s)
    BY <1>2, AbandonIsQuiet DEF StartFails, history, writerVars
  <2>3. RingInv(s)'
    BY <2>1, <2>2, QuietKeeps
  <2> QED  BY <2>1, <2>3 DEF SinkInv, RefsExact, flags
<1>3. CASE Expire(s) \/ EngineDone(s) \/ CheckFailed(s)
  <2>1. /\ phase[s] \in {"running", "polled"} /\ phase'[s] \in {"running", "stopping"}
        /\ reason'[s] = "peer_gone" => reason[s] = "peer_gone"
    BY <1>3 DEF Expire, EngineDone, CheckFailed, Stopping, TypeOK
  <2>2. UNCHANGED <<socket, ringVars, flags, refs, writerVars, produced, history>>
    BY <1>3 DEF Expire, EngineDone, CheckFailed
  <2>3. Quiet(s) /\ writer' = writer
    BY <2>2, AbandonIsQuiet DEF socket, writerVars, history
  <2>4. RingInv(s)'
    BY <2>3, QuietKeeps
  <2> QED  BY <2>1, <2>2, <2>4 DEF SinkInv, RefsExact, socket, flags, writerVars
<1>4. CASE PollPeer(s)
  <2>1. /\ phase[s] = "running" /\ phase'[s] \in {"polled", "stopping"}
        /\ UNCHANGED <<peer, fd, refs>>
        /\ writer'[s] = writer[s] \/ (writer[s] = "asleep" /\ writer'[s] = "loop")
    BY <1>4 DEF PollPeer, PeerGone, PeerStays, Stopping, Abandon, Woken, TypeOK, socket
  <2>2. Quiet(s)
    BY <1>4, AbandonIsQuiet DEF PollPeer, PeerGone, PeerStays, Abandon, socket, history
  <2>3. RingInv(s)'
    BY <2>1, <2>2, QuietKeeps
  <2>4. CASE PeerGone(s)
    <3>1. reason'[s] = "peer_gone"
      BY <2>4 DEF PeerGone, Stopping, TypeOK
    <3>2. peer[s] = "gone"
      <4>1. failed[s] \/ ~producerDone[s]
        BY <2>1 DEF SinkInv
      <4>2. writer[s] \in {"release", "gone"} => failed[s]
        BY <4>1 DEF RingInv, NothingUnsent, Left
      <4> QED  BY <2>1, <2>4, <4>2 DEF PeerGone, FailureIsHangup, SinkInv
    <3>3. producerDone'[s] => failed'[s]
      <4>1. producerDone[s] => failed[s]
        BY <2>1 DEF SinkInv
      <4> QED  BY <2>4, <4>1 DEF PeerGone, Abandon, MarkFailed, TypeOK, flags
    <3> QED  BY <2>1, <2>3, <3>1, <3>2, <3>3 DEF SinkInv, RefsExact
  <2>5. CASE PeerStays(s)
    BY <2>1, <2>3, <2>5 DEF PeerStays, SinkInv, RefsExact, flags
  <2> QED  BY <1>4, <2>4, <2>5 DEF PollPeer
<1> QED  BY <1>1, <1>2, <1>3, <1>4 DEF Callbacks

\* A running stream is one whose producer's side is open, or that failed.
LEMMA ChunkKeeps ==
  ASSUME TypeOK, NEW s \in Streams, RingInv(s), SinkInv(s), NEW n \in ChunkSizes, Chunk(s, n)
  PROVE  RingInv(s)' /\ SinkInv(s)' /\ (RefsExact(s) => RefsExact(s)')
<1> DEFINE chunk == Positions(produced[s], n)
<1>1. chunk \in Seq(Nat) /\ UNCHANGED <<wire, term, span, sent>>
  <2>1. n \in Nat /\ produced[s] \in Nat
    BY StreamAssumption DEF TypeOK
  <2>2. chunk \in Seq(Nat)
    BY <2>1, ChunkIsSeq
  <2> QED  BY <2>2 DEF Chunk, socket
<1>2. phase[s] = "running" /\ UNCHANGED <<peer, fd, refs>>
  BY DEF Chunk, socket
<1> HIDE DEF chunk
<1>3. CASE Take(s, chunk) /\ UNCHANGED <<phase, reason>>
  <2>1. RingInv(s)'
    BY <1>1, <1>3, TakeKeeps
  <2>2. writer'[s] = writer[s] \/ (writer[s] = "asleep" /\ writer'[s] = "loop")
    BY <1>3 DEF Take, Woken, TypeOK
  <2> QED  BY <1>2, <1>3, <2>1, <2>2 DEF Take, SinkInv, RefsExact, flags
<1>4. CASE RefuseChunk(s, chunk) /\ Stopping(s, "cancelled")
  <2>1. RingInv(s)'
    BY <1>1, <1>4, RefuseKeeps
  <2>2. writer'[s] = writer[s] \/ (writer[s] = "asleep" /\ writer'[s] = "loop")
    BY <1>4 DEF RefuseChunk, Abandon, Woken, TypeOK
  <2>3. phase'[s] = "stopping" /\ reason'[s] = "cancelled"
    BY <1>4 DEF Stopping, TypeOK
  <2>4. /\ producerDone'[s] => failed'[s]
        /\ err'[s] = "hangup" => err[s] = "hangup"
    <3>1. producerDone[s] => failed[s]
      BY <1>2 DEF SinkInv
    <3> QED  BY <1>4, <3>1 DEF RefuseChunk, Abandon, MarkFailed, TypeOK, flags
  <2> QED  BY <1>2, <2>1, <2>2, <2>3, <2>4 DEF SinkInv, RefsExact
<1> QED  BY <1>3, <1>4 DEF Chunk, chunk

LEMMA EndKeeps ==
  ASSUME TypeOK, NEW s \in Streams, RingInv(s), SinkInv(s), Finish(s) \/ Release(s)
  PROVE  RingInv(s)' /\ SinkInv(s)' /\ (RefsExact(s) => RefsExact(s)')
<1>1. CASE Finish(s)
  <2>1. RingInv(s)'
    BY <1>1, FinishKeeps DEF Finish, socket, history
  <2>2. /\ phase[s] = "stopping" /\ phase'[s] = "finished" /\ UNCHANGED <<peer, fd, refs, reason>>
        /\ writer'[s] = writer[s] \/ (writer[s] = "asleep" /\ writer'[s] = "loop")
        /\ UNCHANGED err
    BY <1>1 DEF Finish, FinishStream, Woken, TypeOK, socket
  <2> QED  BY <2>1, <2>2 DEF SinkInv, RefsExact
<1>2. CASE Release(s)
  <2>1. /\ phase[s] = "finished" /\ phase'[s] = "released" /\ refs'[s] = refs[s] - 1
        /\ UNCHANGED <<socket, flags, ringVars, writerVars, reason, history>>
    BY <1>2 DEF Release, Unreference, TypeOK
  <2>2. Quiet(s)
    BY <2>1, AbandonIsQuiet DEF socket, writerVars, history
  <2>3. RingInv(s)'
    BY <2>1, <2>2, QuietKeeps DEF writerVars
  <2>4. SinkInv(s)'
    BY <2>1 DEF SinkInv, socket, flags, writerVars
  <2>5. RefsExact(s) => RefsExact(s)'
    BY <2>1 DEF RefsExact, writerVars
  <2> QED  BY <2>3, <2>4, <2>5
<1> QED  BY <1>1, <1>2

\* The writer gives its reference up last, and its own error is the client's.
LEMMA WriterSinkKeeps ==
  ASSUME TypeOK, NEW s \in Streams, RingInv(s), SinkInv(s), WriterStep(s) \/ SpuriousWakeup(s)
  PROVE  SinkInv(s)' /\ (RefsExact(s) => RefsExact(s)')
<1>1. UNCHANGED <<peer, phase, reason>>
  BY DEF WriterStep, SpuriousWakeup, Header, TakeSpan, Sleep, Leave, SendSome, SendFails, Advance,
         Decide, Terminate, Close, WriterReleases, Frame, sinkVars
<1>2. CASE Header(s) \/ SendFails(s) \/ Terminate(s)
  <2>1. /\ writer[s] \in {"header", "send", "terminate"} /\ writer'[s] \in {"loop", "ended", "close"}
        /\ UNCHANGED <<fd, refs>>
    BY <1>2 DEF Header, SendFails, Terminate, TypeOK
  <2>2. UNCHANGED flags \/ MarkFailed(s, SendError(s))
    BY <1>2 DEF Header, SendFails, Terminate
  <2>3. /\ err'[s] = "hangup" => err[s] = "hangup" \/ peer[s] = "gone"
        /\ producerDone'[s] => (producerDone[s] /\ failed'[s] = failed[s]) \/ failed'[s]
    BY <2>2 DEF MarkFailed, SendError, TypeOK, flags
  <2> QED  BY <1>1, <2>1, <2>3 DEF SinkInv, RefsExact
<1>3. CASE TakeSpan(s) \/ Sleep(s) \/ SpuriousWakeup(s) \/ Leave(s) \/ SendSome(s) \/ Advance(s) \/ Decide(s)
  <2>1. /\ writer[s] \notin {"none", "gone", "release"} /\ writer'[s] \notin {"none", "gone", "release"}
        /\ UNCHANGED <<fd, refs, flags>>
    BY <1>3 DEF TakeSpan, Sleep, SpuriousWakeup, Leave, SendSome, Advance, Decide, TypeOK
  <2> QED  BY <1>1, <2>1 DEF SinkInv, RefsExact, flags
<1>4. CASE Close(s)
  <2>1. /\ writer[s] = "close" /\ writer'[s] = "release" /\ fd'[s] = "closed" /\ UNCHANGED <<refs, flags>>
    BY <1>4 DEF Close, TypeOK
  <2> QED  BY <1>1, <2>1 DEF SinkInv, RefsExact, flags
<1>5. CASE WriterReleases(s)
  <2>1. /\ writer[s] = "release" /\ writer'[s] = "gone" /\ refs'[s] = refs[s] - 1
        /\ UNCHANGED <<fd, flags>>
    BY <1>5 DEF WriterReleases, Unreference, TypeOK
  <2>2. SinkInv(s)'
    BY <1>1, <2>1 DEF SinkInv, flags
  <2>3. RefsExact(s) => RefsExact(s)'
    BY <1>1, <2>1 DEF RefsExact
  <2> QED  BY <2>2, <2>3
<1> QED  BY <1>2, <1>3, <1>4, <1>5 DEF WriterStep

\* Once gone the client stays gone.
LEMMA PeerKeeps ==
  ASSUME TypeOK, NEW s \in Streams, RingInv(s), SinkInv(s), PeerChanges(s)
  PROVE  TypeOK' /\ RingInv(s)' /\ SinkInv(s)' /\ (RefsExact(s) => RefsExact(s)')
<1>1. /\ UNCHANGED <<wire, term, fd, ringVars, flags, refs, writerVars, sinkVars, history>>
      /\ peer[s] # "gone" /\ \E p \in PeerMay \ {peer[s]} : peer' = [peer EXCEPT ![s] = p]
  BY DEF PeerChanges
<1>2. TypeOK'
  <2>1. peer' \in [Streams -> {"reads", "stalls", "gone"}]
    BY <1>1, StreamAssumption DEF TypeOK
  <2> QED  BY <1>1, <2>1 DEF TypeOK, ringVars, flags, writerVars, sinkVars, history
<1>3. RingInv(s)'
  <2>1. Quiet(s) /\ writer' = writer
    BY <1>1, AbandonIsQuiet DEF writerVars, history
  <2> QED  BY <2>1, QuietKeeps
<1>4. SinkInv(s)' /\ (RefsExact(s) => RefsExact(s)')
  BY <1>1 DEF SinkInv, RefsExact, flags, writerVars, sinkVars
<1> QED  BY <1>2, <1>3, <1>4

-----------------------------------------------------------------------------
(* A step of one stream leaves the others alone.                           *)

LEMMA RingIsOwn ==
  ASSUME TypeOK, NEW s \in Streams, NEW u \in Streams \ {s},
         \/ \E chunk \in Seq(Nat) : Take(s, chunk) \/ RefuseChunk(s, chunk)
         \/ \E e \in Errors : Abandon(s, e) /\ UNCHANGED <<ringVars, accepted>>
         \/ FinishStream(s) /\ UNCHANGED <<ringVars, accepted>>
  PROVE  /\ ring'[u] = ring[u] /\ head'[u] = head[u] /\ queued'[u] = queued[u]
         /\ producerDone'[u] = producerDone[u] /\ failed'[u] = failed[u] /\ err'[u] = err[u]
         /\ writer'[u] = writer[u] /\ accepted'[u] = accepted[u]
<1>1. ASSUME NEW chunk \in Seq(Nat), Take(s, chunk)
      PROVE  /\ ring'[u] = ring[u] /\ head'[u] = head[u] /\ queued'[u] = queued[u]
             /\ accepted'[u] = accepted[u] /\ writer'[u] = writer[u] /\ UNCHANGED flags
  BY <1>1 DEF TypeOK, Take, Woken
<1>2. ASSUME NEW chunk \in Seq(Nat), RefuseChunk(s, chunk)
      PROVE  /\ UNCHANGED <<ringVars, accepted>>
             /\ UNCHANGED <<flags, writer>> \/ \E e \in Errors : Abandon(s, e)
  BY <1>2 DEF RefuseChunk, Errors
<1>3. ASSUME NEW e \in Errors, Abandon(s, e)
      PROVE  /\ producerDone'[u] = producerDone[u] /\ failed'[u] = failed[u] /\ err'[u] = err[u]
             /\ writer'[u] = writer[u]
  BY <1>3 DEF TypeOK, Abandon, MarkFailed, Woken
<1>4. ASSUME FinishStream(s)
      PROVE  /\ producerDone'[u] = producerDone[u] /\ failed'[u] = failed[u] /\ err'[u] = err[u]
             /\ writer'[u] = writer[u]
  BY <1>4 DEF TypeOK, FinishStream, Woken
<1> QED  BY <1>1, <1>2, <1>3, <1>4 DEF flags, ringVars

LEMMA CallbackIsOwn ==
  ASSUME TypeOK, NEW s \in Streams, NEW u \in Streams \ {s}, Callbacks(s)
  PROVE  Same(u)
<1> USE DEF Same
<1>1. CASE Start(s)
  BY <1>1 DEF Start, TypeOK, ringVars, flags, writerVars, history
<1>4. CASE StartFails(s)
  BY <1>4 DEF StartFails, TypeOK, ringVars, flags, writerVars, history
<1>2. CASE Expire(s) \/ EngineDone(s) \/ CheckFailed(s)
  <2>1. phase'[u] = phase[u] /\ reason'[u] = reason[u]
    <3>1. phase \in [Streams -> Phases] /\ reason \in [Streams -> Ends]
      BY DEF TypeOK
    <3> QED  BY <1>2, <3>1 DEF Expire, EngineDone, CheckFailed, Stopping
  <2>2. UNCHANGED <<socket, ringVars, flags, refs, writerVars, produced, history>>
    BY <1>2 DEF Expire, EngineDone, CheckFailed
  <2> QED  BY <2>1, <2>2 DEF socket, ringVars, flags, writerVars, history
<1>3. CASE PollPeer(s)
  <2>1. phase'[u] = phase[u] /\ reason'[u] = reason[u]
    <3>1. phase \in [Streams -> Phases] /\ reason \in [Streams -> Ends]
      BY DEF TypeOK
    <3> QED  BY <1>3, <3>1 DEF PollPeer, PeerGone, PeerStays, Stopping
  <2>2. UNCHANGED <<socket, ringVars, refs, span, sent, produced, history>>
    BY <1>3 DEF PollPeer
  <2>3. UNCHANGED <<flags, writer>> \/ \E e \in Errors : Abandon(s, e)
    BY <1>3 DEF PollPeer, PeerGone, PeerStays, Errors
  <2> QED  BY <2>1, <2>2, <2>3, RingIsOwn DEF socket, ringVars, flags, history
<1> QED  BY <1>1, <1>2, <1>3, <1>4 DEF Callbacks

LEMMA SinkIsOwn ==
  ASSUME TypeOK, NEW s \in Streams, NEW u \in Streams \ {s}, Sink(s)
  PROVE  Same(u)
<1> USE DEF Same
<1>1. CASE Finish(s)
  <2>1. phase'[u] = phase[u] /\ UNCHANGED <<socket, ringVars, refs, span, sent, reason, history>>
    BY <1>1 DEF Finish, TypeOK
  <2> QED  BY <1>1, <2>1, RingIsOwn DEF Finish, socket, ringVars, history
<1>2. CASE Release(s)
  BY <1>2 DEF Release, Unreference, TypeOK, socket, ringVars, flags, writerVars, history
<1>3. ASSUME NEW n \in ChunkSizes, Chunk(s, n) PROVE Same(u)
  <2> DEFINE chunk == Positions(produced[s], n)
  <2>1. chunk \in Seq(Nat)
    <3>1. n \in Nat /\ produced[s] \in Nat
      BY StreamAssumption DEF TypeOK
    <3> QED  BY <3>1, ChunkIsSeq
  <2>2. /\ UNCHANGED <<socket, refs, span, sent>>
        /\ phase'[u] = phase[u] /\ reason'[u] = reason[u]
    <3>1. phase \in [Streams -> Phases] /\ reason \in [Streams -> Ends]
      BY DEF TypeOK
    <3> QED  BY <1>3, <3>1 DEF Chunk, Stopping
  <2>3. Take(s, chunk) \/ RefuseChunk(s, chunk)
    BY <1>3 DEF Chunk
  <2> HIDE DEF chunk
  <2> QED  BY <2>1, <2>2, <2>3, RingIsOwn DEF socket
<1> QED  BY <1>1, <1>2, <1>3, CallbackIsOwn DEF Sink

LEMMA AroundIsOwn ==
  ASSUME TypeOK, NEW s \in Streams, NEW u \in Streams \ {s}, Around(s)
  PROVE  Same(u)
<1> USE DEF Same
<1>1. CASE Header(s) \/ SendFails(s) \/ Terminate(s)
  <2>1. /\ writer'[u] = writer[u] /\ term'[u] = term[u]
        /\ UNCHANGED <<wire, fd, ringVars, refs, span, sent, Frame>>
    BY <1>1 DEF Header, SendFails, Terminate, TypeOK
  <2>2. UNCHANGED flags \/ MarkFailed(s, SendError(s))
    BY <1>1 DEF Header, SendFails, Terminate
  <2>3. producerDone'[u] = producerDone[u] /\ failed'[u] = failed[u] /\ err'[u] = err[u]
    <3>1. /\ producerDone \in [Streams -> BOOLEAN] /\ failed \in [Streams -> BOOLEAN]
          /\ err \in [Streams -> Errors]
      BY DEF TypeOK
    <3> QED  BY <2>2, <3>1 DEF MarkFailed, flags
  <2> QED  BY <2>1, <2>3 DEF ringVars, Frame, sinkVars
<1>2. CASE TakeSpan(s) \/ Sleep(s) \/ SpuriousWakeup(s) \/ Leave(s) \/ Decide(s)
  <2>1. /\ writer'[u] = writer[u] /\ span'[u] = span[u] /\ sent'[u] = sent[u]
        /\ UNCHANGED <<wire, term, fd, ringVars, flags, refs, Frame>>
    <3>1. /\ writer \in [Streams -> WriterStates] /\ span \in [Streams -> 0..Cap]
          /\ sent \in [Streams -> 0..Cap]
      BY DEF TypeOK
    <3> QED  BY <1>2, <3>1 DEF TakeSpan, Sleep, SpuriousWakeup, Leave, Decide
  <2> QED  BY <2>1 DEF ringVars, flags, Frame, sinkVars
<1>3. CASE SendSome(s)
  BY <1>3 DEF SendSome, TypeOK, ringVars, flags, Frame, sinkVars
<1>4. CASE Advance(s)
  BY <1>4 DEF Advance, TypeOK, flags, Frame, sinkVars
<1>5. CASE Close(s) \/ WriterReleases(s)
  BY <1>5 DEF Close, WriterReleases, Unreference, TypeOK, ringVars, flags, Frame, sinkVars
<1>6. CASE PeerChanges(s)
  BY <1>6 DEF PeerChanges, TypeOK, ringVars, flags, writerVars, sinkVars, history
<1> QED  BY <1>1, <1>2, <1>3, <1>4, <1>5, <1>6 DEF Around, WriterStep

-----------------------------------------------------------------------------
(* The invariant.                                                          *)

LEMMA StreamInit == Init => StreamInv
<1> SUFFICES ASSUME Init PROVE StreamInv
  OBVIOUS
<1>1. TypeOK
  <2>1. 0 \in 0..(Cap - 1) /\ 0 \in 0..Cap /\ 0 \in 0..MaxSamples /\ <<>> \in Seq(Nat)
    BY StreamAssumption, EmptySeq
  <2> QED  BY <2>1 DEF Init, TypeOK, Errors, WriterStates, Phases, Ends
<1>2. ASSUME NEW s \in Streams PROVE RingInv(s) /\ SinkInv(s) /\ RefsExact(s)
  <2>1. Len(wire[s]) = 0 /\ Len(accepted[s]) = 0
    BY EmptySeq DEF Init
  <2>2. writer[s] = "none" /\ queued[s] = 0 /\ phase[s] = "new" /\ refs[s] = 0
    BY DEF Init
  <2>3. RingInv(s)
    BY <2>1, <2>2 DEF Init, RingInv, SpanFits, RingHolds, WireIsPrefix, NothingUnsent, HandedBack, Left
  <2> QED  BY <2>2, <2>3 DEF Init, SinkInv, RefsExact
<1> QED  BY <1>1, <1>2 DEF StreamInv

LEMMA StreamStep == StreamInv /\ [Next]_vars => StreamInv'
<1> SUFFICES ASSUME StreamInv, [Next]_vars PROVE StreamInv'
  OBVIOUS
<1>0. TypeOK /\ \A s \in Streams : RingInv(s) /\ SinkInv(s) /\ RefsExact(s)
  BY DEF StreamInv
<1>1. ASSUME NEW s \in Streams, Sink(s) PROVE StreamInv'
  <2>1. TypeOK'
    BY <1>0, <1>1, SinkTypes
  <2>2. RingInv(s)' /\ SinkInv(s)' /\ RefsExact(s)'
    BY <1>0, <1>1, CallbackKeeps, ChunkKeeps, EndKeeps DEF Sink
  <2>3. ASSUME NEW u \in Streams \ {s} PROVE RingInv(u)' /\ SinkInv(u)' /\ RefsExact(u)'
    BY <1>0, <1>1, SinkIsOwn, SameKeeps
  <2> QED  BY <2>1, <2>2, <2>3 DEF StreamInv
<1>2. ASSUME NEW s \in Streams, Around(s) PROVE StreamInv'
  <2>1. TypeOK' /\ RingInv(s)' /\ SinkInv(s)' /\ RefsExact(s)'
    <3>1. CASE PeerChanges(s)
      BY <1>0, <3>1, PeerKeeps
    <3>2. CASE WriterStep(s) \/ SpuriousWakeup(s)
      <4>1. writer[s] = "release" => refs[s] > 0
        <5>1. RefsExact(s)
          BY <1>0
        <5> QED  BY <5>1 DEF RefsExact
      <4> QED  BY <1>0, <3>2, <4>1, WriterTypes, WriterKeeps, WriterSinkKeeps
    <3> QED  BY <1>2, <3>1, <3>2 DEF Around
  <2>2. ASSUME NEW u \in Streams \ {s} PROVE RingInv(u)' /\ SinkInv(u)' /\ RefsExact(u)'
    BY <1>0, <1>2, AroundIsOwn, SameKeeps
  <2> QED  BY <2>1, <2>2 DEF StreamInv
<1>3. CASE UNCHANGED vars
  <2>1. TypeOK'
    BY <1>0, <1>3 DEF TypeOK, vars, socket, ringVars, flags, writerVars, sinkVars, history
  <2>2. ASSUME NEW u \in Streams PROVE Same(u)
    BY <1>3 DEF Same, vars, socket, ringVars, flags, writerVars, sinkVars, history
  <2> QED  BY <1>0, <2>1, <2>2, SameKeeps DEF StreamInv
<1> QED  BY <1>1, <1>2, <1>3 DEF Next, Terminated

LEMMA StreamIsSafe == Spec => []StreamInv
<1> QED  BY StreamInit, StreamStep, PTL DEF Spec

LEMMA SafeSpan == TypeOK /\ (\A s \in Streams : RingInv(s)) => SpanUntouched
<1>1. SUFFICES ASSUME TypeOK, \A s \in Streams : RingInv(s) PROVE SpanUntouched
  OBVIOUS
<1>2. SUFFICES ASSUME NEW s \in Streams, writer[s] = "send", NEW i \in 0..(span[s] - 1)
               PROVE  ring[s][head[s] + i] = accepted[s][Len(wire[s]) - sent[s] + i + 1]
  BY <1>1 DEF SpanUntouched
<1>3. /\ Cap \in Nat \ {0} /\ head[s] \in 0..(Cap - 1) /\ queued[s] \in 0..Cap
      /\ span[s] \in 1..queued[s] /\ head[s] + span[s] <= Cap
  BY <1>1, <1>2, StreamAssumption DEF TypeOK, RingInv, SpanFits
<1>4. ring[s][(head[s] + i) % Cap] = accepted[s][HandedBack(s) + i + 1]
  <2>1. i \in 0..(queued[s] - 1)
    BY <1>3
  <2> QED  BY <1>1, <1>2, <2>1 DEF RingInv, RingHolds, Reading
<1>5. (head[s] + i) % Cap = head[s] + i
  <2>1. i \in 0..Cap /\ head[s] + i < Cap
    BY <1>3
  <2> QED  BY <1>3, <2>1, Wrapped
<1>6. HandedBack(s) = Len(wire[s]) - sent[s]
  BY <1>2 DEF HandedBack
<1> QED  BY <1>4, <1>5, <1>6

\* The writer reads the ring without the mutex, and what it reads is what comes
\* next on the wire: stream_out_enqueue() never writes into the span being sent.
THEOREM SpanIsUntouched == Spec => []SpanUntouched
<1>1. StreamInv => SpanUntouched
  BY SafeSpan DEF StreamInv
<1> QED  BY <1>1, StreamIsSafe, PTL

LEMMA SafeRefs == StreamInv => NoUseAfterFree
BY DEF StreamInv, NoUseAfterFree, RefsExact

\* Whoever still uses a stream holds a reference to it: stream_out_release() frees
\* it when neither the writer nor the sink does.
THEOREM NothingUsedAfterFree == Spec => []NoUseAfterFree
<1> QED  BY StreamIsSafe, SafeRefs, PTL

LEMMA SafeDisconnect == StreamInv => DisconnectIsReal
BY DEF StreamInv, DisconnectIsReal, SinkInv

\* A request ends as a disconnect only when its client has hung up, whether the
\* sink asks the socket or the writer's failed send() says so.
THEOREM EveryDisconnectIsReal == Spec => []DisconnectIsReal
<1> QED  BY StreamIsSafe, SafeDisconnect, PTL

-----------------------------------------------------------------------------
(* The refinement: a step hands samples over, sends one, ends or cuts the  *)
(* stream, or is none of the promise's business.                           *)

LEMMA PromiseInit == Init => Promise!Init
BY DEF Init, Promise!Init, End

EndOf(s) == IF term[s] THEN "complete"
            ELSE IF writer[s] \in {"release", "gone"} THEN "cut" ELSE "open"

\* Two ends are the same when the stream's flag and its writer's place say so.
LEMMA EndByOne ==
  ASSUME NEW s \in Streams, \A u \in Streams \ {s} : Same(u)
  PROVE  /\ End' = [End EXCEPT ![s] = EndOf(s)']
         /\ End[s] = EndOf(s)
<1>1. \A u \in Streams : End[u] = EndOf(u) /\ End'[u] = EndOf(u)'
  BY DEF End, EndOf
<1>2. \A u \in Streams \ {s} : EndOf(u)' = EndOf(u)
  BY DEF EndOf, Same
<1>3. End = [u \in Streams |-> End[u]] /\ End' = [u \in Streams |-> End'[u]]
  BY DEF End
<1>4. \A u \in Streams : u # s => End'[u] = End[u]
  BY <1>1, <1>2
<1> QED  BY <1>1, <1>3, <1>4

\* A stream that takes a chunk is open, and only grows.
LEMMA TakeIsGive ==
  ASSUME TypeOK, NEW s \in Streams, RingInv(s), \A u \in Streams \ {s} : Same(u),
         NEW chunk \in Seq(Nat), Len(chunk) > 0, Take(s, chunk), UNCHANGED <<wire, term>>
  PROVE  Promise!Give(s)
<1>1. /\ ~producerDone[s] /\ accepted' = [accepted EXCEPT ![s] = @ \o chunk]
      /\ writer'[s] = (IF writer[s] = "asleep" THEN "loop" ELSE writer[s])
  BY DEF Take, Woken, TypeOK
<1>2. ~Left(s) /\ ~term[s]
  BY <1>1 DEF RingInv, NothingUnsent, Left
<1>3. EndOf(s) = "open" /\ EndOf(s)' = "open"
  BY <1>1, <1>2 DEF EndOf, Left
<1>4. End[s] = "open" /\ End' = End
  BY <1>3, EndByOne DEF End
<1>5. /\ accepted[s] \in Seq(Nat) /\ accepted'[s] = accepted[s] \o chunk
      /\ accepted' = [accepted EXCEPT ![s] = accepted'[s]]
  BY <1>1 DEF TypeOK
<1>6. /\ Len(accepted'[s]) > Len(accepted[s])
      /\ SubSeq(accepted'[s], 1, Len(accepted[s])) = accepted[s]
  <2>1. /\ accepted'[s] \in Seq(Nat) /\ Len(accepted'[s]) = Len(accepted[s]) + Len(chunk)
        /\ \A i \in 1..Len(accepted[s]) : accepted'[s][i] = accepted[s][i]
        /\ Len(accepted[s]) \in Nat /\ Len(chunk) \in Nat
    BY <1>5, ConcatProperties, LenProperties
  <2>2. PICK n \in Nat : n = Len(accepted[s])
    BY <2>1
  <2>3. \A i \in 1..n : accepted'[s][i] \in Nat
    BY <2>1, <2>2, ElementOfSeq, <1>5
  <2>4. /\ SubSeq(accepted'[s], 1, n) \in Seq(Nat)
        /\ Len(SubSeq(accepted'[s], 1, n)) = n
        /\ \A i \in 1..n : SubSeq(accepted'[s], 1, n)[i] = accepted'[s][i]
    BY <2>3, SubSeqProperties
  <2>5. SubSeq(accepted'[s], 1, n) = accepted[s]
    BY <1>5, <2>1, <2>2, <2>4, SeqEqual
  <2> QED  BY <2>1, <2>2, <2>5
<1> QED  BY <1>4, <1>5, <1>6 DEF Promise!Give

\* A step that neither takes, sends, terminates nor closes is not seen.
LEMMA NotSeen ==
  ASSUME NEW s \in Streams, \A u \in Streams \ {s} : Same(u),
         UNCHANGED <<wire, accepted>>, EndOf(s)' = EndOf(s)
  PROVE  UNCHANGED Promise!vars
<1>1. End' = [End EXCEPT ![s] = EndOf(s)'] /\ End[s] = EndOf(s)
  BY EndByOne
<1>2. End = [u \in Streams |-> End[u]]
  BY DEF End
<1>3. End' = End
  BY <1>1, <1>2
<1> QED  BY <1>3 DEF Promise!vars

LEMMA SinkIsPromised ==
  ASSUME StreamInv, NEW s \in Streams, Sink(s)
  PROVE  Promise!Give(s) \/ UNCHANGED Promise!vars
<1>0. TypeOK /\ RingInv(s) /\ SinkInv(s) /\ \A u \in Streams \ {s} : Same(u)
  BY SinkIsOwn DEF StreamInv
<1>1. CASE Callbacks(s) \/ Finish(s) \/ Release(s)
  <2>1. UNCHANGED <<wire, term, accepted>>
    BY <1>1 DEF Callbacks, Start, StartFails, Expire, PollPeer, CheckFailed, EngineDone, Finish,
                Release, socket, history
  <2>2. writer'[s] \in {"release", "gone"} <=> writer[s] \in {"release", "gone"}
    <3>1. CASE Start(s)
      <4>1. phase[s] = "new" /\ writer'[s] = "header"
        BY <1>0, <3>1 DEF Start, TypeOK
      <4> QED  BY <1>0, <4>1 DEF SinkInv
    <3>2. CASE PollPeer(s)
      BY <1>0, <3>2 DEF PollPeer, PeerGone, PeerStays, Abandon, Woken, TypeOK
    <3>3. CASE Finish(s)
      BY <1>0, <3>3 DEF Finish, FinishStream, Woken, TypeOK
    <3> QED  BY <1>1, <3>1, <3>2, <3>3 DEF Callbacks, StartFails, Expire, CheckFailed, EngineDone,
                                         Release, writerVars
  <2>3. EndOf(s)' = EndOf(s)
    BY <2>1, <2>2 DEF EndOf
  <2> QED  BY <1>0, <2>1, <2>3, NotSeen
<1>2. ASSUME NEW n \in ChunkSizes, Chunk(s, n) PROVE Promise!Give(s) \/ UNCHANGED Promise!vars
  <2> DEFINE chunk == Positions(produced[s], n)
  <2>1. chunk \in Seq(Nat) /\ Len(chunk) > 0
    <3>1. n \in Nat \ {0} /\ produced[s] \in Nat
      BY <1>0, StreamAssumption DEF TypeOK
    <3>2. chunk \in Seq(Nat) /\ Len(chunk) = n
      BY <3>1, ChunkIsSeq
    <3> HIDE DEF chunk
    <3> QED  BY <3>1, <3>2
  <2>2. UNCHANGED <<wire, term>>
    BY <1>2 DEF Chunk, socket
  <2>3. Take(s, chunk) \/ RefuseChunk(s, chunk)
    BY <1>2 DEF Chunk
  <2> HIDE DEF chunk
  <2>4. CASE Take(s, chunk)
    BY <1>0, <2>1, <2>2, <2>4, TakeIsGive
  <2>5. CASE RefuseChunk(s, chunk)
    <3>1. /\ accepted' = accepted
          /\ writer'[s] \in {"release", "gone"} <=> writer[s] \in {"release", "gone"}
      BY <1>0, <2>5 DEF RefuseChunk, Abandon, Woken, TypeOK
    <3>2. EndOf(s)' = EndOf(s)
      BY <2>2, <3>1 DEF EndOf
    <3> QED  BY <1>0, <2>2, <3>1, <3>2, NotSeen
  <2> QED  BY <2>3, <2>4, <2>5
<1> QED  BY <1>1, <1>2 DEF Sink

LEMMA WriterIsPromised ==
  ASSUME StreamInv, NEW s \in Streams, Around(s)
  PROVE  Promise!Send(s) \/ Promise!Complete(s) \/ Promise!Cut(s) \/ UNCHANGED Promise!vars
<1>0. TypeOK /\ RingInv(s) /\ \A u \in Streams \ {s} : Same(u)
  BY AroundIsOwn DEF StreamInv
<1>1. CASE SendSome(s)
  <2>1. /\ writer[s] = "send" /\ sent[s] < span[s] /\ UNCHANGED <<term, writer, accepted>>
        /\ wire' = [wire EXCEPT ![s] = Append(@, ring[s][head[s] + sent[s]])]
    BY <1>1 DEF SendSome, Frame
  <2>2. /\ Len(wire[s]) < Len(accepted[s])
        /\ ring[s][head[s] + sent[s]] = accepted[s][Len(wire[s]) + 1]
    BY <1>0, <2>1, NextSample
  <2>3. ~term[s]
    BY <1>0, <2>1 DEF RingInv, NothingUnsent
  <2>4. End[s] = "open" /\ End' = End
    BY <2>1, <2>3 DEF End
  <2>5. wire' = [wire EXCEPT ![s] = Append(wire[s], accepted[s][Len(wire[s]) + 1])]
    BY <2>1, <2>2
  <2> QED  BY <2>1, <2>2, <2>4, <2>5 DEF Promise!Send
<1>2. CASE Terminate(s)
  <2>1. writer[s] = "terminate" /\ writer'[s] = "close" /\ UNCHANGED <<wire, accepted>>
    BY <1>0, <1>2 DEF Terminate, TypeOK, Frame
  <2>2. ~term[s] /\ EndOf(s) = "open"
    BY <1>0, <2>1 DEF RingInv, NothingUnsent, EndOf
  <2>3. CASE term' = [term EXCEPT ![s] = TRUE]
    <3>1. EndOf(s)' = "complete"
      BY <1>0, <2>3 DEF EndOf, TypeOK
    <3>2. wire[s] = accepted[s]
      <4>1. Len(wire[s]) = Len(accepted[s]) /\ \A i \in 1..Len(wire[s]) : wire[s][i] = accepted[s][i]
        BY <1>0, <2>1 DEF RingInv, NothingUnsent, WireIsPrefix
      <4> QED  BY <1>0, <4>1, SeqEqual DEF TypeOK
    <3> QED  BY <1>0, <2>1, <2>2, <3>1, <3>2, EndByOne DEF Promise!Complete
  <2>4. CASE term' = term
    <3>1. EndOf(s)' = EndOf(s)
      BY <2>1, <2>2, <2>4 DEF EndOf
    <3> QED  BY <1>0, <2>1, <3>1, NotSeen
  <2> QED  BY <1>2, <2>3, <2>4 DEF Terminate
<1>3. CASE Close(s)
  <2>1. writer[s] = "close" /\ writer'[s] = "release" /\ UNCHANGED <<wire, term, accepted>>
    BY <1>0, <1>3 DEF Close, TypeOK, Frame
  <2>2. CASE term[s]
    <3>1. EndOf(s)' = EndOf(s)
      BY <2>1, <2>2 DEF EndOf
    <3> QED  BY <1>0, <2>1, <3>1, NotSeen
  <2>3. CASE ~term[s]
    <3>1. EndOf(s) = "open" /\ EndOf(s)' = "cut"
      BY <2>1, <2>3 DEF EndOf
    <3> QED  BY <1>0, <2>1, <3>1, EndByOne DEF Promise!Cut
  <2> QED  BY <2>2, <2>3
<1>4. CASE PeerChanges(s)
  <2>1. UNCHANGED <<wire, term, writer, accepted>>
    BY <1>4 DEF PeerChanges, writerVars, history
  <2> QED  BY <2>1 DEF Promise!vars, End
<1>5. CASE \/ Header(s) \/ TakeSpan(s) \/ Sleep(s) \/ Leave(s) \/ SendFails(s) \/ Advance(s)
           \/ Decide(s) \/ WriterReleases(s) \/ SpuriousWakeup(s)
  <2>1. UNCHANGED <<wire, term, accepted>>
    BY <1>5 DEF Header, TakeSpan, Sleep, Leave, SendFails, Advance, Decide, WriterReleases,
                SpuriousWakeup, Frame
  <2>2. writer'[s] \in {"release", "gone"} <=> writer[s] \in {"release", "gone"}
    BY <1>0, <1>5 DEF Header, TakeSpan, Sleep, Leave, SendFails, Advance, Decide, WriterReleases,
                      SpuriousWakeup, TypeOK
  <2>3. EndOf(s)' = EndOf(s)
    BY <2>1, <2>2 DEF EndOf
  <2> QED  BY <1>0, <2>1, <2>3, NotSeen
<1> QED  BY <1>1, <1>2, <1>3, <1>4, <1>5 DEF Around, WriterStep

LEMMA PromiseStep == StreamInv /\ [Next]_vars => [Promise!Next]_(Promise!vars)
<1> SUFFICES ASSUME StreamInv, [Next]_vars
             PROVE  Promise!Next \/ UNCHANGED Promise!vars
  OBVIOUS
<1>1. CASE UNCHANGED vars
  BY <1>1 DEF vars, socket, writerVars, history, Promise!vars, End
<1> QED  BY <1>1, SinkIsPromised, WriterIsPromised DEF Next, Terminated, Promise!Next

\* To its client a streaming response is a queue that is emptied in order: what
\* arrives is a prefix of what was synthesized, and its end is marked only when
\* all of it has arrived.
THEOREM ResponseIsAByteStream == Spec => ImplementsByteStream
<1> QED  BY PromiseInit, PromiseStep, StreamIsSafe, PTL DEF Spec, ImplementsByteStream, Promise!Spec

-----------------------------------------------------------------------------
(* Delivery: the inductive invariant.                                      *)

LaneIds == 0..(Lanes - 1)

\* what a lane's helper has still to do, in order
Line(l) == batch[l] \o queue[l]

\* A parked helper says so, has no work, and has finished what it took.
HelperInv(l) ==
  /\ helper[l] = "parked" => idle[l] /\ queue[l] = <<>>
  /\ helper[l] \in {"top", "parked"} => batch[l] = <<>>
  /\ helper[l] = "closing" => /\ batch[l] # <<>> /\ Head(batch[l]).item = NoItem

\* Work is on its stream's lane; a close is the last of its stream's, and comes
\* for every chunk of a stream that was let go; a chunk comes before the end.
WorkInv(l, i) ==
  LET s == Line(l)[i].stream IN
  /\ laneOf[s] = l
  /\ Line(l)[i].item = NoItem =>
       /\ phase[s] = "released"
       /\ \A j \in DOMAIN Line(l) : Line(l)[j].stream = s /\ j # i => j < i /\ Line(l)[j].item # NoItem
  /\ Line(l)[i].item # NoItem =>
       /\ phase[s] \in {"running", "polled", "stopping", "released"}
       /\ phase[s] = "released" => \E j \in DOMAIN Line(l) : j > i /\ Line(l)[j] = CloseOf(s)
       /\ producerDone[s] => failed[s]

ClosePending(s) == \E i \in DOMAIN Line(laneOf[s]) : Line(laneOf[s])[i] = CloseOf(s)

\* One reference is the writer's; the other is the sink's until it queues the
\* close, then the close's.
Open == {"running", "polled", "stopping"}
WriterRef(s) == IF writer[s] \in {"none", "gone"} THEN 0 ELSE 1
SinkRef(s) == IF phase[s] \in Open THEN 1 ELSE 0
CloseRef(s) == IF ClosePending(s) THEN 1 ELSE 0
RefsShared(s) == refs[s] = WriterRef(s) + SinkRef(s) + CloseRef(s)

SchedInv ==
  /\ sched.at = "idle" => sched = Idle
  /\ sched.at # "idle" => sched.stream \in Streams /\ phase[sched.stream] = "running"
  /\ sched.at = "push" => sched.item \in Items

StreamsOK ==
  TypeOK /\ \A s \in Streams : RingInv(s) /\ SinkInv(s) /\ phase[s] # "finished"
LinesOK == \A l \in LaneIds : \A i \in DOMAIN Line(l) : WorkInv(l, i)

DeliverInv ==
  /\ LaneType /\ StreamsOK /\ LinesOK /\ SchedInv
  /\ \A l \in LaneIds : HelperInv(l)
  /\ \A s \in Streams : RefsShared(s)

-----------------------------------------------------------------------------
(* Items and order.                                                        *)

\* where an item may be: recycled, done with, on a line, or in the scheduler's hand
At(x, k, l, i) ==
  \/ k = "spare" /\ i \in DOMAIN spare[l] /\ spare[l][i] = x
  \/ k = "spent" /\ i \in DOMAIN spent[l] /\ spent[l][i] = x
  \/ k = "line" /\ i \in DOMAIN Line(l) /\ Line(l)[i].item = x
  \/ k = "hand" /\ l = 0 /\ i = 1 /\ sched.item = x

\* No item is in two places.
Kinds == {"spare", "spent", "line", "hand"}
Apart(x) ==
  \A k, k2 \in Kinds, l, l2 \in LaneIds, i, i2 \in Nat :
    At(x, k, l, i) /\ At(x, k2, l2, i2) => k = k2 /\ l = l2 /\ i = i2
ItemsApart == \A x \in Items : Apart(x)

\* the chunk the scheduler has in hand
InHand(s) == IF sched.stream # s THEN <<>>
             ELSE IF sched.at = "fill" THEN sched.chunk ELSE content[sched.item]
Handed(s) == produced[s] - Len(InHand(s))
ChunksOf(s) == {i \in DOMAIN Line(laneOf[s]) :
                  Line(laneOf[s])[i].stream = s /\ Line(laneOf[s])[i].item # NoItem}
Pending(s, i) == content[Line(laneOf[s])[i].item]
First(c) == c[1]
Last(c) == c[Len(c)]
Straight(c) == Len(c) > 0 /\ \A k \in 1..Len(c) : c[k] = First(c) + k - 1

\* What is on its way to the ring is what was handed over since, in order.
Ordered(s) ==
  /\ Len(accepted[s]) <= Handed(s)
  /\ \A i \in ChunksOf(s) : /\ Straight(Pending(s, i))
                            /\ First(Pending(s, i)) > Len(accepted[s])
                            /\ Last(Pending(s, i)) <= Handed(s)
  /\ \A i, j \in ChunksOf(s) : i < j => Last(Pending(s, i)) < First(Pending(s, j))
  /\ \A m \in (Len(accepted[s]) + 1)..Handed(s) :
       \E i \in ChunksOf(s) : First(Pending(s, i)) <= m /\ m <= Last(Pending(s, i))
  /\ sched.stream = s => Straight(InHand(s)) /\ First(InHand(s)) = Handed(s) + 1

OrderInv(s) ==
  /\ \A i \in DOMAIN accepted[s] : accepted[s][i] = i
  /\ refused[s] => failed[s]
  /\ ~failed[s] => Ordered(s)

FullInv == DeliverInv /\ ItemsApart /\ \A s \in Streams : OrderInv(s)

-----------------------------------------------------------------------------
(* The lines.                                                              *)

LEMMA ConcatParts ==
  ASSUME NEW S, NEW a \in Seq(S), NEW b \in Seq(S)
  PROVE  /\ a \o b \in Seq(S) /\ Len(a \o b) = Len(a) + Len(b)
         /\ Len(a) \in Nat /\ Len(b) \in Nat
         /\ DOMAIN (a \o b) = 1..Len(a \o b) /\ DOMAIN a = 1..Len(a) /\ DOMAIN b = 1..Len(b)
         /\ \A i \in 1..Len(a) : (a \o b)[i] = a[i]
         /\ \A i \in 1..Len(b) : (a \o b)[Len(a) + i] = b[i]
<1>1. /\ a \o b \in Seq(S) /\ Len(a \o b) = Len(a) + Len(b)
      /\ \A i \in 1..(Len(a) + Len(b)) : (a \o b)[i] = IF i <= Len(a) THEN a[i] ELSE b[i - Len(a)]
  BY ConcatProperties
<1>2. /\ Len(a) \in Nat /\ Len(b) \in Nat
      /\ DOMAIN (a \o b) = 1..Len(a \o b) /\ DOMAIN a = 1..Len(a) /\ DOMAIN b = 1..Len(b)
  BY <1>1, LenProperties
<1>3. ASSUME NEW i \in 1..Len(a) PROVE (a \o b)[i] = a[i]
  BY <1>1, <1>2
<1>4. ASSUME NEW i \in 1..Len(b) PROVE (a \o b)[Len(a) + i] = b[i]
  <2>1. /\ Len(a) + i \in 1..(Len(a) + Len(b))
        /\ ~(Len(a) + i <= Len(a)) /\ (Len(a) + i) - Len(a) = i
    BY <1>2
  <2> QED  BY <1>1, <2>1
<1> QED  BY <1>1, <1>2, <1>3, <1>4

LEMMA TailOfConcat ==
  ASSUME NEW S, NEW a \in Seq(S), NEW b \in Seq(S), a # <<>>
  PROVE  /\ a \o b # <<>> /\ 1 \in DOMAIN (a \o b) /\ 1 \in DOMAIN a
         /\ Head(a) = (a \o b)[1] /\ Head(a) \in S
         /\ Tail(a \o b) = Tail(a) \o b
<1>1. /\ Len(a) \in Nat \ {0} /\ Len(b) \in Nat /\ a \o b \in Seq(S)
      /\ Len(a \o b) = Len(a) + Len(b)
      /\ DOMAIN (a \o b) = 1..Len(a \o b) /\ DOMAIN a = 1..Len(a)
  BY ConcatParts, EmptySeq
<1>2. 1 \in 1..Len(a) /\ Len(a \o b) # 0 /\ 1 \in 1..Len(a \o b)
  BY <1>1
<1>3. a \o b # <<>>
  BY <1>2, EmptySeq
<1>4. /\ Tail(a) \in Seq(S) /\ Len(Tail(a)) = Len(a) - 1
      /\ \A i \in 1..Len(Tail(a)) : Tail(a)[i] = a[i + 1]
      /\ Head(a) \in S
  BY HeadTailProperties
<1>5. Head(a) = (a \o b)[1]
  BY <1>2, ConcatParts
<1>6. Tail(a \o b) = Tail(a) \o b
  <2>1. /\ Tail(a \o b) \in Seq(S) /\ Len(Tail(a \o b)) = Len(a \o b) - 1
        /\ \A i \in 1..Len(Tail(a \o b)) : Tail(a \o b)[i] = (a \o b)[i + 1]
    BY <1>1, <1>3, HeadTailProperties
  <2>2. /\ Tail(a) \o b \in Seq(S) /\ Len(Tail(a) \o b) = (Len(a) - 1) + Len(b)
        /\ \A i \in 1..Len(Tail(a)) : (Tail(a) \o b)[i] = Tail(a)[i]
        /\ \A i \in 1..Len(b) : (Tail(a) \o b)[Len(Tail(a)) + i] = b[i]
    BY <1>4, ConcatParts
  <2>3. Len(Tail(a \o b)) = Len(Tail(a) \o b)
    BY <1>1, <2>1, <2>2
  <2>4. ASSUME NEW i \in 1..Len(Tail(a \o b)) PROVE Tail(a \o b)[i] = (Tail(a) \o b)[i]
    <3>1. i \in Nat /\ i >= 1 /\ i <= (Len(a) - 1) + Len(b)
      BY <1>1, <2>1
    <3>2. CASE i <= Len(a) - 1
      <4>1. i \in 1..Len(Tail(a)) /\ i + 1 \in 1..Len(a)
        BY <1>1, <1>4, <3>1, <3>2
      <4>2. (a \o b)[i + 1] = a[i + 1]
        BY <4>1, ConcatParts
      <4> QED  BY <1>4, <2>1, <2>2, <4>1, <4>2
    <3>3. CASE i > Len(a) - 1
      <4>0. i - (Len(a) - 1) \in 1..Len(b)
        BY <1>1, <3>1, <3>3
      <4>1. PICK j \in 1..Len(b) : j = i - (Len(a) - 1)
        BY <4>0
      <4>2. i = Len(Tail(a)) + j /\ i + 1 = Len(a) + j
        BY <1>1, <1>4, <4>1, <3>1
      <4>3. (a \o b)[Len(a) + j] = b[j]
        BY ConcatParts
      <4> QED  BY <2>1, <2>2, <4>2, <4>3
    <3> QED  BY <1>1, <3>1, <3>2, <3>3
  <2> QED  BY <2>1, <2>2, <2>3, <2>4, SeqEqual
<1> QED  BY <1>1, <1>2, <1>3, <1>4, <1>5, <1>6

LEMMA AppendOfConcat ==
  ASSUME NEW S, NEW a \in Seq(S), NEW b \in Seq(S), NEW w \in S
  PROVE  a \o Append(b, w) = Append(a \o b, w)
<1>1. <<w>> \in Seq(S)
  OBVIOUS
<1>2. a \o b \in Seq(S)
  BY ConcatProperties
<1>3. Append(b, w) = b \o <<w>> /\ Append(a \o b, w) = (a \o b) \o <<w>>
  BY <1>2, AppendIsConcat
<1> QED  BY <1>1, <1>3, ConcatAssociative

LEMMA LineType ==
  ASSUME LaneType, NEW l \in LaneIds
  PROVE  /\ Line(l) \in Seq(Work) /\ batch[l] \in Seq(Work) /\ queue[l] \in Seq(Work)
         /\ Len(Line(l)) = Len(batch[l]) + Len(queue[l])
         /\ Len(batch[l]) \in Nat /\ Len(queue[l]) \in Nat
         /\ DOMAIN Line(l) = 1..Len(Line(l))
         /\ DOMAIN batch[l] = 1..Len(batch[l]) /\ DOMAIN queue[l] = 1..Len(queue[l])
         /\ \A i \in 1..Len(batch[l]) : Line(l)[i] = batch[l][i]
         /\ \A i \in 1..Len(queue[l]) : Line(l)[Len(batch[l]) + i] = queue[l][i]
<1>1. batch[l] \in Seq(Work) /\ queue[l] \in Seq(Work)
  BY DEF LaneType, LaneIds
<1>2. PICK a \in Seq(Work) : a = batch[l]
  BY <1>1
<1>3. PICK b \in Seq(Work) : b = queue[l]
  BY <1>1
<1>4. /\ a \o b \in Seq(Work) /\ Len(a \o b) = Len(a) + Len(b)
      /\ Len(a) \in Nat /\ Len(b) \in Nat
      /\ DOMAIN (a \o b) = 1..Len(a \o b) /\ DOMAIN a = 1..Len(a) /\ DOMAIN b = 1..Len(b)
      /\ \A i \in 1..Len(a) : (a \o b)[i] = a[i]
      /\ \A i \in 1..Len(b) : (a \o b)[Len(a) + i] = b[i]
  BY ConcatParts
<1>5. Line(l) = a \o b
  BY <1>2, <1>3 DEF Line
<1> QED  BY <1>2, <1>3, <1>4, <1>5

\* What a step does to the lines: nothing, ...
LineSame == \A m \in LaneIds : Line(m)' = Line(m)

\* ... one more at the end of lane l's, or one less at its front.
Pushed(l, w) ==
  /\ Line(l)' = Append(Line(l), w)
  /\ \A m \in LaneIds \ {l} : Line(m)' = Line(m)

Popped(l) ==
  /\ Line(l) # <<>> /\ Line(l)' = Tail(Line(l))
  /\ \A m \in LaneIds \ {l} : Line(m)' = Line(m)

LEMMA PushPushes ==
  ASSUME LaneType, NEW l \in LaneIds, NEW w \in Work, Push(l, w), UNCHANGED batch
  PROVE  Pushed(l, w)
<1>1. /\ queue'[l] = Append(queue[l], w) /\ batch' = batch
      /\ \A m \in LaneIds \ {l} : queue'[m] = queue[m]
  BY DEF Push, LaneType, LaneIds
<1>2. batch[l] \in Seq(Work) /\ queue[l] \in Seq(Work)
  BY LineType
<1>3. Line(l)' = batch[l] \o Append(queue[l], w)
  BY <1>1 DEF Line
<1>4. batch[l] \o Append(queue[l], w) = Append(Line(l), w)
  <2>1. PICK a \in Seq(Work) : a = batch[l]
    BY <1>2
  <2>2. PICK b \in Seq(Work) : b = queue[l]
    BY <1>2
  <2>3. a \o Append(b, w) = Append(a \o b, w)
    BY AppendOfConcat
  <2> QED  BY <2>1, <2>2, <2>3 DEF Line
<1>5. Line(l)' = Append(Line(l), w)
  BY <1>3, <1>4
<1> QED  BY <1>1, <1>5 DEF Line, Pushed

LEMMA TakeLeavesLine ==
  ASSUME LaneType, NEW l \in LaneIds, batch[l] = <<>>,
         batch' = [batch EXCEPT ![l] = queue[l]], queue' = [queue EXCEPT ![l] = <<>>]
  PROVE  LineSame
<1>1. /\ batch'[l] = queue[l] /\ queue'[l] = <<>>
      /\ \A m \in LaneIds \ {l} : batch'[m] = batch[m] /\ queue'[m] = queue[m]
  BY DEF LaneType, LaneIds
<1>2. <<>> \o queue[l] = queue[l] /\ queue[l] \o <<>> = queue[l]
  BY LineType, ConcatEmptySeq
<1> QED  BY <1>1, <1>2 DEF LineSame, Line

LEMMA PopPops ==
  ASSUME LaneType, NEW l \in LaneIds, batch[l] # <<>>,
         batch' = [batch EXCEPT ![l] = Tail(@)], UNCHANGED queue
  PROVE  /\ Popped(l) /\ Head(batch[l]) = Line(l)[1] /\ 1 \in DOMAIN Line(l)
         /\ Head(batch[l]) \in Work
<1>1. /\ batch'[l] = Tail(batch[l]) /\ queue' = queue
      /\ \A m \in LaneIds \ {l} : batch'[m] = batch[m]
  BY DEF LaneType, LaneIds
<1>2. batch[l] \in Seq(Work) /\ queue[l] \in Seq(Work)
  BY LineType
<1>3. /\ Line(l) # <<>> /\ 1 \in DOMAIN Line(l) /\ Head(batch[l]) = Line(l)[1]
      /\ Head(batch[l]) \in Work
      /\ Tail(Line(l)) = Tail(batch[l]) \o queue[l]
  BY <1>2, TailOfConcat DEF Line
<1>7. Line(l)' = Tail(Line(l))
  BY <1>1, <1>3 DEF Line
<1> QED  BY <1>1, <1>3, <1>7 DEF Line, Popped

LEMMA NoLineChange ==
  ASSUME UNCHANGED <<batch, queue>>
  PROVE  LineSame
BY DEF LineSame, Line

-----------------------------------------------------------------------------
(* The streams: what each step does to them.                               *)

\* What a step other than a close's does to a stream that may have work on a line.
Steady(u) ==
  /\ phase[u] \in Open => phase'[u] \in Open
  /\ phase'[u] = "released" <=> phase[u] = "released"
  /\ phase[u] # "new" => laneOf'[u] = laneOf[u]
  /\ failed[u] => failed'[u]
  /\ producerDone'[u] => producerDone[u] \/ failed'[u]
  /\ refs'[u] + WriterRef(u) + SinkRef(u) = refs[u] + WriterRef(u)' + SinkRef(u)'

LEMMA SameIsSteady ==
  ASSUME NEW u, Same(u), laneOf'[u] = laneOf[u]
  PROVE  Steady(u)
<1>1. WriterRef(u)' = WriterRef(u) /\ SinkRef(u)' = SinkRef(u)
  BY DEF Same, WriterRef, SinkRef
<1> QED  BY <1>1 DEF Same, Steady

LEMMA IdleStreams ==
  ASSUME StreamsOK, UNCHANGED <<vars, laneOf>>
  PROVE  StreamsOK' /\ \A u \in Streams : Same(u) /\ Steady(u)
<1>1. TypeOK'
  BY DEF StreamsOK, TypeOK, vars, socket, ringVars, flags, writerVars, sinkVars, history
<1>2. ASSUME NEW u \in Streams PROVE Same(u)
  BY DEF Same, vars, socket, ringVars, flags, writerVars, sinkVars, history
<1>3. ASSUME NEW u \in Streams PROVE RingInv(u)' /\ SinkInv(u)' /\ phase'[u] # "finished"
  <2>1. Same(u)
    BY <1>2
  <2> QED  BY <2>1, SameKeeps DEF StreamsOK, Same
<1> QED  BY <1>1, <1>2, <1>3, SameIsSteady DEF StreamsOK

\* One stream at a time.
LEMMA OneStream ==
  ASSUME StreamsOK, NEW s \in Streams, TypeOK', RingInv(s)', SinkInv(s)', phase'[s] # "finished",
         \A u \in Streams \ {s} : Same(u)
  PROVE  StreamsOK'
<1>1. ASSUME NEW u \in Streams \ {s} PROVE RingInv(u)' /\ SinkInv(u)' /\ phase'[u] # "finished"
  <2>1. Same(u)
    BY <1>1
  <2> QED  BY <2>1, SameKeeps DEF StreamsOK, Same
<1> QED  BY <1>1 DEF StreamsOK

LEMMA OtherLanes ==
  ASSUME LaneType, NEW s \in Streams, NEW u \in Streams \ {s}, DeliverCallbacks(s)
  PROVE  laneOf'[u] = laneOf[u]
BY DEF DeliverCallbacks, LaneType

LEMMA CallbackSteady ==
  ASSUME StreamsOK, LaneType, NEW s \in Streams, DeliverCallbacks(s),
         refs[s] = WriterRef(s) + SinkRef(s)
  PROVE  StreamsOK' /\ \A u \in Streams : Steady(u)
<1>1. TypeOK /\ RingInv(s) /\ SinkInv(s) /\ phase[s] # "finished" /\ Callbacks(s)
  BY DEF StreamsOK, DeliverCallbacks
<1>2. RefsExact(s)
  BY <1>1 DEF RefsExact, WriterRef, SinkRef, Open
<1>3. TypeOK' /\ RingInv(s)' /\ SinkInv(s)' /\ RefsExact(s)'
  BY <1>1, <1>2, CallbackTypes, CallbackKeeps
<1>4. /\ phase[s] \in {"new", "running", "polled"}
      /\ phase[s] = "new" => phase'[s] \in {"running", "rejected"}
      /\ phase[s] # "new" => phase'[s] \in {"running", "polled", "stopping"} /\ ~Start(s)
  BY <1>1 DEF Callbacks, Start, StartFails, Expire, PollPeer, PeerGone, PeerStays, CheckFailed,
              EngineDone, Stopping, TypeOK
<1>5. \A u \in Streams \ {s} : Same(u)
  BY <1>1, CallbackIsOwn
<1>6. StreamsOK'
  BY <1>3, <1>4, <1>5, OneStream
<1>7. refs'[s] = WriterRef(s)' + SinkRef(s)'
  BY <1>3, <1>4 DEF RefsExact, WriterRef, SinkRef, Open
<1>8. failed[s] => failed'[s]
  BY <1>1 DEF Callbacks, Start, StartFails, Expire, PollPeer, PeerGone, PeerStays, Abandon, MarkFailed,
              CheckFailed, EngineDone, TypeOK, flags
<1>9. producerDone'[s] => failed'[s]
  BY <1>3, <1>4 DEF SinkInv
<1>10. phase[s] # "new" => laneOf'[s] = laneOf[s]
  BY <1>4 DEF DeliverCallbacks
<1>11. Steady(s)
  <2>1. refs'[s] + WriterRef(s) + SinkRef(s) = refs[s] + WriterRef(s)' + SinkRef(s)'
    BY <1>7 DEF WriterRef, SinkRef
  <2> QED  BY <1>4, <1>8, <1>9, <1>10, <2>1 DEF Steady, Open
<1>12. ASSUME NEW u \in Streams \ {s} PROVE Steady(u)
  BY <1>5, OtherLanes, SameIsSteady
<1> QED  BY <1>6, <1>11, <1>12

\* A chunk that goes no further than the scheduler.
LEMMA RefusedSteady ==
  ASSUME StreamsOK, NEW s \in Streams, NEW n \in ChunkSizes, DeliverRefused(s, n)
  PROVE  StreamsOK' /\ \A u \in Streams : Steady(u)
<1>1. /\ TypeOK /\ RingInv(s) /\ SinkInv(s) /\ phase[s] = "running"
      /\ produced[s] + n <= MaxSamples /\ produced' = [produced EXCEPT ![s] = @ + n]
      /\ refused' = [refused EXCEPT ![s] = TRUE] /\ Stopping(s, "cancelled")
      /\ UNCHANGED <<socket, ringVars, flags, refs, writerVars, accepted, laneVars>>
  BY DEF StreamsOK, DeliverRefused
<1>2. TypeOK'
  <2>1. produced' \in [Streams -> 0..MaxSamples]
    BY <1>1, StreamAssumption DEF TypeOK
  <2>2. phase' \in [Streams -> Phases] /\ reason' \in [Streams -> Ends]
    BY <1>1 DEF TypeOK, Stopping, Phases, Ends
  <2>3. refused' \in [Streams -> BOOLEAN]
    BY <1>1 DEF TypeOK
  <2> QED  BY <1>1, <2>1, <2>2, <2>3 DEF TypeOK, socket, ringVars, flags, writerVars
<1>3. phase'[s] = "stopping" /\ reason'[s] = "cancelled"
  BY <1>1 DEF Stopping, TypeOK
<1>4. Quiet(s) /\ writer' = writer
  BY <1>1, AbandonIsQuiet DEF socket, writerVars
<1>5. RingInv(s)'
  BY <1>1, <1>4, QuietKeeps
<1>6. SinkInv(s)'
  BY <1>1, <1>3 DEF SinkInv, socket, flags, writerVars
<1>7. ASSUME NEW u \in Streams \ {s} PROVE Same(u) /\ laneOf'[u] = laneOf[u]
  BY <1>1 DEF Same, Stopping, TypeOK, socket, ringVars, flags, writerVars, laneVars
<1>8. Steady(s)
  BY <1>1, <1>3 DEF Steady, Open, WriterRef, SinkRef, flags, writerVars, laneVars
<1> QED  BY <1>2, <1>3, <1>5, <1>6, <1>7, <1>8, OneStream, SameIsSteady

LEMMA TakesItemSteady ==
  ASSUME StreamsOK, NEW s \in Streams, NEW n \in ChunkSizes, DeliverTakesItem(s, n)
  PROVE  StreamsOK' /\ \A u \in Streams : Steady(u) /\ Same(u)
<1>1. /\ TypeOK /\ produced[s] + n <= MaxSamples /\ produced' = [produced EXCEPT ![s] = @ + n]
      /\ UNCHANGED <<socket, ringVars, flags, refs, writerVars, phase, reason, history, laneOf>>
  BY DEF StreamsOK, DeliverTakesItem
<1>2. TypeOK'
  <2>1. produced' \in [Streams -> 0..MaxSamples]
    BY <1>1, StreamAssumption DEF TypeOK
  <2> QED  BY <1>1, <2>1 DEF TypeOK, socket, ringVars, flags, writerVars, history
<1>3. ASSUME NEW u \in Streams PROVE Same(u) /\ laneOf'[u] = laneOf[u]
  BY <1>1 DEF Same, socket, ringVars, flags, writerVars, history
<1>4. RingInv(s)' /\ SinkInv(s)' /\ phase'[s] # "finished"
  BY <1>3, SameKeeps DEF StreamsOK, Same
<1> QED  BY <1>2, <1>3, <1>4, OneStream, SameIsSteady

LEMMA FailsSteady ==
  ASSUME StreamsOK, SchedInv, DeliverFails
  PROVE  StreamsOK' /\ \A u \in Streams : Steady(u)
<1>0. PICK s \in Streams : s = sched.stream
  BY DEF DeliverFails, SchedInv
<1>1. /\ TypeOK /\ RingInv(s) /\ SinkInv(s) /\ phase[s] = "running"
      /\ refused' = [refused EXCEPT ![s] = TRUE] /\ Stopping(s, "cancelled") /\ Abandon(s, "nomem")
      /\ UNCHANGED <<socket, ringVars, refs, span, sent, produced, accepted, laneOf>>
  BY <1>0 DEF StreamsOK, DeliverFails, SchedInv
<1>2. TypeOK'
  <2>1. FlagTypes
    BY <1>1, AbandonTypes DEF Errors
  <2>2. phase' \in [Streams -> Phases] /\ reason' \in [Streams -> Ends]
    BY <1>1 DEF TypeOK, Stopping, Phases, Ends
  <2>3. refused' \in [Streams -> BOOLEAN]
    BY <1>1 DEF TypeOK
  <2> QED  BY <1>1, <2>1, <2>2, <2>3 DEF TypeOK, FlagTypes, socket, ringVars
<1>3. /\ phase'[s] = "stopping" /\ reason'[s] = "cancelled"
      /\ writer'[s] = writer[s] \/ (writer[s] = "asleep" /\ writer'[s] = "loop")
      /\ failed'[s] /\ (err'[s] = "hangup" => err[s] = "hangup")
  BY <1>1 DEF Stopping, Abandon, MarkFailed, Woken, TypeOK
<1>4. Quiet(s)
  BY <1>1, AbandonIsQuiet DEF Abandon, socket
<1>5. RingInv(s)'
  BY <1>1, <1>3, <1>4, QuietKeeps
<1>6. SinkInv(s)'
  BY <1>1, <1>3 DEF SinkInv, socket
<1>7. ASSUME NEW u \in Streams \ {s} PROVE Same(u) /\ laneOf'[u] = laneOf[u]
  <2>1. phase'[u] = phase[u] /\ reason'[u] = reason[u]
    BY <1>1 DEF Stopping, TypeOK
  <2>2. "nomem" \in Errors
    BY DEF Errors
  <2> QED  BY <1>1, <2>1, <2>2, RingIsOwn DEF Same, socket, ringVars
<1>8. Steady(s)
  BY <1>1, <1>3 DEF Steady, Open, WriterRef, SinkRef
<1> QED  BY <1>1, <1>2, <1>3, <1>5, <1>6, <1>7, <1>8, OneStream, SameIsSteady

\* The scheduler's last act: from now on the stream is its close's.
LEMMA ReleasedStreams ==
  ASSUME StreamsOK, NEW s \in Streams, DeliverClose(s)
  PROVE  /\ StreamsOK' /\ \A u \in Streams \ {s} : Steady(u)
         /\ phase[s] = "stopping" /\ phase'[s] = "released"
         /\ UNCHANGED <<flags, refs, writer, accepted, refused, laneOf>>
<1>1. /\ TypeOK /\ RingInv(s) /\ SinkInv(s) /\ phase[s] = "stopping"
      /\ phase' = [phase EXCEPT ![s] = "released"]
      /\ UNCHANGED <<socket, ringVars, flags, refs, writerVars, produced, reason, history, laneOf>>
  BY DEF StreamsOK, DeliverClose
<1>2. TypeOK' /\ phase'[s] = "released"
  <2>1. phase' \in [Streams -> Phases] /\ phase'[s] = "released"
    BY <1>1 DEF TypeOK, Phases
  <2> QED  BY <1>1, <2>1 DEF TypeOK, socket, ringVars, flags, writerVars, history
<1>3. Quiet(s) /\ writer' = writer
  BY <1>1, AbandonIsQuiet DEF socket, writerVars, history
<1>4. RingInv(s)'
  BY <1>1, <1>3, QuietKeeps
<1>5. SinkInv(s)'
  BY <1>1, <1>2 DEF SinkInv, socket, flags, writerVars
<1>6. ASSUME NEW u \in Streams \ {s} PROVE Same(u) /\ laneOf'[u] = laneOf[u]
  BY <1>1 DEF Same, TypeOK, socket, ringVars, flags, writerVars, history
<1> QED  BY <1>1, <1>2, <1>4, <1>5, <1>6, OneStream, SameIsSteady DEF writerVars, history

\* A helper's enqueue, of a stream that is open or on its way out.
LEMMA ChunkSteady ==
  ASSUME StreamsOK, LaneType, NEW s \in Streams, NEW chunk \in Seq(Nat),
         phase[s] \in Open \cup {"released"},
         Take(s, chunk) \/ RefuseChunk(s, chunk), producerDone[s] => failed[s],
         UNCHANGED <<socket, refs, span, sent, sinkVars, laneOf>>
  PROVE  /\ StreamsOK' /\ \A u \in Streams : Steady(u)
         /\ \A u \in Streams \ {s} : Same(u) /\ refused'[u] = refused[u]
<1>1. /\ TypeOK /\ RingInv(s) /\ SinkInv(s) /\ phase' = phase /\ reason' = reason
      /\ UNCHANGED <<peer, wire, term, fd, refs, span, sent, produced>>
  BY DEF StreamsOK, socket, sinkVars
<1>2. TypeOK'
  <2>1. CASE Take(s, chunk)
    BY <1>1, <2>1, TakeTypes DEF Take, TypeOK, flags
  <2>2. CASE RefuseChunk(s, chunk)
    <3>1. UNCHANGED <<ringVars, accepted>>
      BY <2>2 DEF RefuseChunk
    <3> QED  BY <1>1, <2>2, <3>1, RefuseTypes DEF FlagTypes, TypeOK, ringVars
  <2> QED  BY <2>1, <2>2
<1>3. /\ writer'[s] = writer[s] \/ (writer[s] = "asleep" /\ writer'[s] = "loop")
      /\ failed[s] => failed'[s]
      /\ producerDone'[s] => failed'[s]
      /\ err'[s] = "hangup" => err[s] = "hangup"
  <2>1. CASE Take(s, chunk)
    BY <1>1, <2>1 DEF Take, Woken, TypeOK, flags
  <2>2. CASE RefuseChunk(s, chunk)
    BY <1>1, <2>2 DEF RefuseChunk, Abandon, MarkFailed, Woken, TypeOK, flags
  <2> QED  BY <2>1, <2>2
<1>4. RingInv(s)'
  BY <1>1, TakeKeeps, RefuseKeeps
<1>5. SinkInv(s)'
  BY <1>1, <1>3 DEF SinkInv
<1>6. ASSUME NEW u \in Streams \ {s} PROVE Same(u) /\ refused'[u] = refused[u] /\ laneOf'[u] = laneOf[u]
  <2>1. refused'[u] = refused[u]
    BY <1>1 DEF Take, RefuseChunk, TypeOK
  <2> QED  BY <1>1, <2>1, RingIsOwn DEF Same
<1>7. Steady(s)
  BY <1>1, <1>3 DEF Steady, Open, WriterRef, SinkRef
<1>8. phase'[s] # "finished"
  BY <1>1 DEF StreamsOK
<1>9. StreamsOK'
  BY <1>2, <1>4, <1>5, <1>6, <1>8, OneStream
<1> QED  BY <1>6, <1>7, <1>9, SameIsSteady

\* The helper ends the stream the scheduler let go of.
LEMMA FinishedStreams ==
  ASSUME StreamsOK, LaneType, NEW s \in Streams, phase[s] = "released", FinishStream(s),
         UNCHANGED <<socket, ringVars, refs, span, sent, sinkVars, history, laneOf>>
  PROVE  /\ StreamsOK' /\ \A u \in Streams \ {s} : Same(u) /\ Steady(u)
         /\ phase' = phase /\ failed' = failed
         /\ refs'[s] + WriterRef(s) + SinkRef(s) = refs[s] + WriterRef(s)' + SinkRef(s)'
<1>1. /\ TypeOK /\ RingInv(s) /\ SinkInv(s) /\ phase' = phase /\ reason' = reason
      /\ UNCHANGED <<peer, wire, term, fd, refs, span, sent, produced, failed, err>>
  BY DEF StreamsOK, socket, sinkVars, FinishStream
<1>2. TypeOK'
  <2>1. FlagTypes
    BY <1>1, AbandonTypes
  <2> QED  BY <1>1, <2>1 DEF FlagTypes, TypeOK, ringVars, history
<1>3. writer'[s] = writer[s] \/ (writer[s] = "asleep" /\ writer'[s] = "loop")
  BY <1>1 DEF FinishStream, Woken, TypeOK
<1>4. RingInv(s)'
  BY <1>1, FinishKeeps DEF history
<1>5. SinkInv(s)'
  BY <1>1, <1>3 DEF SinkInv
<1>6. ASSUME NEW u \in Streams \ {s} PROVE Same(u) /\ laneOf'[u] = laneOf[u]
  BY <1>1, RingIsOwn DEF Same, history
<1>7. refs'[s] + WriterRef(s) + SinkRef(s) = refs[s] + WriterRef(s)' + SinkRef(s)'
  BY <1>1, <1>3 DEF WriterRef, SinkRef
<1> QED  BY <1>1, <1>2, <1>4, <1>5, <1>6, <1>7, OneStream, SameIsSteady

\* ... and gives the scheduler's reference back.
LEMMA UnreferencedStreams ==
  ASSUME StreamsOK, NEW s \in Streams, refs[s] > 0, Unreference(s),
         UNCHANGED <<socket, ringVars, flags, writerVars, sinkVars, history, laneOf>>
  PROVE  StreamsOK' /\ refs'[s] = refs[s] - 1 /\ \A u \in Streams \ {s} : Same(u) /\ Steady(u)
<1>1. /\ TypeOK /\ RingInv(s) /\ SinkInv(s) /\ phase' = phase /\ reason' = reason
      /\ UNCHANGED <<peer, wire, term, fd, writer, span, sent, accepted, produced, refused>>
      /\ UNCHANGED <<ring, head, queued, producerDone, failed, err>>
  BY DEF StreamsOK, socket, sinkVars, writerVars, history, ringVars, flags
<1>2. refs'[s] = refs[s] - 1 /\ refs' \in [Streams -> 0..2] /\ \A u \in Streams \ {s} : refs'[u] = refs[u]
  <2>1. refs[s] - 1 \in 0..2
    BY <1>1 DEF TypeOK
  <2> QED  BY <1>1, <2>1 DEF Unreference, TypeOK
<1>3. TypeOK'
  BY <1>1, <1>2 DEF TypeOK
<1>4. RingInv(s)'
  <2>1. Quiet(s)
    BY <1>1, AbandonIsQuiet DEF flags, ringVars
  <2> QED  BY <1>1, <2>1, QuietKeeps
<1>5. SinkInv(s)'
  BY <1>1 DEF SinkInv
<1>6. ASSUME NEW u \in Streams \ {s} PROVE Same(u) /\ laneOf'[u] = laneOf[u]
  BY <1>1, <1>2 DEF Same
<1> QED  BY <1>1, <1>2, <1>3, <1>4, <1>5, <1>6, OneStream, SameIsSteady DEF StreamsOK

\* The writer's reference is its own, whoever holds the other.
LEMMA AroundSteady ==
  ASSUME StreamsOK, NEW s \in Streams, Around(s), writer[s] = "release" => refs[s] > 0,
         UNCHANGED laneOf
  PROVE  StreamsOK' /\ (\A u \in Streams : Steady(u)) /\ (\A u \in Streams \ {s} : Same(u))
<1>1. TypeOK /\ RingInv(s) /\ SinkInv(s)
  BY DEF StreamsOK
<1>2. TypeOK' /\ RingInv(s)' /\ SinkInv(s)'
  <2>1. CASE PeerChanges(s)
    BY <1>1, <2>1, PeerKeeps
  <2>2. CASE WriterStep(s) \/ SpuriousWakeup(s)
    BY <1>1, <2>2, WriterTypes, WriterKeeps, WriterSinkKeeps
  <2> QED  BY <2>1, <2>2 DEF Around
<1>3. UNCHANGED <<phase, accepted, refused>>
  BY DEF Around, WriterStep, SpuriousWakeup, PeerChanges, Header, TakeSpan, Sleep, Leave, SendSome,
         SendFails, Advance, Decide, Terminate, Close, WriterReleases, Frame, sinkVars, history
<1>4. ASSUME NEW u \in Streams \ {s} PROVE Same(u) /\ laneOf'[u] = laneOf[u]
  BY <1>1, AroundIsOwn
<1>5. /\ failed[s] => failed'[s]
      /\ producerDone'[s] => producerDone[s] \/ failed'[s]
  BY <1>1 DEF Around, WriterStep, SpuriousWakeup, PeerChanges, Header, TakeSpan, Sleep, Leave, SendSome,
         SendFails, Advance, Decide, Terminate, Close, WriterReleases, MarkFailed, flags, TypeOK
<1>6. refs'[s] + WriterRef(s) = refs[s] + WriterRef(s)'
  <2>1. CASE WriterReleases(s)
    <3>1. writer[s] = "release" /\ writer'[s] = "gone" /\ refs'[s] = refs[s] - 1
      BY <1>1, <2>1 DEF WriterReleases, Unreference, TypeOK
    <3>2. WriterRef(s) = 1 /\ WriterRef(s)' = 0
      BY <3>1 DEF WriterRef
    <3>3. PICK r \in Int : r = refs[s]
      BY <1>1 DEF TypeOK
    <3>4. (r - 1) + 1 = r + 0
      BY <3>3
    <3> QED  BY <3>1, <3>2, <3>3, <3>4
  <2>2. CASE PeerChanges(s)
    BY <2>2 DEF PeerChanges, writerVars, WriterRef
  <2>3. CASE Header(s) \/ TakeSpan(s) \/ Sleep(s) \/ Leave(s) \/ SendSome(s) \/ SendFails(s) \/ Advance(s)
             \/ Decide(s) \/ Terminate(s) \/ Close(s) \/ SpuriousWakeup(s)
    <3>1. refs' = refs /\ writer[s] \notin {"none", "gone"} /\ writer'[s] \notin {"none", "gone"}
      BY <1>1, <2>3 DEF Header, TakeSpan, Sleep, Leave, SendSome, SendFails, Advance, Decide, Terminate,
                        Close, SpuriousWakeup, TypeOK
    <3> QED  BY <3>1 DEF WriterRef
  <2> QED  BY <2>1, <2>2, <2>3 DEF Around, WriterStep
<1>7. Steady(s)
  <2>1. SinkRef(s)' = SinkRef(s) /\ SinkRef(s) \in Int /\ WriterRef(s) \in Int /\ WriterRef(s)' \in Int
    BY <1>3 DEF SinkRef, WriterRef
  <2>2. refs[s] \in Int /\ refs'[s] \in Int
    <3>1. TypeOK /\ TypeOK'
      BY <1>1, <1>2
    <3>2. refs \in [Streams -> 0..2]
      BY <3>1 DEF TypeOK
    <3>3. refs' \in [Streams -> 0..2]
      BY <3>1 DEF TypeOK
    <3> QED  BY <3>2, <3>3
  <2>3. refs'[s] + WriterRef(s) + SinkRef(s) = refs[s] + WriterRef(s)' + SinkRef(s)'
    BY <1>6, <2>1, <2>2
  <2> QED  BY <1>3, <1>5, <2>3 DEF Steady
<1> QED  BY <1>2, <1>3, <1>4, <1>7, OneStream, SameIsSteady DEF StreamsOK

-----------------------------------------------------------------------------
(* The work on the lines.                                                  *)

\* What the two changes of a line mean, place by place.
LEMMA PushedPlaces ==
  ASSUME LaneType, LaneType', NEW l \in LaneIds, NEW w \in Work, Pushed(l, w)
  PROVE  /\ DOMAIN Line(l)' = 1..(Len(Line(l)) + 1) /\ DOMAIN Line(l) = 1..Len(Line(l))
         /\ Len(Line(l)) \in Nat
         /\ \A i \in 1..Len(Line(l)) : Line(l)'[i] = Line(l)[i]
         /\ Line(l)'[Len(Line(l)) + 1] = w
<1>1. PICK a \in Seq(Work) : a = Line(l)
  BY LineType
<1>2. /\ Append(a, w) \in Seq(Work) /\ Len(Append(a, w)) = Len(a) + 1 /\ Len(a) \in Nat
      /\ DOMAIN Append(a, w) = 1..(Len(a) + 1) /\ DOMAIN a = 1..Len(a)
      /\ \A i \in 1..Len(a) : Append(a, w)[i] = a[i]
      /\ Append(a, w)[Len(a) + 1] = w
  BY AppendProperties, LenProperties
<1>3. Line(l)' = Append(a, w)
  BY <1>1 DEF Pushed
<1> QED  BY <1>1, <1>2, <1>3

LEMMA PoppedPlaces ==
  ASSUME LaneType, LaneType', NEW l \in LaneIds, Popped(l)
  PROVE  /\ DOMAIN Line(l)' = 1..(Len(Line(l)) - 1) /\ DOMAIN Line(l) = 1..Len(Line(l))
         /\ Len(Line(l)) \in Nat \ {0}
         /\ \A i \in 1..(Len(Line(l)) - 1) : Line(l)'[i] = Line(l)[i + 1]
<1>1. PICK a \in Seq(Work) : a = Line(l)
  BY LineType
<1>2. a # <<>>
  BY <1>1 DEF Popped
<1>3. /\ Tail(a) \in Seq(Work) /\ Len(Tail(a)) = Len(a) - 1 /\ Len(a) \in Nat \ {0}
      /\ DOMAIN Tail(a) = 1..Len(Tail(a)) /\ DOMAIN a = 1..Len(a)
      /\ \A i \in 1..Len(Tail(a)) : Tail(a)[i] = a[i + 1]
  BY <1>2, HeadTailProperties, LenProperties, EmptySeq
<1>4. Line(l)' = Tail(a)
  BY <1>1 DEF Popped
<1> QED  BY <1>1, <1>3, <1>4

\* A step leaves work as it is when it is steady; a close asks for less.
Settled(l, i) ==
  LET s == Line(l)[i].stream IN
  \/ Steady(s)
  \/ Line(l)[i].item = NoItem /\ phase'[s] = phase[s] /\ laneOf'[s] = laneOf[s]

LEMMA SettledWork ==
  ASSUME NEW l \in LaneIds, NEW i \in DOMAIN Line(l), WorkInv(l, i), Settled(l, i), NEW s,
         s = Line(l)[i].stream
  PROVE  /\ laneOf'[s] = l
         /\ Line(l)[i].item = NoItem => phase'[s] = "released"
         /\ Line(l)[i].item # NoItem => /\ phase'[s] \in {"running", "polled", "stopping", "released"}
                                        /\ phase'[s] = "released" => phase[s] = "released"
                                        /\ producerDone'[s] => failed'[s]
<1>1. /\ laneOf[s] = l
      /\ Line(l)[i].item = NoItem => phase[s] = "released"
      /\ Line(l)[i].item # NoItem => /\ phase[s] \in {"running", "polled", "stopping", "released"}
                                     /\ producerDone[s] => failed[s]
  BY DEF WorkInv
<1>2. Steady(s) \/ (Line(l)[i].item = NoItem /\ phase'[s] = phase[s] /\ laneOf'[s] = laneOf[s])
  BY DEF Settled
<1> QED  BY <1>1, <1>2 DEF Steady, Open

LEMMA WorkSame ==
  ASSUME LinesOK, LaneType, LineSame,
         \A l \in LaneIds : \A i \in DOMAIN Line(l) : Settled(l, i)
  PROVE  LinesOK'
<1>1. SUFFICES ASSUME NEW l \in LaneIds, NEW i \in DOMAIN Line(l) PROVE WorkInv(l, i)'
  BY DEF LinesOK, LineSame
<1>2. WorkInv(l, i) /\ Line(l)' = Line(l) /\ Settled(l, i)
  BY DEF LinesOK, LineSame
<1>3. PICK s : s = Line(l)[i].stream
  OBVIOUS
<1>4. /\ laneOf'[s] = l
      /\ Line(l)[i].item = NoItem => phase'[s] = "released"
      /\ Line(l)[i].item # NoItem => /\ phase'[s] \in {"running", "polled", "stopping", "released"}
                                     /\ phase'[s] = "released" => phase[s] = "released"
                                     /\ producerDone'[s] => failed'[s]
  BY <1>2, <1>3, SettledWork
<1> QED  BY <1>2, <1>3, <1>4 DEF WorkInv

LEMMA WorkPopped ==
  ASSUME LinesOK, LaneType, LaneType', NEW lane \in LaneIds, Popped(lane),
         \A l \in LaneIds : \A i \in DOMAIN Line(l) : (l = lane /\ i = 1) \/ Settled(l, i)
  PROVE  LinesOK'
<1>1. ASSUME NEW l \in LaneIds \ {lane}, NEW i \in DOMAIN Line(l)' PROVE WorkInv(l, i)'
  <2>1. Line(l)' = Line(l) /\ i \in DOMAIN Line(l)
    BY <1>1 DEF Popped
  <2>2. WorkInv(l, i) /\ Settled(l, i)
    BY <2>1 DEF LinesOK
  <2>3. PICK s : s = Line(l)[i].stream
    OBVIOUS
  <2>4. /\ laneOf'[s] = l
        /\ Line(l)[i].item = NoItem => phase'[s] = "released"
        /\ Line(l)[i].item # NoItem => /\ phase'[s] \in {"running", "polled", "stopping", "released"}
                                       /\ phase'[s] = "released" => phase[s] = "released"
                                       /\ producerDone'[s] => failed'[s]
    BY <2>1, <2>2, <2>3, SettledWork
  <2> QED  BY <2>1, <2>2, <2>3, <2>4 DEF WorkInv
<1>2. ASSUME NEW i \in DOMAIN Line(lane)' PROVE WorkInv(lane, i)'
  <2>1. PICK n \in Nat \ {0} : n = Len(Line(lane))
    BY PoppedPlaces
  <2>2. /\ DOMAIN Line(lane)' = 1..(n - 1) /\ DOMAIN Line(lane) = 1..n
        /\ \A j \in 1..(n - 1) : Line(lane)'[j] = Line(lane)[j + 1]
    BY <2>1, PoppedPlaces
  <2>3. i \in 1..(n - 1) /\ i + 1 \in 1..n /\ i + 1 # 1 /\ Line(lane)'[i] = Line(lane)[i + 1]
    BY <1>2, <2>2
  <2>4. WorkInv(lane, i + 1) /\ Settled(lane, i + 1)
    BY <2>2, <2>3 DEF LinesOK
  <2>5. PICK s : s = Line(lane)[i + 1].stream
    OBVIOUS
  <2>6. /\ laneOf'[s] = lane
        /\ Line(lane)[i + 1].item = NoItem => phase'[s] = "released"
        /\ Line(lane)[i + 1].item # NoItem => /\ phase'[s] \in {"running", "polled", "stopping", "released"}
                                              /\ phase'[s] = "released" => phase[s] = "released"
                                              /\ producerDone'[s] => failed'[s]
    BY <2>2, <2>3, <2>4, <2>5, SettledWork
  <2>7. ASSUME Line(lane)'[i].item = NoItem, NEW j \in 1..(n - 1), Line(lane)'[j].stream = s, j # i
        PROVE  j < i /\ Line(lane)'[j].item # NoItem
    <3>1. j + 1 \in 1..n /\ j + 1 # i + 1 /\ Line(lane)[j + 1] = Line(lane)'[j]
      BY <2>2, <2>3, <2>7
    <3>2. j + 1 < i + 1 /\ Line(lane)[j + 1].item # NoItem
      BY <2>2, <2>3, <2>4, <2>5, <2>7, <3>1 DEF WorkInv
    <3> QED  BY <2>3, <3>1, <3>2
  <2>8. ASSUME Line(lane)'[i].item # NoItem, phase[s] = "released"
        PROVE  \E j \in 1..(n - 1) : j > i /\ Line(lane)'[j] = CloseOf(s)
    <3>1. PICK j \in 1..n : j > i + 1 /\ Line(lane)[j] = CloseOf(s)
      BY <2>2, <2>3, <2>4, <2>5, <2>8 DEF WorkInv
    <3>2. j - 1 \in 1..(n - 1) /\ j - 1 > i /\ (j - 1) + 1 = j
      BY <2>3, <3>1
    <3> QED  BY <2>2, <3>1, <3>2
  <2> QED  BY <2>2, <2>3, <2>5, <2>6, <2>7, <2>8 DEF WorkInv
<1> QED  BY <1>1, <1>2 DEF LinesOK

\* A chunk of a stream that still runs, or the close of one that is let go.
LEMMA WorkPushed ==
  ASSUME LinesOK, LaneType, LaneType', NEW lane \in LaneIds, NEW s \in Streams,
         NEW w \in Work, w.stream = s, Pushed(lane, w),
         laneOf[s] = lane, laneOf' = laneOf, phase[s] \in Open,
         \A l \in LaneIds : \A i \in DOMAIN Line(l) : Line(l)[i].stream = s \/ Settled(l, i),
         UNCHANGED <<producerDone, failed>>,
         w.item = NoItem => phase'[s] = "released",
         w.item # NoItem => phase'[s] = phase[s] /\ (producerDone[s] => failed[s])
  PROVE  LinesOK'
<1>1. \A l \in LaneIds : \A i \in DOMAIN Line(l) :
        Line(l)[i].stream = s => l = lane /\ Line(l)[i].item # NoItem
  BY DEF LinesOK, WorkInv, Open
<1>2. ASSUME NEW l \in LaneIds \ {lane}, NEW i \in DOMAIN Line(l)' PROVE WorkInv(l, i)'
  <2>1. Line(l)' = Line(l) /\ i \in DOMAIN Line(l)
    BY <1>2 DEF Pushed
  <2>2. WorkInv(l, i) /\ Settled(l, i)
    BY <1>1, <2>1 DEF LinesOK
  <2>3. PICK u : u = Line(l)[i].stream
    OBVIOUS
  <2>4. /\ laneOf'[u] = l
        /\ Line(l)[i].item = NoItem => phase'[u] = "released"
        /\ Line(l)[i].item # NoItem => /\ phase'[u] \in {"running", "polled", "stopping", "released"}
                                       /\ phase'[u] = "released" => phase[u] = "released"
                                       /\ producerDone'[u] => failed'[u]
    BY <2>1, <2>2, <2>3, SettledWork
  <2> QED  BY <2>1, <2>2, <2>3, <2>4 DEF WorkInv
<1>3. PICK n \in Nat : n = Len(Line(lane))
  BY PushedPlaces
<1>4. /\ DOMAIN Line(lane)' = 1..(n + 1) /\ DOMAIN Line(lane) = 1..n
      /\ \A i \in 1..n : Line(lane)'[i] = Line(lane)[i]
      /\ Line(lane)'[n + 1] = w
  BY <1>3, PushedPlaces
<1>5. WorkInv(lane, n + 1)'
  <2>1. ASSUME w.item = NoItem, NEW j \in 1..(n + 1), Line(lane)'[j].stream = s, j # n + 1
        PROVE  j < n + 1 /\ Line(lane)'[j].item # NoItem
    <3>1. j \in 1..n
      BY <2>1
    <3> QED  BY <1>1, <1>4, <2>1, <3>1
  <2>2. laneOf'[s] = lane /\ (w.item # NoItem => phase'[s] # "released")
    BY DEF Open
  <2> QED  BY <1>4, <2>1, <2>2 DEF WorkInv, Open
<1>6. ASSUME NEW i \in 1..n PROVE WorkInv(lane, i)'
  <2>0. /\ i \in DOMAIN Line(lane) /\ i \in DOMAIN Line(lane)' /\ WorkInv(lane, i)
        /\ Line(lane)'[i] = Line(lane)[i] /\ n + 1 \in 1..(n + 1) /\ n + 1 > i /\ 1..n \subseteq 1..(n + 1)
    BY <1>3, <1>4, <1>6 DEF LinesOK
  <2>1. CASE Line(lane)[i].stream = s
    <3>1. /\ Line(lane)[i].item # NoItem
          /\ producerDone'[s] => failed'[s]
          /\ phase'[s] \in {"running", "polled", "stopping", "released"}
      BY <1>1, <2>0, <2>1 DEF WorkInv, Open
    <3>2. ASSUME phase'[s] = "released" PROVE w = CloseOf(s)
      <4>1. w.item = NoItem
        BY <3>2 DEF Open
      <4> QED  BY <4>1 DEF Work, CloseOf
    <3> QED  BY <1>4, <2>0, <2>1, <3>1, <3>2 DEF WorkInv
  <2>2. CASE Line(lane)[i].stream # s
    <3>1. Settled(lane, i)
      BY <2>0, <2>2
    <3>2. PICK u : u = Line(lane)[i].stream
      OBVIOUS
    <3>3. /\ laneOf'[u] = lane
          /\ Line(lane)[i].item = NoItem => phase'[u] = "released"
          /\ Line(lane)[i].item # NoItem => /\ phase'[u] \in {"running", "polled", "stopping", "released"}
                                            /\ phase'[u] = "released" => phase[u] = "released"
                                            /\ producerDone'[u] => failed'[u]
      BY <2>0, <3>1, <3>2, SettledWork
    <3>4. ASSUME Line(lane)[i].item = NoItem, NEW j \in 1..(n + 1), Line(lane)'[j].stream = u, j # i
          PROVE  j < i /\ Line(lane)'[j].item # NoItem
      <4>1. j # n + 1
        BY <1>4, <2>2, <3>2, <3>4
      <4>2. j \in 1..n
        BY <3>4, <4>1
      <4> QED  BY <1>4, <2>0, <3>2, <3>4, <4>2 DEF WorkInv
    <3>5. ASSUME Line(lane)[i].item # NoItem, phase[u] = "released"
          PROVE  \E j \in 1..(n + 1) : j > i /\ Line(lane)'[j] = CloseOf(u)
      <4>1. PICK j \in 1..n : j > i /\ Line(lane)[j] = CloseOf(u)
        BY <1>4, <2>0, <3>2, <3>5 DEF WorkInv
      <4> QED  BY <1>4, <2>0, <4>1
    <3> QED  BY <1>4, <2>0, <3>2, <3>3, <3>4, <3>5 DEF WorkInv
  <2> QED  BY <2>1, <2>2
<1>7. ASSUME NEW i \in DOMAIN Line(lane)' PROVE WorkInv(lane, i)'
  <2>1. i \in 1..n \/ i = n + 1
    BY <1>3, <1>4, <1>7
  <2> QED  BY <1>5, <1>6, <2>1
<1> QED  BY <1>2, <1>7 DEF LinesOK

-----------------------------------------------------------------------------
(* Who holds a stream.                                                     *)

LEMMA PendingIsReleased ==
  ASSUME LinesOK, LaneType, NEW s \in Streams, ClosePending(s)
  PROVE  phase[s] = "released"
<1>1. laneOf[s] \in LaneIds
  BY DEF LaneType, LaneIds
<1> QED  BY <1>1 DEF ClosePending, LinesOK, WorkInv, CloseOf

LEMMA RefsTypes ==
  ASSUME TypeOK, TypeOK', NEW s \in Streams
  PROVE  /\ refs[s] \in Int /\ refs'[s] \in Int /\ WriterRef(s) \in Int /\ WriterRef(s)' \in Int
         /\ SinkRef(s) \in Int /\ SinkRef(s)' \in Int /\ CloseRef(s) \in Int /\ CloseRef(s)' \in Int
<1>1. refs[s] \in Int /\ refs'[s] \in Int
  <2>1. refs \in [Streams -> 0..2]
    BY DEF TypeOK
  <2>2. refs' \in [Streams -> 0..2]
    BY DEF TypeOK
  <2> QED  BY <2>1, <2>2
<1>2. WriterRef(s) \in Int /\ WriterRef(s)' \in Int /\ SinkRef(s) \in Int /\ SinkRef(s)' \in Int
  BY DEF WriterRef, SinkRef
<1>3. CloseRef(s) \in Int /\ CloseRef(s)' \in Int
  BY DEF CloseRef
<1> QED  BY <1>1, <1>2, <1>3

LEMMA RefsKept ==
  ASSUME TypeOK, TypeOK', NEW s \in Streams,
         RefsShared(s), ClosePending(s)' <=> ClosePending(s),
         refs'[s] + WriterRef(s) + SinkRef(s) = refs[s] + WriterRef(s)' + SinkRef(s)'
  PROVE  RefsShared(s)'
<1>1. refs[s] = WriterRef(s) + SinkRef(s) + CloseRef(s)
  BY DEF RefsShared
<1>2. CloseRef(s)' = CloseRef(s)
  BY DEF CloseRef
<1>3. PICK r \in Int, w \in Int, k \in Int, c \in Int :
        r = refs[s] /\ w = WriterRef(s) /\ k = SinkRef(s) /\ c = CloseRef(s)
  BY RefsTypes
<1>4. PICK r2 \in Int, w2 \in Int, k2 \in Int :
        r2 = refs'[s] /\ w2 = WriterRef(s)' /\ k2 = SinkRef(s)'
  BY RefsTypes
<1>5. r = w + k + c /\ r2 + w + k = r + w2 + k2
  BY <1>1, <1>3, <1>4
<1>6. r2 = w2 + k2 + c
  BY <1>5
<1> QED  BY <1>2, <1>3, <1>4, <1>6 DEF RefsShared

\* What is pending stays pending as long as nothing is done about it.
LEMMA PendingSame ==
  ASSUME LaneType, LaneType', LinesOK, LinesOK', NEW s \in Streams,
         laneOf'[s] = laneOf[s] \/ (phase[s] # "released" /\ phase'[s] # "released"),
         \/ LineSame
         \/ \E l \in LaneIds : Popped(l) /\ Line(l)[1] # CloseOf(s)
         \/ \E l \in LaneIds, w \in Work : Pushed(l, w) /\ w # CloseOf(s)
  PROVE  ClosePending(s)' <=> ClosePending(s)
<1>0. laneOf[s] \in LaneIds /\ laneOf'[s] \in LaneIds
  BY DEF LaneType, LaneIds
<1>1. CASE laneOf'[s] # laneOf[s]
  <2>1. ~ClosePending(s)
    BY <1>1, PendingIsReleased
  <2>2. ~ClosePending(s)'
    BY <1>0, <1>1 DEF ClosePending, LinesOK, WorkInv, CloseOf
  <2> QED  BY <2>1, <2>2
<1>2. CASE laneOf'[s] = laneOf[s]
  <2>1. CASE LineSame
    BY <1>0, <1>2, <2>1 DEF ClosePending, LineSame
  <2>2. ASSUME NEW l \in LaneIds, Popped(l), Line(l)[1] # CloseOf(s)
        PROVE  ClosePending(s)' <=> ClosePending(s)
    <3>1. CASE laneOf[s] # l
      BY <1>0, <1>2, <2>2, <3>1 DEF ClosePending, Popped
    <3>2. CASE laneOf[s] = l
      <4>1. PICK n \in Nat \ {0} : n = Len(Line(l))
        BY <2>2, PoppedPlaces
      <4>2. /\ DOMAIN Line(l)' = 1..(n - 1) /\ DOMAIN Line(l) = 1..n
            /\ \A i \in 1..(n - 1) : Line(l)'[i] = Line(l)[i + 1]
        BY <2>2, <4>1, PoppedPlaces
      <4>3. ASSUME NEW i \in 1..n, Line(l)[i] = CloseOf(s)
            PROVE  \E j \in 1..(n - 1) : Line(l)'[j] = CloseOf(s)
        <5>1. i # 1
          BY <2>2, <4>3
        <5>2. i - 1 \in 1..(n - 1) /\ (i - 1) + 1 = i
          BY <5>1
        <5> QED  BY <4>2, <4>3, <5>2
      <4>4. ASSUME NEW j \in 1..(n - 1), Line(l)'[j] = CloseOf(s)
            PROVE  \E i \in 1..n : Line(l)[i] = CloseOf(s)
        <5>1. j + 1 \in 1..n
          OBVIOUS
        <5> QED  BY <4>2, <4>4, <5>1
      <4> QED  BY <1>2, <3>2, <4>2, <4>3, <4>4 DEF ClosePending
    <3> QED  BY <3>1, <3>2
  <2>3. ASSUME NEW l \in LaneIds, NEW w \in Work, Pushed(l, w), w # CloseOf(s)
        PROVE  ClosePending(s)' <=> ClosePending(s)
    <3>1. CASE laneOf[s] # l
      BY <1>0, <1>2, <2>3, <3>1 DEF ClosePending, Pushed
    <3>2. CASE laneOf[s] = l
      <4>1. PICK n \in Nat : n = Len(Line(l))
        BY <2>3, PushedPlaces
      <4>2. /\ DOMAIN Line(l)' = 1..(n + 1) /\ DOMAIN Line(l) = 1..n
            /\ \A i \in 1..n : Line(l)'[i] = Line(l)[i]
            /\ Line(l)'[n + 1] = w
        BY <2>3, <4>1, PushedPlaces
      <4>3. ASSUME NEW i \in 1..n, Line(l)[i] = CloseOf(s)
            PROVE  \E j \in 1..(n + 1) : Line(l)'[j] = CloseOf(s)
        <5>1. i \in 1..(n + 1)
          OBVIOUS
        <5> QED  BY <4>2, <4>3, <5>1
      <4>4. ASSUME NEW j \in 1..(n + 1), Line(l)'[j] = CloseOf(s)
            PROVE  \E i \in 1..n : Line(l)[i] = CloseOf(s)
        <5>1. j # n + 1
          BY <2>3, <4>2, <4>4
        <5>2. j \in 1..n
          BY <5>1
        <5> QED  BY <4>2, <4>4, <5>2
      <4> QED  BY <1>2, <3>2, <4>2, <4>3, <4>4 DEF ClosePending
    <3> QED  BY <3>1, <3>2
  <2> QED  BY <2>1, <2>2, <2>3
<1> QED  BY <1>1, <1>2

\* The same for all streams, when the step is steady.
LEMMA RefsSteady ==
  ASSUME TypeOK, TypeOK', LaneType, LaneType', LinesOK, LinesOK', NEW s \in Streams, Steady(s),
         RefsShared(s),
         \/ LineSame
         \/ \E l \in LaneIds : Popped(l) /\ Line(l)[1] # CloseOf(s)
         \/ \E l \in LaneIds, w \in Work : Pushed(l, w) /\ w # CloseOf(s)
  PROVE  RefsShared(s)'
<1>1. laneOf'[s] = laneOf[s] \/ (phase[s] # "released" /\ phase'[s] # "released")
  BY DEF Steady
<1>2. ClosePending(s)' <=> ClosePending(s)
  BY <1>1, PendingSame
<1>3. refs'[s] + WriterRef(s) + SinkRef(s) = refs[s] + WriterRef(s)' + SinkRef(s)'
  BY DEF Steady
<1> QED  BY <1>2, <1>3, RefsKept

-----------------------------------------------------------------------------
(* Types of the lanes.                                                     *)

LEMMA PushTypes ==
  ASSUME LaneType, NEW l \in LaneIds, NEW w \in Work, Push(l, w)
  PROVE  /\ queue' \in [LaneIds -> Seq(Work)]
         /\ helper' \in [LaneIds -> {"top", "parked", "work", "closing"}]
<1>1. Append(queue[l], w) \in Seq(Work)
  BY AppendProperties DEF LaneType, LaneIds
<1>2. queue' = [queue EXCEPT ![l] = Append(queue[l], w)]
  BY DEF Push
<1>3. queue' \in [LaneIds -> Seq(Work)]
  BY <1>1, <1>2 DEF LaneType, LaneIds
<1> QED  BY <1>3 DEF Push, LaneType, LaneIds

LEMMA SchedulerTypes ==
  ASSUME TypeOK, LaneType, SchedInv, SchedulerStep
  PROVE  LaneType'
<1>1. ASSUME NEW s \in Streams, DeliverCallbacks(s) PROVE LaneType'
  <2>1. laneOf' \in [Streams -> 0..(Lanes - 1)] /\ nextLane' \in 0..(Lanes - 1)
    <3>1. After(nextLane) \in 0..(Lanes - 1)
      <4>1. Lanes \in Nat \ {0} /\ nextLane + 1 \in Nat
        BY LaneAssumption DEF LaneType
      <4>2. (nextLane + 1) % Lanes \in 0..(Lanes - 1)
        BY <4>1
      <4> QED  BY <4>2 DEF After
    <3> QED  BY <1>1, <3>1 DEF DeliverCallbacks, LaneType
  <2> QED  BY <1>1, <2>1 DEF DeliverCallbacks, LaneType
<1>2. ASSUME NEW s \in Streams, DeliverClose(s) PROVE LaneType'
  <2>1. CloseOf(s) \in Work /\ laneOf[s] \in LaneIds
    BY DEF CloseOf, Work, LaneType, LaneIds
  <2> QED  BY <1>2, <2>1, PushTypes DEF DeliverClose, LaneType, LaneIds
<1>3. ASSUME NEW s \in Streams, NEW n \in ChunkSizes, DeliverRefused(s, n) PROVE LaneType'
  BY <1>3 DEF DeliverRefused, LaneType, laneVars
<1>4. ASSUME NEW s \in Streams, NEW n \in ChunkSizes, DeliverTakesItem(s, n) PROVE LaneType'
  <2>1. Positions(produced[s], n) \in Seq(Nat)
    <3>1. n \in Nat /\ produced[s] \in Nat
      BY StreamAssumption DEF TypeOK
    <3> QED  BY <3>1, ChunkIsSeq
  <2>2. PICK l \in 0..(Lanes - 1) : l = laneOf[s]
    BY DEF LaneType
  <2>3. CASE spare[l] = <<>>
    <3>1. sched' = Busy("fill", s, NoItem, Positions(produced[s], n)) /\ spare' = spare
      BY <1>4, <2>2, <2>3 DEF DeliverTakesItem
    <3> QED  BY <1>4, <2>1, <3>1 DEF DeliverTakesItem, LaneType, Busy
  <2>4. CASE spare[l] # <<>>
    <3>1. /\ sched' = Busy("fill", s, Head(spare[l]), Positions(produced[s], n))
          /\ spare' = [spare EXCEPT ![l] = Tail(spare[l])]
      BY <1>4, <2>2, <2>4 DEF DeliverTakesItem
    <3>2. Head(spare[l]) \in Items /\ Tail(spare[l]) \in Seq(Items)
      BY <2>4, HeadTailProperties DEF LaneType
    <3>3. spare' \in [0..(Lanes - 1) -> Seq(Items)]
      BY <3>1, <3>2 DEF LaneType
    <3> QED  BY <1>4, <2>1, <3>1, <3>2, <3>3 DEF DeliverTakesItem, LaneType, Busy
  <2> QED  BY <2>3, <2>4
<1>5. CASE DeliverFills
  <2>1. PICK i \in IF sched.item = NoItem THEN Unallocated ELSE {sched.item} :
          /\ content' = [content EXCEPT ![i] = sched.chunk]
          /\ sched' = Busy("push", sched.stream, i, <<>>)
    BY <1>5 DEF DeliverFills
  <2>2. i \in Items /\ sched.chunk \in Seq(Nat) /\ sched.stream \in Streams \cup {"none"}
    BY <2>1 DEF Unallocated, LaneType
  <2>3. content' \in [Items -> Seq(Nat)]
    BY <2>1, <2>2 DEF LaneType
  <2>4. <<>> \in Seq(Nat)
    BY EmptySeq
  <2> QED  BY <1>5, <2>1, <2>2, <2>3, <2>4 DEF DeliverFills, LaneType, Busy
<1>6. CASE DeliverFails
  <2>1. PICK l \in 0..(Lanes - 1) : l = laneOf[sched.stream]
    BY <1>6 DEF DeliverFails, SchedInv, LaneType
  <2>2. sched' \in [at : {"idle", "fill", "push"}, stream : Streams \cup {"none"},
                    item : Items \cup {NoItem}, chunk : Seq(Nat)]
    BY <1>6, EmptySeq DEF DeliverFails, Idle, Busy
  <2>3. spare' \in [0..(Lanes - 1) -> Seq(Items)]
    <3>1. CASE spare' = spare
      BY <3>1 DEF LaneType
    <3>2. CASE spare' # spare
      <4>1. PICK i \in IF sched.item = NoItem THEN Unallocated ELSE {sched.item} :
              spare' = [spare EXCEPT ![l] = <<i>> \o @]
        BY <1>6, <2>1, <3>2 DEF DeliverFails
      <4>2. i \in Items /\ spare[l] \in Seq(Items)
        BY <4>1 DEF Unallocated, LaneType
      <4>3. <<i>> \o spare[l] \in Seq(Items)
        BY <4>2, ConcatProperties
      <4>4. spare' = [spare EXCEPT ![l] = <<i>> \o spare[l]]
        BY <4>1
      <4> QED  BY <4>3, <4>4 DEF LaneType
    <3> QED  BY <3>1, <3>2
  <2> QED  BY <1>6, <2>2, <2>3 DEF DeliverFails, LaneType
<1>7. CASE DeliverPushes
  <2>1. sched.stream \in Streams /\ sched.item \in Items
    BY <1>7 DEF DeliverPushes, SchedInv
  <2>2. ChunkOf(sched.stream, sched.item) \in Work /\ laneOf[sched.stream] \in LaneIds
    BY <2>1 DEF ChunkOf, Work, LaneType, LaneIds
  <2>3. sched' \in [at : {"idle", "fill", "push"}, stream : Streams \cup {"none"},
                    item : Items \cup {NoItem}, chunk : Seq(Nat)]
    BY <1>7, EmptySeq DEF DeliverPushes, Idle, Busy
  <2> QED  BY <1>7, <2>2, <2>3, PushTypes DEF DeliverPushes, LaneType, LaneIds
<1> QED  BY <1>1, <1>2, <1>3, <1>4, <1>5, <1>6, <1>7 DEF SchedulerStep

LEMMA HelperTypes ==
  ASSUME LaneType, NEW l \in LaneIds, HelperInv(l), HelperStep(l) \/ HelperWakes(l)
  PROVE  LaneType'
<1>1. /\ helper' \in [0..(Lanes - 1) -> {"top", "parked", "work", "closing"}]
      /\ idle' \in [0..(Lanes - 1) -> BOOLEAN]
      /\ UNCHANGED <<nextLane, laneOf, content, sched>>
  BY DEF HelperStep, HelperWakes, HelperTakes, HelperParks, HelperChunk, HelperFinishes, HelperReleases,
         HelperDone, LaneType, LaneIds
<1>2. CASE HelperTakes(l) \/ HelperParks(l)
  <2>1. spent[l] \o spare[l] \in Seq(Items) /\ <<>> \in Seq(Items) /\ <<>> \in Seq(Work)
    BY ConcatProperties, EmptySeq DEF LaneType, LaneIds
  <2>2. /\ spare' = [spare EXCEPT ![l] = spent[l] \o spare[l]] /\ spent' = [spent EXCEPT ![l] = <<>>]
        /\ \/ batch' = [batch EXCEPT ![l] = queue[l]] /\ queue' = [queue EXCEPT ![l] = <<>>]
           \/ UNCHANGED <<batch, queue>>
    BY <1>2 DEF HelperTakes, HelperParks
  <2>3. spare' \in [0..(Lanes - 1) -> Seq(Items)] /\ spent' \in [0..(Lanes - 1) -> Seq(Items)]
    BY <2>1, <2>2 DEF LaneType
  <2>4. batch' \in [0..(Lanes - 1) -> Seq(Work)] /\ queue' \in [0..(Lanes - 1) -> Seq(Work)]
    <3>1. /\ batch \in [0..(Lanes - 1) -> Seq(Work)] /\ queue \in [0..(Lanes - 1) -> Seq(Work)]
          /\ l \in 0..(Lanes - 1)
      BY DEF LaneType, LaneIds
    <3>2. queue[l] \in Seq(Work)
      BY <3>1
    <3>3. CASE batch' = [batch EXCEPT ![l] = queue[l]] /\ queue' = [queue EXCEPT ![l] = <<>>]
      BY <2>1, <3>1, <3>2, <3>3
    <3> QED  BY <2>2, <3>1, <3>3
  <2> QED  BY <1>1, <2>3, <2>4 DEF LaneType
<1>3. CASE HelperChunk(l) \/ HelperReleases(l)
  <2>1. batch' = [batch EXCEPT ![l] = Tail(batch[l])] /\ UNCHANGED <<queue, spare>>
    BY <1>3 DEF HelperChunk, HelperReleases
  <2>2. batch' \in [0..(Lanes - 1) -> Seq(Work)]
    <3>1. batch[l] # <<>>
      BY <1>3 DEF HelperChunk, HelperReleases, HelperInv
    <3>2. Tail(batch[l]) \in Seq(Work)
      BY <3>1, HeadTailProperties DEF LaneType, LaneIds
    <3> QED  BY <2>1, <3>2 DEF LaneType
  <2>3. spent' \in [0..(Lanes - 1) -> Seq(Items)]
    <3>1. CASE HelperReleases(l)
      BY <3>1 DEF HelperReleases, LaneType
    <3>2. CASE HelperChunk(l)
      <4>1. Head(batch[l]).item \in Items
        <5>1. Head(batch[l]) \in Work /\ Head(batch[l]).item # NoItem
          BY <3>2, HeadTailProperties DEF HelperChunk, LaneType, LaneIds
        <5> QED  BY <5>1 DEF Work
      <4>2. Append(spent[l], Head(batch[l]).item) \in Seq(Items)
        BY <4>1, AppendProperties DEF LaneType, LaneIds
      <4>3. spent' = [spent EXCEPT ![l] = Append(spent[l], Head(batch[l]).item)]
        BY <3>2 DEF HelperChunk
      <4> QED  BY <4>2, <4>3 DEF LaneType
    <3> QED  BY <1>3, <3>1, <3>2
  <2> QED  BY <1>1, <2>1, <2>2, <2>3 DEF LaneType
<1>4. CASE HelperFinishes(l) \/ HelperDone(l) \/ HelperWakes(l)
  <2>1. UNCHANGED <<queue, spare, batch, spent>>
    BY <1>4 DEF HelperFinishes, HelperDone, HelperWakes
  <2> QED  BY <1>1, <2>1 DEF LaneType
<1> QED  BY <1>2, <1>3, <1>4 DEF HelperStep

-----------------------------------------------------------------------------
(* The helpers.                                                            *)

LEMMA PushHelpers ==
  ASSUME LaneType, \A l \in LaneIds : HelperInv(l), NEW lane \in LaneIds, NEW w \in Work, Push(lane, w),
         UNCHANGED <<batch, idle>>
  PROVE  \A l \in LaneIds : HelperInv(l)'
<1>1. /\ \A l \in LaneIds \ {lane} : queue'[l] = queue[l] /\ helper'[l] = helper[l]
      /\ helper'[lane] = IF idle[lane] /\ helper[lane] = "parked" THEN "top" ELSE helper[lane]
  BY DEF Push, LaneType, LaneIds
<1> QED  BY <1>1 DEF HelperInv

LEMMA OwnHelpers ==
  ASSUME LaneType, \A l \in LaneIds : HelperInv(l), NEW lane \in LaneIds,
         HelperStep(lane) \/ HelperWakes(lane)
  PROVE  \A l \in LaneIds : HelperInv(l)'
<1>1. ASSUME NEW l \in LaneIds \ {lane} PROVE HelperInv(l)'
  <2>1. queue'[l] = queue[l] /\ helper'[l] = helper[l] /\ batch'[l] = batch[l] /\ idle'[l] = idle[l]
    BY DEF HelperStep, HelperWakes, HelperTakes, HelperParks, HelperChunk, HelperFinishes,
           HelperReleases, HelperDone, LaneType, LaneIds
  <2> QED  BY <2>1 DEF HelperInv
<1>2. HelperInv(lane) /\ lane \in 0..(Lanes - 1)
  BY DEF LaneIds
<1>3. CASE HelperTakes(lane) \/ HelperChunk(lane) \/ HelperReleases(lane)
  <2>1. helper'[lane] = "work"
    BY <1>2, <1>3 DEF HelperTakes, HelperChunk, HelperReleases, LaneType
  <2> QED  BY <1>1, <2>1 DEF HelperInv
<1>4. CASE HelperParks(lane)
  <2>1. /\ helper[lane] = "top" /\ helper'[lane] = "parked" /\ idle'[lane] /\ queue[lane] = <<>>
        /\ UNCHANGED <<queue, batch>>
    BY <1>2, <1>4 DEF HelperParks, LaneType
  <2> QED  BY <1>1, <1>2, <2>1 DEF HelperInv
<1>5. CASE HelperFinishes(lane)
  <2>1. /\ helper'[lane] = "closing" /\ batch[lane] # <<>> /\ Head(batch[lane]).item = NoItem
        /\ UNCHANGED batch
    BY <1>2, <1>5 DEF HelperFinishes, LaneType
  <2> QED  BY <1>1, <2>1 DEF HelperInv
<1>6. CASE HelperDone(lane) \/ HelperWakes(lane)
  <2>1. helper'[lane] = "top" /\ batch[lane] = <<>> /\ UNCHANGED batch
    BY <1>2, <1>6 DEF HelperDone, HelperWakes, LaneType, HelperInv
  <2> QED  BY <1>1, <2>1 DEF HelperInv
<1> QED  BY <1>3, <1>4, <1>5, <1>6 DEF HelperStep

-----------------------------------------------------------------------------
(* Every step keeps the invariant.                                         *)

LEMMA QuietLines ==
  ASSUME DeliverInv, LaneType', StreamsOK', LineSame, \A u \in Streams : Steady(u)
  PROVE  LinesOK' /\ \A u \in Streams : RefsShared(u)'
<1>0. TypeOK /\ TypeOK' /\ LaneType /\ LinesOK /\ \A u \in Streams : RefsShared(u)
  BY DEF DeliverInv, StreamsOK
<1>1. ASSUME NEW l \in LaneIds, NEW i \in DOMAIN Line(l) PROVE Settled(l, i)
  <2>1. Line(l)[i] \in Work
    BY <1>0, LineType, ElementOfSeq
  <2>2. Line(l)[i].stream \in Streams
    BY <2>1 DEF Work
  <2> QED  BY <2>2 DEF Settled
<1>2. LinesOK'
  BY <1>0, <1>1, WorkSame
<1>3. ASSUME NEW u \in Streams PROVE RefsShared(u)'
  BY <1>0, <1>2, RefsSteady
<1> QED  BY <1>2, <1>3

\* The scheduler's steps that leave the lines alone.
LEMMA CallbacksSteady ==
  ASSUME DeliverInv, NEW s \in Streams, DeliverCallbacks(s)
  PROVE  StreamsOK' /\ \A u \in Streams : Steady(u)
<1>1. phase[s] # "released"
  BY DEF DeliverCallbacks, Callbacks, Start, StartFails, Expire, PollPeer, CheckFailed, EngineDone
<1>2. CloseRef(s) = 0
  BY <1>1, PendingIsReleased DEF CloseRef, DeliverInv
<1>3. refs[s] = WriterRef(s) + SinkRef(s) + 0
  BY <1>2 DEF RefsShared, DeliverInv
<1>4. WriterRef(s) \in Int /\ SinkRef(s) \in Int
  BY DEF WriterRef, SinkRef
<1>5. refs[s] = WriterRef(s) + SinkRef(s)
  BY <1>3, <1>4
<1> QED  BY <1>5, CallbackSteady DEF DeliverInv

LEMMA SchedulerQuiet ==
  ASSUME DeliverInv,
         \/ \E s \in Streams : DeliverCallbacks(s)
         \/ \E s \in Streams, n \in ChunkSizes : DeliverRefused(s, n) \/ DeliverTakesItem(s, n)
         \/ DeliverFills \/ DeliverFails
  PROVE  DeliverInv'
<1>0. /\ LaneType /\ StreamsOK /\ LinesOK /\ SchedInv /\ \A l \in LaneIds : HelperInv(l)
      /\ \A s \in Streams : RefsShared(s)
  BY DEF DeliverInv
<1>1. LaneType'
  BY <1>0, SchedulerTypes DEF SchedulerStep, StreamsOK
<1>2. UNCHANGED <<queue, batch, helper, idle>>
  BY DEF DeliverCallbacks, DeliverRefused, DeliverTakesItem, DeliverFills, DeliverFails, laneVars
<1>3. LineSame /\ \A l \in LaneIds : HelperInv(l)'
  BY <1>0, <1>2, NoLineChange DEF HelperInv
<1>4. ASSUME NEW s \in Streams, DeliverCallbacks(s)
      PROVE  StreamsOK' /\ (\A u \in Streams : Steady(u)) /\ SchedInv'
  <2>1. sched' = Idle
    BY <1>4 DEF DeliverCallbacks
  <2> QED  BY <1>4, <2>1, CallbacksSteady DEF SchedInv, Idle, Busy
<1>5. ASSUME NEW s \in Streams, NEW n \in ChunkSizes, DeliverRefused(s, n)
      PROVE  StreamsOK' /\ (\A u \in Streams : Steady(u)) /\ SchedInv'
  <2>1. sched' = Idle
    BY <1>5 DEF DeliverRefused, laneVars
  <2> QED  BY <1>0, <1>5, <2>1, RefusedSteady DEF SchedInv, Idle, Busy
<1>6. ASSUME NEW s \in Streams, NEW n \in ChunkSizes, DeliverTakesItem(s, n)
      PROVE  StreamsOK' /\ (\A u \in Streams : Steady(u)) /\ SchedInv'
  <2>1. sched'.at = "fill" /\ sched'.stream = s /\ phase'[s] = "running"
    BY <1>6 DEF DeliverTakesItem, Busy
  <2> QED  BY <1>0, <1>6, <2>1, TakesItemSteady DEF SchedInv
<1>7. ASSUME DeliverFills
      PROVE  StreamsOK' /\ (\A u \in Streams : Steady(u)) /\ SchedInv'
  <2>1. PICK i \in Items : sched' = Busy("push", sched.stream, i, <<>>)
    <3>1. PICK i \in IF sched.item = NoItem THEN Unallocated ELSE {sched.item} :
            sched' = Busy("push", sched.stream, i, <<>>)
      BY <1>7 DEF DeliverFills
    <3>2. i \in Items
      BY <1>0, <3>1 DEF Unallocated, LaneType
    <3> QED  BY <3>1, <3>2
  <2>2. sched.at = "fill" /\ UNCHANGED <<vars, laneOf>>
    BY <1>7 DEF DeliverFills
  <2>3. SchedInv'
    BY <1>0, <2>1, <2>2 DEF SchedInv, Busy, vars, sinkVars
  <2> QED  BY <1>0, <2>2, <2>3, IdleStreams
<1>8. ASSUME DeliverFails
      PROVE  StreamsOK' /\ (\A u \in Streams : Steady(u)) /\ SchedInv'
  <2>1. sched' = Idle
    BY <1>8 DEF DeliverFails
  <2> QED  BY <1>0, <1>8, <2>1, FailsSteady DEF SchedInv, Idle, Busy
<1>9. StreamsOK' /\ (\A u \in Streams : Steady(u)) /\ SchedInv'
  BY <1>4, <1>5, <1>6, <1>7, <1>8
<1>10. LinesOK' /\ \A u \in Streams : RefsShared(u)'
  BY <1>1, <1>3, <1>9, QuietLines
<1> QED  BY <1>1, <1>3, <1>9, <1>10 DEF DeliverInv

LEMMA PushesKeeps ==
  ASSUME DeliverInv, DeliverPushes
  PROVE  DeliverInv'
<1>0. /\ LaneType /\ TypeOK /\ StreamsOK /\ LinesOK /\ SchedInv /\ \A l \in LaneIds : HelperInv(l)
      /\ \A s \in Streams : RefsShared(s)
  BY DEF DeliverInv, StreamsOK
<1>1. LaneType'
  BY <1>0, SchedulerTypes DEF SchedulerStep
<1>2. PICK s \in Streams, item \in Items :
        /\ s = sched.stream /\ item = sched.item /\ phase[s] = "running"
        /\ Push(laneOf[s], ChunkOf(s, item))
        /\ sched' = Idle /\ UNCHANGED <<vars, laneOf, idle, batch>>
  BY <1>0 DEF DeliverPushes, SchedInv
<1>3. PICK lane \in LaneIds, w \in Work :
        /\ lane = laneOf[s] /\ w = ChunkOf(s, item) /\ w.stream = s /\ w.item # NoItem
  <2>1. laneOf[s] \in LaneIds
    BY <1>0 DEF LaneType, LaneIds
  <2>2. ChunkOf(s, item) \in Work /\ ChunkOf(s, item).stream = s /\ ChunkOf(s, item).item # NoItem
    BY ItemAssumption DEF ChunkOf, Work
  <2> QED  BY <2>1, <2>2
<1>4. Pushed(lane, w)
  BY <1>0, <1>2, <1>3, PushPushes
<1>5. \A l \in LaneIds : HelperInv(l)'
  BY <1>0, <1>2, <1>3, PushHelpers
<1>6. StreamsOK' /\ \A u \in Streams : Steady(u)
  BY <1>0, <1>2, IdleStreams
<1>7. UNCHANGED <<producerDone, failed, phase, laneOf>>
  BY <1>2 DEF vars, flags, sinkVars
<1>8. LinesOK'
  <2>1. producerDone[s] => failed[s]
    BY <1>0, <1>2 DEF StreamsOK, SinkInv
  <2>2. ASSUME NEW l \in LaneIds, NEW i \in DOMAIN Line(l) PROVE Settled(l, i)
    <3>1. Line(l)[i] \in Work
      BY <1>0, LineType, ElementOfSeq
    <3>2. Line(l)[i].stream \in Streams
      BY <3>1 DEF Work
    <3> QED  BY <1>6, <3>2 DEF Settled
  <2> QED  BY <1>0, <1>1, <1>2, <1>3, <1>4, <1>7, <2>1, <2>2, WorkPushed DEF Open
<1>9. ASSUME NEW u \in Streams PROVE RefsShared(u)'
  <2>1. w # CloseOf(u)
    BY <1>3 DEF CloseOf
  <2>2. TypeOK'
    BY <1>6 DEF StreamsOK
  <2> QED  BY <1>0, <1>1, <1>4, <1>6, <1>8, <2>1, <2>2, RefsSteady
<1>10. SchedInv'
  BY <1>2 DEF SchedInv, Idle, Busy
<1> QED  BY <1>1, <1>5, <1>6, <1>8, <1>9, <1>10 DEF DeliverInv

LEMMA CloseKeeps ==
  ASSUME DeliverInv, NEW s \in Streams, DeliverClose(s)
  PROVE  DeliverInv'
<1>0. /\ LaneType /\ TypeOK /\ StreamsOK /\ LinesOK /\ SchedInv /\ \A l \in LaneIds : HelperInv(l)
      /\ \A u \in Streams : RefsShared(u)
  BY DEF DeliverInv, StreamsOK
<1>1. LaneType'
  BY <1>0, SchedulerTypes DEF SchedulerStep
<1>2. /\ StreamsOK' /\ \A u \in Streams \ {s} : Steady(u)
      /\ phase[s] = "stopping" /\ phase'[s] = "released"
      /\ UNCHANGED <<producerDone, failed, refs, writer, laneOf>>
  BY <1>0, ReleasedStreams DEF flags
<1>3. PICK lane \in LaneIds, w \in Work :
        lane = laneOf[s] /\ w = CloseOf(s) /\ w.stream = s /\ w.item = NoItem
  <2>1. laneOf[s] \in LaneIds
    BY <1>0 DEF LaneType, LaneIds
  <2>2. CloseOf(s) \in Work /\ CloseOf(s).stream = s /\ CloseOf(s).item = NoItem
    BY DEF CloseOf, Work
  <2> QED  BY <2>1, <2>2
<1>4. Pushed(lane, w)
  BY <1>0, <1>3, PushPushes DEF DeliverClose
<1>5. \A l \in LaneIds : HelperInv(l)'
  BY <1>0, <1>3, PushHelpers DEF DeliverClose
<1>6. LinesOK'
  <2>1. ASSUME NEW l \in LaneIds, NEW i \in DOMAIN Line(l), Line(l)[i].stream # s PROVE Settled(l, i)
    <3>1. Line(l)[i] \in Work
      BY <1>0, LineType, ElementOfSeq
    <3>2. Line(l)[i].stream \in Streams \ {s}
      BY <2>1, <3>1 DEF Work
    <3> QED  BY <1>2, <3>2 DEF Settled
  <2> QED  BY <1>0, <1>1, <1>2, <1>3, <1>4, <2>1, WorkPushed DEF Open
<1>7. ASSUME NEW u \in Streams \ {s} PROVE RefsShared(u)'
  <2>1. w # CloseOf(u)
    BY <1>3 DEF CloseOf
  <2>2. TypeOK'
    BY <1>2 DEF StreamsOK
  <2> QED  BY <1>0, <1>1, <1>2, <1>4, <1>6, <2>1, <2>2, RefsSteady
<1>8. RefsShared(s)'
  <2>1. CloseRef(s) = 0 /\ SinkRef(s) = 1 /\ SinkRef(s)' = 0 /\ WriterRef(s)' = WriterRef(s)
    BY <1>0, <1>2, PendingIsReleased DEF CloseRef, SinkRef, WriterRef, Open
  <2>2. ClosePending(s)'
    <3>1. Line(lane)'[Len(Line(lane)) + 1] = w /\ Len(Line(lane)) + 1 \in DOMAIN Line(lane)'
      BY <1>0, <1>1, <1>3, <1>4, PushedPlaces
    <3> QED  BY <1>2, <1>3, <3>1 DEF ClosePending
  <2>3. CloseRef(s)' = 1
    BY <2>2 DEF CloseRef
  <2>4. PICK w0 \in Int : w0 = WriterRef(s)
    BY DEF WriterRef
  <2>5. refs[s] = w0 + 1 + 0
    BY <1>0, <2>1, <2>4 DEF RefsShared
  <2>6. w0 + 1 + 0 = w0 + 0 + 1
    BY <2>4
  <2> QED  BY <1>2, <2>1, <2>3, <2>4, <2>5, <2>6 DEF RefsShared
<1>9. SchedInv'
  BY DEF DeliverClose, SchedInv, Idle, Busy
<1> QED  BY <1>1, <1>2, <1>5, <1>6, <1>7, <1>8, <1>9 DEF DeliverInv

\* A helper's step: what the lane's first work is.
LEMMA FirstWork ==
  ASSUME DeliverInv, NEW l \in LaneIds, batch[l] # <<>>
  PROVE  /\ Head(batch[l]) = Line(l)[1] /\ 1 \in DOMAIN Line(l) /\ Head(batch[l]) \in Work
         /\ WorkInv(l, 1) /\ Head(batch[l]).stream \in Streams
         /\ Head(batch[l]).item = NoItem => /\ Head(batch[l]) = CloseOf(Head(batch[l]).stream)
                                            /\ refs[Head(batch[l]).stream] > 0
<1>1. batch[l] \in Seq(Work) /\ queue[l] \in Seq(Work)
  BY LineType DEF DeliverInv
<1>2. 1 \in DOMAIN Line(l) /\ Head(batch[l]) = Line(l)[1] /\ Head(batch[l]) \in Work
  BY <1>1, TailOfConcat DEF Line
<1>3. WorkInv(l, 1)
  BY <1>2 DEF DeliverInv, LinesOK
<1>4. PICK s \in Streams : s = Head(batch[l]).stream
  BY <1>2 DEF Work
<1>5. ASSUME Head(batch[l]).item = NoItem PROVE Head(batch[l]) = CloseOf(s) /\ refs[s] > 0
  <2>1. Head(batch[l]) = CloseOf(s)
    BY <1>2, <1>4, <1>5 DEF Work, CloseOf
  <2>2. laneOf[s] = l
    BY <1>2, <1>3, <1>4 DEF WorkInv
  <2>3. CloseRef(s) = 1 /\ SinkRef(s) \in {0, 1} /\ WriterRef(s) \in {0, 1}
    BY <1>2, <2>1, <2>2 DEF CloseRef, ClosePending, SinkRef, WriterRef
  <2>4. refs[s] = WriterRef(s) + SinkRef(s) + 1
    BY <2>3 DEF DeliverInv, RefsShared
  <2> QED  BY <2>1, <2>3, <2>4
<1> QED  BY <1>2, <1>3, <1>4, <1>5

LEMMA HelperKeeps ==
  ASSUME DeliverInv, NEW l \in LaneIds, HelperStep(l) \/ HelperWakes(l)
  PROVE  DeliverInv'
<1>0. /\ LaneType /\ TypeOK /\ StreamsOK /\ LinesOK /\ SchedInv /\ \A k \in LaneIds : HelperInv(k)
      /\ \A u \in Streams : RefsShared(u)
  BY DEF DeliverInv, StreamsOK
<1>1. LaneType' /\ \A k \in LaneIds : HelperInv(k)'
  BY <1>0, HelperTypes, OwnHelpers
<1>2. UNCHANGED <<laneOf, phase, sched>> /\ SchedInv'
  <2>1. UNCHANGED <<laneOf, phase, sched>>
    BY DEF HelperStep, HelperWakes, HelperTakes, HelperParks, HelperChunk, HelperFinishes, HelperReleases,
           HelperDone, vars, sinkVars
  <2> QED  BY <1>0, <2>1 DEF SchedInv
<1>3. SUFFICES StreamsOK' /\ LinesOK' /\ \A u \in Streams : RefsShared(u)'
  BY <1>1, <1>2 DEF DeliverInv
<1>4. ASSUME NEW k \in LaneIds, NEW i \in DOMAIN Line(k) PROVE Line(k)[i] \in Work /\ Line(k)[i].stream \in Streams
  <2>1. Line(k)[i] \in Work
    BY <1>0, LineType, ElementOfSeq
  <2> QED  BY <2>1 DEF Work
<1>5. CASE HelperTakes(l) \/ HelperParks(l) \/ HelperDone(l) \/ HelperWakes(l)
  <2>1. UNCHANGED vars
    BY <1>5 DEF HelperTakes, HelperParks, HelperDone, HelperWakes
  <2>2. StreamsOK' /\ \A u \in Streams : Steady(u)
    BY <1>0, <1>2, <2>1, IdleStreams
  <2>3. LineSame
    <3>1. CASE HelperTakes(l)
      <4>1. batch[l] = <<>>
        BY <1>0, <3>1 DEF HelperTakes, HelperInv
      <4> QED  BY <1>0, <3>1, <4>1, TakeLeavesLine DEF HelperTakes
    <3>2. CASE HelperParks(l) \/ HelperDone(l) \/ HelperWakes(l)
      BY <3>2, NoLineChange DEF HelperParks, HelperDone, HelperWakes
    <3> QED  BY <1>5, <3>1, <3>2
  <2> QED  BY <1>1, <2>2, <2>3, QuietLines
<1>6. CASE HelperChunk(l)
  <2>1. /\ batch[l] # <<>> /\ Head(batch[l]).item # NoItem
        /\ batch' = [batch EXCEPT ![l] = Tail(@)] /\ UNCHANGED queue
        /\ \/ Take(Head(batch[l]).stream, content[Head(batch[l]).item])
           \/ RefuseChunk(Head(batch[l]).stream, content[Head(batch[l]).item])
        /\ UNCHANGED <<socket, refs, span, sent, sinkVars, laneOf>>
    BY <1>6 DEF HelperChunk
  <2>2. PICK s \in Streams, item \in Items :
          /\ s = Head(batch[l]).stream /\ item = Head(batch[l]).item
          /\ phase[s] \in Open \cup {"released"} /\ (producerDone[s] => failed[s])
    <3>1. /\ Head(batch[l]) = Line(l)[1] /\ Head(batch[l]) \in Work /\ WorkInv(l, 1)
      BY <2>1, FirstWork
    <3>2. Head(batch[l]).item \in Items /\ Head(batch[l]).stream \in Streams
      BY <2>1, <3>1 DEF Work
    <3> QED  BY <2>1, <3>1, <3>2 DEF WorkInv, Open
  <2>3. content[item] \in Seq(Nat)
    BY <1>0 DEF LaneType
  <2>4. StreamsOK' /\ \A u \in Streams : Steady(u)
    BY <1>0, <2>1, <2>2, <2>3, ChunkSteady
  <2>5. Popped(l) /\ Head(batch[l]) = Line(l)[1]
    BY <1>0, <2>1, PopPops
  <2>6. LinesOK'
    <3>1. \A k \in LaneIds : \A i \in DOMAIN Line(k) : Settled(k, i)
      BY <1>4, <2>4 DEF Settled
    <3> QED  BY <1>0, <1>1, <2>5, <3>1, WorkPopped
  <2>7. ASSUME NEW u \in Streams PROVE RefsShared(u)'
    <3>1. Line(l)[1] # CloseOf(u)
      BY <2>1, <2>5 DEF CloseOf
    <3>2. TypeOK'
      BY <2>4 DEF StreamsOK
    <3> QED  BY <1>0, <1>1, <2>4, <2>5, <2>6, <3>1, <3>2, RefsSteady
  <2> QED  BY <2>4, <2>6, <2>7
<1>7. CASE HelperFinishes(l)
  <2>1. /\ batch[l] # <<>> /\ Head(batch[l]).item = NoItem /\ UNCHANGED <<batch, queue>>
        /\ FinishStream(Head(batch[l]).stream)
        /\ UNCHANGED <<socket, ringVars, refs, span, sent, sinkVars, history, laneOf>>
    BY <1>7 DEF HelperFinishes
  <2>2. PICK s \in Streams : s = Head(batch[l]).stream
    BY <2>1, FirstWork
  <2>3. /\ Head(batch[l]) = Line(l)[1] /\ WorkInv(l, 1) /\ phase[s] = "released" /\ laneOf[s] = l
        /\ \A j \in DOMAIN Line(l) : Line(l)[j].stream = s => j = 1 \/ j < 1
    BY <2>1, <2>2, FirstWork DEF WorkInv
  <2>4. /\ StreamsOK' /\ \A u \in Streams \ {s} : Steady(u)
        /\ refs'[s] + WriterRef(s) + SinkRef(s) = refs[s] + WriterRef(s)' + SinkRef(s)'
    BY <1>0, <2>1, <2>2, <2>3, FinishedStreams
  <2>5. LineSame
    BY <2>1, NoLineChange
  <2>6. ASSUME NEW k \in LaneIds, NEW i \in DOMAIN Line(k) PROVE Settled(k, i)
    <3>1. CASE Line(k)[i].stream # s
      BY <1>4, <2>4, <3>1 DEF Settled
    <3>2. CASE Line(k)[i].stream = s
      <4>1. k = l
        BY <1>0, <2>3, <3>2 DEF LinesOK, WorkInv
      <4>2. DOMAIN Line(l) = 1..Len(Line(l))
        BY <1>0, LineType
      <4>3. i = 1
        BY <2>3, <3>2, <4>1, <4>2
      <4> QED  BY <1>2, <2>1, <2>3, <4>1, <4>3 DEF Settled
    <3> QED  BY <3>1, <3>2
  <2>7. LinesOK'
    BY <1>0, <2>5, <2>6, WorkSame
  <2>8. ASSUME NEW u \in Streams PROVE RefsShared(u)'
    <3>1. TypeOK'
      BY <2>4 DEF StreamsOK
    <3>2. ClosePending(u)' <=> ClosePending(u)
      BY <1>0, <1>1, <1>2, <2>5, <2>7, PendingSame
    <3>3. refs'[u] + WriterRef(u) + SinkRef(u) = refs[u] + WriterRef(u)' + SinkRef(u)'
      BY <2>4 DEF Steady
    <3> QED  BY <1>0, <3>1, <3>2, <3>3, RefsKept
  <2> QED  BY <2>4, <2>7, <2>8
<1>8. CASE HelperReleases(l)
  <2>1. /\ batch[l] # <<>> /\ Head(batch[l]).item = NoItem
        /\ batch' = [batch EXCEPT ![l] = Tail(@)] /\ UNCHANGED queue
        /\ Unreference(Head(batch[l]).stream)
        /\ UNCHANGED <<socket, ringVars, flags, writerVars, sinkVars, history, laneOf>>
    BY <1>0, <1>8 DEF HelperReleases, HelperInv
  <2>2. PICK s \in Streams : s = Head(batch[l]).stream
    BY <2>1, FirstWork
  <2>3. /\ Line(l)[1] = CloseOf(s) /\ refs[s] > 0 /\ phase[s] = "released" /\ laneOf[s] = l
        /\ 1 \in DOMAIN Line(l)
        /\ \A j \in DOMAIN Line(l) : Line(l)[j].stream = s => j = 1 \/ j < 1
    BY <2>1, <2>2, FirstWork DEF WorkInv
  <2>4. /\ StreamsOK' /\ refs'[s] = refs[s] - 1 /\ \A u \in Streams \ {s} : Steady(u)
    BY <1>0, <2>1, <2>2, <2>3, UnreferencedStreams
  <2>5. Popped(l)
    BY <1>0, <2>1, PopPops
  <2>6. ASSUME NEW k \in LaneIds, NEW i \in DOMAIN Line(k) PROVE (k = l /\ i = 1) \/ Settled(k, i)
    <3>1. CASE Line(k)[i].stream # s
      BY <1>4, <2>4, <3>1 DEF Settled
    <3>2. CASE Line(k)[i].stream = s
      <4>1. k = l
        BY <1>0, <2>3, <3>2 DEF LinesOK, WorkInv
      <4>2. DOMAIN Line(l) = 1..Len(Line(l))
        BY <1>0, LineType
      <4> QED  BY <2>3, <3>2, <4>1, <4>2
    <3> QED  BY <3>1, <3>2
  <2>7. LinesOK'
    BY <1>0, <1>1, <2>5, <2>6, WorkPopped
  <2>8. ASSUME NEW u \in Streams \ {s} PROVE RefsShared(u)'
    <3>1. Line(l)[1] # CloseOf(u)
      BY <2>3 DEF CloseOf
    <3>2. TypeOK'
      BY <2>4 DEF StreamsOK
    <3> QED  BY <1>0, <1>1, <2>4, <2>5, <2>7, <3>1, <3>2, RefsSteady
  <2>9. RefsShared(s)'
    <3>1. ClosePending(s)
      BY <2>3 DEF ClosePending
    <3>2. ~ClosePending(s)'
      <4>1. PICK n \in Nat \ {0} : n = Len(Line(l))
        BY <1>0, <1>1, <2>5, PoppedPlaces
      <4>2. /\ DOMAIN Line(l)' = 1..(n - 1) /\ DOMAIN Line(l) = 1..n
            /\ \A i \in 1..(n - 1) : Line(l)'[i] = Line(l)[i + 1]
        BY <1>0, <1>1, <2>5, <4>1, PoppedPlaces
      <4>3. ASSUME NEW i \in 1..(n - 1), Line(l)'[i] = CloseOf(s) PROVE FALSE
        <5>1. i + 1 \in 1..n /\ i + 1 # 1 /\ ~(i + 1 < 1)
          BY <4>3
        <5>2. Line(l)[i + 1].stream = s
          BY <4>2, <4>3 DEF CloseOf
        <5> QED  BY <2>3, <4>2, <5>1, <5>2
      <4> QED  BY <1>2, <2>3, <4>2, <4>3 DEF ClosePending
    <3>3. CloseRef(s) = 1 /\ CloseRef(s)' = 0 /\ SinkRef(s) = 0 /\ SinkRef(s)' = 0
          /\ WriterRef(s)' = WriterRef(s)
      BY <1>2, <2>1, <2>3, <3>1, <3>2 DEF CloseRef, SinkRef, WriterRef, writerVars, Open
    <3>4. PICK w \in Int : w = WriterRef(s)
      BY DEF WriterRef
    <3>5. refs[s] = w + 0 + 1
      BY <1>0, <3>3, <3>4 DEF RefsShared
    <3>6. (w + 0 + 1) - 1 = w + 0 + 0
      BY <3>4
    <3> QED  BY <2>4, <3>3, <3>4, <3>5, <3>6 DEF RefsShared
  <2> QED  BY <2>4, <2>7, <2>8, <2>9
<1> QED  BY <1>5, <1>6, <1>7, <1>8 DEF HelperStep

LEMMA AroundKeeps ==
  ASSUME DeliverInv, NEW s \in Streams, Around(s), UNCHANGED laneVars
  PROVE  DeliverInv'
<1>0. /\ LaneType /\ TypeOK /\ StreamsOK /\ LinesOK /\ SchedInv /\ \A k \in LaneIds : HelperInv(k)
      /\ \A u \in Streams : RefsShared(u)
  BY DEF DeliverInv, StreamsOK
<1>1. LaneType' /\ LineSame /\ \A k \in LaneIds : HelperInv(k)'
  BY <1>0, NoLineChange DEF LaneType, laneVars, HelperInv
<1>2. writer[s] = "release" => refs[s] > 0
  <2>1. refs[s] = WriterRef(s) + SinkRef(s) + CloseRef(s)
    BY <1>0 DEF RefsShared
  <2>2. ASSUME writer[s] = "release" PROVE refs[s] > 0
    <3>1. WriterRef(s) = 1 /\ SinkRef(s) \in {0, 1} /\ CloseRef(s) \in {0, 1}
      BY <2>2 DEF WriterRef, SinkRef, CloseRef
    <3> QED  BY <2>1, <3>1
  <2> QED  BY <2>2
<1>3. StreamsOK' /\ \A u \in Streams : Steady(u)
  BY <1>0, <1>2, AroundSteady DEF laneVars
<1>4. LinesOK' /\ \A u \in Streams : RefsShared(u)'
  BY <1>1, <1>3, QuietLines
<1>5. SchedInv'
  <2>1. UNCHANGED phase
    BY DEF Around, WriterStep, SpuriousWakeup, PeerChanges, Header, TakeSpan, Sleep, Leave, SendSome,
           SendFails, Advance, Decide, Terminate, Close, WriterReleases, Frame, sinkVars
  <2> QED  BY <1>0, <2>1 DEF SchedInv, laneVars
<1> QED  BY <1>1, <1>3, <1>4, <1>5 DEF DeliverInv

LEMMA DeliverStarts == DeliverInit => DeliverInv
<1> SUFFICES ASSUME DeliverInit PROVE DeliverInv
  OBVIOUS
<1>1. StreamsOK
  <2>1. StreamInv
    BY StreamInit DEF DeliverInit
  <2> QED  BY <2>1 DEF StreamInv, StreamsOK, DeliverInit, Init
<1>2. LaneType
  <2>1. 0 \in 0..(Lanes - 1) /\ <<>> \in Seq(Work) /\ <<>> \in Seq(Items) /\ <<>> \in Seq(Nat)
    BY LaneAssumption, EmptySeq
  <2>2. /\ nextLane \in 0..(Lanes - 1) /\ laneOf \in [Streams -> 0..(Lanes - 1)]
        /\ queue \in [0..(Lanes - 1) -> Seq(Work)] /\ batch \in [0..(Lanes - 1) -> Seq(Work)]
    BY <2>1 DEF DeliverInit
  <2>3. /\ spare \in [0..(Lanes - 1) -> Seq(Items)] /\ spent \in [0..(Lanes - 1) -> Seq(Items)]
        /\ content \in [Items -> Seq(Nat)]
    BY <2>1 DEF DeliverInit
  <2>4. sched \in [at : {"idle", "fill", "push"}, stream : Streams \cup {"none"},
                   item : Items \cup {NoItem}, chunk : Seq(Nat)]
    BY <2>1 DEF DeliverInit, Idle, Busy
  <2> QED  BY <2>2, <2>3, <2>4 DEF DeliverInit, LaneType
<1>3. ASSUME NEW l \in LaneIds PROVE HelperInv(l) /\ DOMAIN Line(l) = {}
  <2>1. batch[l] = <<>> /\ queue[l] = <<>> /\ helper[l] = "top"
    BY <1>3 DEF DeliverInit, LaneIds
  <2>2. Line(l) = <<>>
    BY <2>1 DEF Line
  <2> QED  BY <2>1, <2>2 DEF HelperInv
<1>4. ASSUME NEW s \in Streams PROVE RefsShared(s)
  <2>1. laneOf[s] \in LaneIds
    BY <1>2 DEF LaneType, LaneIds
  <2>2. ~ClosePending(s)
    BY <1>3, <2>1 DEF ClosePending
  <2>3. WriterRef(s) = 0 /\ SinkRef(s) = 0 /\ CloseRef(s) = 0 /\ refs[s] = 0
    BY <2>2 DEF WriterRef, SinkRef, CloseRef, Open, DeliverInit, Init
  <2> QED  BY <2>3 DEF RefsShared
<1>5. SchedInv
  BY DEF DeliverInit, SchedInv, Idle, Busy
<1> QED  BY <1>1, <1>2, <1>3, <1>4, <1>5 DEF DeliverInv, LinesOK

LEMMA DeliverStep == DeliverInv /\ [DeliverNext]_allVars => DeliverInv'
<1> SUFFICES ASSUME DeliverInv, [DeliverNext]_allVars PROVE DeliverInv'
  OBVIOUS
<1>1. CASE SchedulerStep
  BY <1>1, SchedulerQuiet, PushesKeeps, CloseKeeps DEF SchedulerStep
<1>2. ASSUME NEW l \in DOMAIN queue, HelperStep(l) \/ HelperWakes(l) PROVE DeliverInv'
  <2>1. l \in LaneIds
    BY DEF DeliverInv, LaneType, LaneIds
  <2> QED  BY <1>2, <2>1, HelperKeeps
<1>3. ASSUME NEW s \in Streams, Around(s), UNCHANGED laneVars PROVE DeliverInv'
  BY <1>3, AroundKeeps
<1>4. CASE UNCHANGED allVars
  <2>1. UNCHANGED <<vars, laneVars>>
    BY <1>4 DEF allVars
  <2>2. LaneType' /\ LineSame /\ (\A k \in LaneIds : HelperInv(k)') /\ UNCHANGED <<laneOf, sched>>
    BY <2>1, NoLineChange DEF DeliverInv, LaneType, laneVars, HelperInv
  <2>3. StreamsOK' /\ \A u \in Streams : Steady(u)
    BY <2>1, <2>2, IdleStreams DEF DeliverInv
  <2>4. LinesOK' /\ \A u \in Streams : RefsShared(u)'
    BY <2>2, <2>3, QuietLines
  <2>5. SchedInv'
    BY <2>1, <2>2 DEF DeliverInv, SchedInv, vars, sinkVars
  <2> QED  BY <2>2, <2>3, <2>4, <2>5 DEF DeliverInv
<1> QED  BY <1>1, <1>2, <1>3, <1>4 DEF DeliverNext, DeliverOver

LEMMA DeliveryIsSafe == DeliverSpec => []DeliverInv
<1> QED  BY DeliverStarts, DeliverStep, PTL DEF DeliverSpec

LEMMA SafeSleep == DeliverInv => NoWorkAsleep
BY DEF DeliverInv, HelperInv, NoWorkAsleep, LaneType, LaneIds

\* A push signals only a helper whose flag says that it is parked, and that is
\* enough: stream_out_deliver_main() sets the flag whenever it waits.
THEOREM NoHelperSleepsOnWork == DeliverSpec => []NoWorkAsleep
<1> QED  BY DeliveryIsSafe, SafeSleep, PTL

LEMMA WorkIsHeld ==
  ASSUME DeliverInv, NEW l \in LaneIds, NEW i \in DOMAIN Line(l)
  PROVE  refs[Line(l)[i].stream] > 0
<1>1. WorkInv(l, i) /\ Line(l)[i] \in Work
  BY LineType, ElementOfSeq DEF DeliverInv, LinesOK
<1>2. PICK s \in Streams : s = Line(l)[i].stream
  BY <1>1 DEF Work
<1>3. laneOf[s] = l /\ (phase[s] \in Open \/ ClosePending(s))
  <2>1. CASE Line(l)[i].item = NoItem
    <3>1. Line(l)[i] = CloseOf(s)
      BY <1>1, <1>2, <2>1 DEF Work, CloseOf
    <3> QED  BY <1>1, <1>2, <3>1 DEF WorkInv, ClosePending
  <2>2. CASE Line(l)[i].item # NoItem
    BY <1>1, <1>2, <2>2 DEF WorkInv, ClosePending, Open
  <2> QED  BY <2>1, <2>2
<1>4. WriterRef(s) \in {0, 1} /\ SinkRef(s) \in {0, 1} /\ CloseRef(s) \in {0, 1}
      /\ (SinkRef(s) = 1 \/ CloseRef(s) = 1)
  BY <1>3 DEF WriterRef, SinkRef, CloseRef
<1>5. refs[s] = WriterRef(s) + SinkRef(s) + CloseRef(s)
  BY DEF DeliverInv, RefsShared
<1> QED  BY <1>2, <1>4, <1>5

LEMMA SafeQueue == DeliverInv => QueuedKeepsAlive
<1> SUFFICES ASSUME DeliverInv, NEW l \in DOMAIN queue PROVE
      /\ \A i \in DOMAIN queue[l] : refs[queue[l][i].stream] > 0
      /\ \A i \in DOMAIN batch[l] : refs[batch[l][i].stream] > 0
  BY DEF QueuedKeepsAlive
<1>1. LaneType /\ l \in LaneIds
  BY DEF DeliverInv, LaneType, LaneIds
<1>2. PICK n \in Nat, m \in Nat : n = Len(batch[l]) /\ m = Len(queue[l])
  BY <1>1, LineType
<1>3. /\ DOMAIN Line(l) = 1..(n + m) /\ DOMAIN batch[l] = 1..n /\ DOMAIN queue[l] = 1..m
      /\ \A i \in 1..n : Line(l)[i] = batch[l][i]
      /\ \A i \in 1..m : Line(l)[n + i] = queue[l][i]
  BY <1>1, <1>2, LineType
<1>4. ASSUME NEW i \in 1..m PROVE refs[queue[l][i].stream] > 0
  <2>1. n + i \in DOMAIN Line(l)
    BY <1>3
  <2> QED  BY <1>1, <1>3, <2>1, WorkIsHeld
<1>5. ASSUME NEW i \in 1..n PROVE refs[batch[l][i].stream] > 0
  <2>1. i \in DOMAIN Line(l)
    BY <1>3
  <2> QED  BY <1>1, <1>3, <2>1, WorkIsHeld
<1> QED  BY <1>3, <1>4, <1>5

\* The scheduler's reference is given back by the helper that closes the stream,
\* after everything the stream has queued: no helper works for a freed stream.
THEOREM WorkKeepsStreamsAlive == DeliverSpec => []QueuedKeepsAlive
<1> QED  BY DeliveryIsSafe, SafeQueue, PTL

-----------------------------------------------------------------------------
(* Items are moved, never copied.                                          *)

LEMMA PlacesSame ==
  ASSUME NEW x \in Items, Apart(x), UNCHANGED <<spare, spent>>, LineSame,
         sched'.item = x => sched.item = x
  PROVE  Apart(x)'
<1>1. ASSUME NEW k \in Kinds, NEW l \in LaneIds, NEW i \in Nat, At(x, k, l, i)'
      PROVE  At(x, k, l, i)
  BY <1>1 DEF At, LineSame
<1> QED  BY <1>1 DEF Apart

\* the lane's first spare item comes to hand
LEMMA SpareToHand ==
  ASSUME LaneType, NEW lane \in LaneIds, spare[lane] # <<>>, NEW x \in Items, Apart(x), LineSame,
         spare' = [spare EXCEPT ![lane] = Tail(@)], UNCHANGED spent, sched'.item = Head(spare[lane])
  PROVE  Apart(x)'
<1>1. PICK a \in Seq(Items) : a = spare[lane]
  BY DEF LaneType, LaneIds
<1>2. /\ Len(a) \in Nat \ {0} /\ DOMAIN a = 1..Len(a) /\ Head(a) = a[1]
      /\ DOMAIN Tail(a) = 1..(Len(a) - 1)
      /\ \A i \in 1..(Len(a) - 1) : Tail(a)[i] = a[i + 1]
  BY <1>1, HeadTailProperties, LenProperties, EmptySeq
<1>3. spare'[lane] = Tail(a) /\ \A l \in LaneIds \ {lane} : spare'[l] = spare[l]
  BY <1>1 DEF LaneType, LaneIds
<1>4. ASSUME NEW k \in Kinds, NEW l \in LaneIds, NEW i \in Nat, At(x, k, l, i)'
      PROVE  \/ k \in {"spent", "line"} /\ At(x, k, l, i)
             \/ k = "spare" /\ l # lane /\ At(x, k, l, i)
             \/ k = "spare" /\ l = lane /\ i >= 1 /\ At(x, "spare", lane, i + 1)
             \/ k = "hand" /\ l = 0 /\ i = 1 /\ At(x, "spare", lane, 1)
  <2>1. CASE k \in {"spent", "line"} \/ (k = "spare" /\ l # lane)
    BY <1>3, <1>4, <2>1 DEF At, LineSame
  <2>2. CASE k = "spare" /\ l = lane
    <3>1. i \in 1..(Len(a) - 1) /\ a[i + 1] = x
      BY <1>2, <1>3, <1>4, <2>2 DEF At
    <3>2. i + 1 \in 1..Len(a)
      BY <1>2, <3>1
    <3> QED  BY <1>1, <1>2, <2>2, <3>1, <3>2 DEF At
  <2>3. CASE k = "hand"
    <3>1. l = 0 /\ i = 1 /\ a[1] = x
      BY <1>1, <1>2, <1>4, <2>3 DEF At
    <3> QED  BY <1>1, <1>2, <2>3, <3>1 DEF At
  <2> QED  BY <2>1, <2>2, <2>3 DEF Kinds
<1>5. ASSUME NEW k \in Kinds, NEW l \in LaneIds, NEW i \in Nat, At(x, k, l, i)',
             NEW k2 \in Kinds, NEW l2 \in LaneIds, NEW i2 \in Nat, At(x, k2, l2, i2)'
      PROVE  k = k2 /\ l = l2 /\ i = i2
  BY <1>4, <1>5 DEF Apart, Kinds
<1> QED  BY <1>5 DEF Apart

\* An item nobody has is in no place.
LEMMA NowhereElse ==
  ASSUME LaneType, NEW x \in Unallocated, NEW k \in Kinds, NEW l \in LaneIds, NEW i \in Nat
  PROVE  ~At(x, k, l, i)
<1>1. /\ x \in Items /\ DOMAIN spare = LaneIds /\ x # sched.item
      /\ \A m \in LaneIds : x \notin Elements(spare[m]) \cup Elements(spent[m])
                              \cup ItemsIn(queue[m]) \cup ItemsIn(batch[m])
  <2>1. x \in Items /\ DOMAIN spare = LaneIds
    BY DEF Unallocated, LaneType, LaneIds
  <2>2. \A m \in LaneIds : x \notin Elements(spare[m]) \cup Elements(spent[m]) \cup ItemsIn(queue[m])
                                      \cup ItemsIn(batch[m]) \cup {sched.item}
    BY <2>1 DEF Unallocated
  <2>3. 0 \in LaneIds
    BY LaneAssumption DEF LaneIds
  <2> QED  BY <2>1, <2>2, <2>3
<1>2. x # NoItem
  BY <1>1, ItemAssumption
<1>3. ASSUME i \in DOMAIN Line(l), Line(l)[i].item = x PROVE FALSE
  <2>1. PICK n \in Nat, m \in Nat : n = Len(batch[l]) /\ m = Len(queue[l])
    BY LineType
  <2>2. /\ DOMAIN Line(l) = 1..(n + m) /\ DOMAIN batch[l] = 1..n /\ DOMAIN queue[l] = 1..m
        /\ \A j \in 1..n : Line(l)[j] = batch[l][j]
        /\ \A j \in 1..m : Line(l)[n + j] = queue[l][j]
    BY <2>1, LineType
  <2>3. CASE i <= n
    <3>1. i \in 1..n /\ batch[l][i].item = x
      BY <1>3, <2>2, <2>3
    <3> QED  BY <1>1, <1>2, <2>2, <3>1 DEF ItemsIn
  <2>4. CASE i > n
    <3>1. i - n \in 1..m /\ n + (i - n) = i
      BY <1>3, <2>2, <2>4
    <3>2. queue[l][i - n].item = x
      BY <1>3, <2>2, <3>1
    <3> QED  BY <1>1, <1>2, <2>2, <3>1, <3>2 DEF ItemsIn
  <2> QED  BY <2>1, <2>3, <2>4
<1> QED  BY <1>1, <1>3 DEF At, Elements

\* The item in hand is put on the spare list, or a new one is.
LEMMA HandToSpare ==
  ASSUME LaneType, NEW lane \in LaneIds, NEW item \in Items, item \in Unallocated \/ sched.item = item,
         NEW x \in Items, Apart(x), LineSame,
         spare' = [spare EXCEPT ![lane] = <<item>> \o @], UNCHANGED spent, sched'.item = NoItem
  PROVE  Apart(x)'
<1>1. PICK a \in Seq(Items) : a = spare[lane]
  BY DEF LaneType, LaneIds
<1>2. /\ Len(a) \in Nat /\ DOMAIN a = 1..Len(a)
      /\ DOMAIN (<<item>> \o a) = 1..(Len(a) + 1)
      /\ (<<item>> \o a)[1] = item
      /\ \A i \in 1..Len(a) : (<<item>> \o a)[i + 1] = a[i]
  <2>0. <<item>> \in Seq(Items)
    OBVIOUS
  <2>1. PICK b \in Seq(Items) : b = <<item>>
    BY <2>0
  <2>2. Len(b) = 1 /\ b[1] = item
    BY <2>1
  <2>3. /\ Len(b \o a) = Len(b) + Len(a) /\ DOMAIN (b \o a) = 1..Len(b \o a)
        /\ Len(a) \in Nat /\ DOMAIN a = 1..Len(a)
        /\ \A i \in 1..Len(b) : (b \o a)[i] = b[i]
        /\ \A i \in 1..Len(a) : (b \o a)[Len(b) + i] = a[i]
    BY ConcatParts
  <2>4. Len(b \o a) = Len(a) + 1 /\ \A i \in 1..Len(a) : (b \o a)[i + 1] = a[i]
    BY <2>2, <2>3
  <2>5. (b \o a)[1] = item
    BY <2>2, <2>3
  <2> QED  BY <2>1, <2>3, <2>4, <2>5
<1>3. spare'[lane] = <<item>> \o a /\ \A l \in LaneIds \ {lane} : spare'[l] = spare[l]
  BY <1>1 DEF LaneType, LaneIds
<1>4. ASSUME NEW k \in Kinds, NEW l \in LaneIds, NEW i \in Nat, At(x, k, l, i)'
      PROVE  \/ k \in {"spent", "line"} /\ At(x, k, l, i)
             \/ k = "spare" /\ l # lane /\ At(x, k, l, i)
             \/ k = "spare" /\ l = lane /\ i > 1 /\ At(x, "spare", lane, i - 1)
             \/ k = "spare" /\ l = lane /\ i = 1 /\ x = item
  <2>1. CASE k \in {"spent", "line"} \/ (k = "spare" /\ l # lane)
    BY <1>3, <1>4, <2>1 DEF At, LineSame
  <2>2. CASE k = "spare" /\ l = lane
    <3>1. i \in 1..(Len(a) + 1) /\ (<<item>> \o a)[i] = x
      BY <1>2, <1>3, <1>4, <2>2 DEF At
    <3>2. CASE i = 1
      BY <1>2, <2>2, <3>1, <3>2
    <3>3. CASE i # 1
      <4>1. i - 1 \in 1..Len(a) /\ (i - 1) + 1 = i /\ i > 1
        BY <1>2, <3>1, <3>3
      <4>2. a[i - 1] = x
        BY <1>2, <3>1, <4>1
      <4> QED  BY <1>1, <1>2, <2>2, <4>1, <4>2 DEF At
    <3> QED  BY <3>2, <3>3
  <2>3. CASE k = "hand"
    BY <1>4, <2>3, ItemAssumption DEF At
  <2> QED  BY <2>1, <2>2, <2>3 DEF Kinds
<1>5. 0 \in LaneIds /\ 1 \in Nat
  BY LaneAssumption DEF LaneIds
<1>6. CASE x # item
  BY <1>4, <1>5, <1>6 DEF Apart, Kinds
<1>7. CASE x = item /\ sched.item = item
  <2>1. At(x, "hand", 0, 1)
    BY <1>7 DEF At
  <2> QED  BY <1>4, <1>5, <1>7, <2>1 DEF Apart, Kinds
<1>8. CASE x = item /\ item \in Unallocated
  <2>1. ASSUME NEW k \in Kinds, NEW l \in LaneIds, NEW i \in Nat, At(x, k, l, i)'
        PROVE  k = "spare" /\ l = lane /\ i = 1
    <3>1. \A n \in Kinds, m \in LaneIds, j \in Nat : ~At(x, n, m, j)
      BY <1>8, NowhereElse
    <3>2. "spare" \in Kinds /\ (i > 1 => i - 1 \in Nat)
      BY DEF Kinds
    <3> QED  BY <1>4, <2>1, <3>1, <3>2
  <2> QED  BY <2>1 DEF Apart
<1> QED  BY <1>6, <1>7, <1>8

LEMMA FillHand ==
  ASSUME LaneType, NEW item \in Items, item \in Unallocated \/ sched.item = item,
         NEW x \in Items, Apart(x), LineSame, UNCHANGED <<spare, spent>>, sched'.item = item
  PROVE  Apart(x)'
<1>1. CASE sched.item = item
  BY <1>1, PlacesSame
<1>2. CASE item \in Unallocated
  <2>1. CASE x # item
    BY <2>1, PlacesSame
  <2>2. CASE x = item
    <3>1. ASSUME NEW k \in Kinds, NEW l \in LaneIds, NEW i \in Nat, At(x, k, l, i)'
          PROVE  k = "hand" /\ l = 0 /\ i = 1
      <4>1. ~At(x, k, l, i)
        BY <1>2, <2>2, NowhereElse
      <4> QED  BY <3>1, <4>1 DEF At, LineSame
    <3> QED  BY <3>1 DEF Apart
  <2> QED  BY <2>1, <2>2
<1> QED  BY <1>1, <1>2

\* A chunk's item leaves the hand for the end of the line; a close has none.
LEMMA HandToLine ==
  ASSUME LaneType, LaneType', NEW lane \in LaneIds, NEW w \in Work, Pushed(lane, w),
         w.item = sched.item, sched'.item = NoItem,
         NEW x \in Items, Apart(x), UNCHANGED <<spare, spent>>
  PROVE  Apart(x)'
<1>1. PICK n \in Nat : n = Len(Line(lane))
  BY PushedPlaces
<1>2. /\ DOMAIN Line(lane)' = 1..(n + 1) /\ DOMAIN Line(lane) = 1..n
      /\ \A i \in 1..n : Line(lane)'[i] = Line(lane)[i]
      /\ Line(lane)'[n + 1] = w
      /\ \A l \in LaneIds \ {lane} : Line(l)' = Line(l)
  BY <1>1, PushedPlaces DEF Pushed
<1>4. ASSUME NEW k \in Kinds, NEW l \in LaneIds, NEW i \in Nat, At(x, k, l, i)'
      PROVE  \/ k \in {"spent", "spare"} /\ At(x, k, l, i)
             \/ k = "line" /\ (l # lane \/ i # n + 1) /\ At(x, k, l, i)
             \/ k = "line" /\ l = lane /\ i = n + 1 /\ At(x, "hand", 0, 1)
  <2>1. CASE k \in {"spent", "spare"} \/ (k = "line" /\ l # lane)
    BY <1>2, <1>4, <2>1 DEF At
  <2>2. CASE k = "line" /\ l = lane
    <3>1. i \in 1..(n + 1) /\ Line(lane)'[i].item = x
      BY <1>2, <1>4, <2>2 DEF At
    <3>2. CASE i = n + 1
      <4>1. sched.item = x
        BY <1>2, <3>1, <3>2
      <4> QED  BY <2>2, <3>2, <4>1 DEF At
    <3>3. CASE i # n + 1
      <4>1. i \in 1..n
        BY <3>1, <3>3
      <4> QED  BY <1>2, <2>2, <3>1, <3>3, <4>1 DEF At
    <3> QED  BY <3>2, <3>3
  <2>3. CASE k = "hand"
    BY <1>4, <2>3, ItemAssumption DEF At
  <2> QED  BY <2>1, <2>2, <2>3 DEF Kinds
<1>5. 0 \in LaneIds /\ 1 \in Nat
  BY LaneAssumption DEF LaneIds
<1>6. ASSUME NEW k \in Kinds, NEW l \in LaneIds, NEW i \in Nat, At(x, k, l, i)',
             NEW k2 \in Kinds, NEW l2 \in LaneIds, NEW i2 \in Nat, At(x, k2, l2, i2)'
      PROVE  k = k2 /\ l = l2 /\ i = i2
  BY <1>4, <1>5, <1>6 DEF Apart, Kinds
<1> QED  BY <1>6 DEF Apart

\* What the helper has done with is recycled before what was there.
LEMMA SpentToSpare ==
  ASSUME LaneType, NEW lane \in LaneIds, NEW x \in Items, Apart(x), LineSame,
         spare' = [spare EXCEPT ![lane] = spent[lane] \o @], spent' = [spent EXCEPT ![lane] = <<>>],
         UNCHANGED sched
  PROVE  Apart(x)'
<1>1. PICK a \in Seq(Items), b \in Seq(Items) : a = spent[lane] /\ b = spare[lane]
  BY DEF LaneType, LaneIds
<1>0. PICK n \in Nat, m \in Nat : n = Len(a) /\ m = Len(b)
  BY LenProperties
<1>2. /\ DOMAIN a = 1..n /\ DOMAIN b = 1..m /\ DOMAIN (a \o b) = 1..(n + m)
      /\ \A i \in 1..n : (a \o b)[i] = a[i]
      /\ \A i \in 1..m : (a \o b)[n + i] = b[i]
  BY <1>0, ConcatParts
<1>3. /\ spare'[lane] = a \o b /\ \A l \in LaneIds \ {lane} : spare'[l] = spare[l]
      /\ spent'[lane] = <<>> /\ \A l \in LaneIds \ {lane} : spent'[l] = spent[l]
  BY <1>1 DEF LaneType, LaneIds
<1>4. ASSUME NEW k \in Kinds, NEW l \in LaneIds, NEW i \in Nat, At(x, k, l, i)'
      PROVE  \/ (k = "line" \/ k = "hand" \/ l # lane) /\ At(x, k, l, i)
             \/ k = "spare" /\ l = lane /\ i <= n /\ At(x, "spent", lane, i)
             \/ k = "spare" /\ l = lane /\ i > n /\ At(x, "spare", lane, i - n)
  <2>1. CASE k = "line" \/ k = "hand" \/ l # lane
    <3>1. l # lane => spare'[l] = spare[l] /\ spent'[l] = spent[l]
      BY <1>3
    <3> QED  BY <1>4, <2>1, <3>1 DEF At, LineSame
  <2>2. CASE k = "spare" /\ l = lane
    <3>1. i \in 1..(n + m) /\ (a \o b)[i] = x
      BY <1>2, <1>3, <1>4, <2>2 DEF At
    <3>2. CASE i <= n
      <4>1. i \in 1..n
        BY <3>1, <3>2
      <4> QED  BY <1>1, <1>2, <2>2, <3>1, <3>2, <4>1 DEF At
    <3>3. CASE i > n
      <4>1. i - n \in 1..m /\ n + (i - n) = i
        BY <3>1, <3>3
      <4>2. b[i - n] = x
        BY <1>2, <3>1, <4>1
      <4> QED  BY <1>1, <1>2, <2>2, <3>3, <4>1, <4>2 DEF At
    <3> QED  BY <3>2, <3>3
  <2>3. CASE k = "spent" /\ l = lane
    BY <1>3, <1>4, <2>3 DEF At
  <2> QED  BY <2>1, <2>2, <2>3 DEF Kinds
<1>5. \A i \in Nat : i > n => i - n \in Nat
  OBVIOUS
<1>6. ASSUME NEW k \in Kinds, NEW l \in LaneIds, NEW i \in Nat, At(x, k, l, i)',
             NEW k2 \in Kinds, NEW l2 \in LaneIds, NEW i2 \in Nat, At(x, k2, l2, i2)'
      PROVE  k = k2 /\ l = l2 /\ i = i2
  BY <1>4, <1>5, <1>6 DEF Apart, Kinds
<1> QED  BY <1>6 DEF Apart

\* The line's first work is done: its item, if it has one, is spent.
LEMMA LineToSpent ==
  ASSUME LaneType, LaneType', NEW lane \in LaneIds, Popped(lane), NEW item, item = Line(lane)[1].item,
         NEW x \in Items, Apart(x), UNCHANGED <<spare, sched>>,
         \/ item \in Items /\ spent' = [spent EXCEPT ![lane] = Append(@, item)]
         \/ UNCHANGED spent
  PROVE  Apart(x)'
<1>1. PICK n \in Nat \ {0} : n = Len(Line(lane))
  BY PoppedPlaces
<1>2. /\ DOMAIN Line(lane)' = 1..(n - 1) /\ DOMAIN Line(lane) = 1..n
      /\ \A i \in 1..(n - 1) : Line(lane)'[i] = Line(lane)[i + 1]
      /\ \A l \in LaneIds \ {lane} : Line(l)' = Line(l)
  BY <1>1, PoppedPlaces DEF Popped
<1>3. PICK a \in Seq(Items) : a = spent[lane]
  BY DEF LaneType, LaneIds
<1>0. PICK m \in Nat : m = Len(a) /\ DOMAIN a = 1..m
  BY LenProperties
<1>4. /\ \A l \in LaneIds \ {lane} : spent'[l] = spent[l]
      /\ \A i \in Nat : i \in DOMAIN spent'[lane] /\ spent'[lane][i] = x =>
           \/ i \in 1..m /\ a[i] = x
           \/ i = m + 1 /\ item = x
  <2>1. CASE UNCHANGED spent
    BY <1>0, <1>3, <2>1
  <2>2. CASE item \in Items /\ spent' = [spent EXCEPT ![lane] = Append(@, item)]
    <3>1. spent'[lane] = Append(a, item) /\ \A l \in LaneIds \ {lane} : spent'[l] = spent[l]
      BY <1>3, <2>2 DEF LaneType, LaneIds
    <3>2. /\ DOMAIN Append(a, item) = 1..(m + 1) /\ Append(a, item)[m + 1] = item
          /\ \A i \in 1..m : Append(a, item)[i] = a[i]
      <4>1. /\ Append(a, item) \in Seq(Items) /\ Len(Append(a, item)) = Len(a) + 1
            /\ Append(a, item)[Len(a) + 1] = item
            /\ \A i \in 1..Len(a) : Append(a, item)[i] = a[i]
        BY <2>2, AppendProperties
      <4> QED  BY <1>0, <4>1, LenProperties
    <3>3. \A i \in 1..(m + 1) : i \in 1..m \/ i = m + 1
      OBVIOUS
    <3> QED  BY <3>1, <3>2, <3>3
  <2> QED  BY <2>1, <2>2
<1>5. ASSUME NEW k \in Kinds, NEW l \in LaneIds, NEW i \in Nat, At(x, k, l, i)'
      PROVE  \/ k \in {"spare", "hand"} /\ At(x, k, l, i)
             \/ k \in {"spent", "line"} /\ l # lane /\ At(x, k, l, i)
             \/ k = "spent" /\ l = lane /\ i # m + 1 /\ At(x, k, l, i)
             \/ k = "spent" /\ l = lane /\ i = m + 1 /\ At(x, "line", lane, 1)
             \/ k = "line" /\ l = lane /\ i >= 1 /\ At(x, "line", lane, i + 1)
  <2>1. CASE k \in {"spare", "hand"} \/ l # lane
    <3>1. l # lane => Line(l)' = Line(l) /\ spent'[l] = spent[l]
      BY <1>2, <1>4
    <3> QED  BY <1>5, <2>1, <3>1 DEF At, Kinds
  <2>2. CASE k = "spent" /\ l = lane
    <3>1. (i \in 1..m /\ a[i] = x) \/ (i = m + 1 /\ item = x)
      BY <1>4, <1>5, <2>2 DEF At
    <3>2. 1 \in 1..n
      BY <1>1
    <3> QED  BY <1>0, <1>2, <1>3, <2>2, <3>1, <3>2 DEF At
  <2>3. CASE k = "line" /\ l = lane
    <3>1. i \in 1..(n - 1) /\ Line(lane)[i + 1].item = x
      BY <1>2, <1>5, <2>3 DEF At
    <3>2. i + 1 \in 1..n
      BY <3>1
    <3> QED  BY <1>2, <2>3, <3>1, <3>2 DEF At
  <2> QED  BY <2>1, <2>2, <2>3 DEF Kinds
<1>6. ASSUME NEW k \in Kinds, NEW l \in LaneIds, NEW i \in Nat, At(x, k, l, i)',
             NEW k2 \in Kinds, NEW l2 \in LaneIds, NEW i2 \in Nat, At(x, k2, l2, i2)'
      PROVE  k = k2 /\ l = l2 /\ i = i2
  BY <1>5, <1>6 DEF Apart, Kinds
<1> QED  BY <1>6 DEF Apart

LEMMA ItemsStep == DeliverInv /\ DeliverInv' /\ ItemsApart /\ [DeliverNext]_allVars => ItemsApart'
<1> SUFFICES ASSUME DeliverInv, DeliverInv', ItemsApart, [DeliverNext]_allVars, NEW x \in Items
             PROVE  Apart(x)'
  BY DEF ItemsApart
<1>0. /\ LaneType /\ LaneType' /\ SchedInv /\ Apart(x) /\ NoItem \notin Items
      /\ \A l \in LaneIds : HelperInv(l)
  BY ItemAssumption DEF DeliverInv, ItemsApart
<1>1. ASSUME UNCHANGED <<spare, spent, sched, batch, queue>> PROVE Apart(x)'
  BY <1>0, <1>1, PlacesSame, NoLineChange
<1>2. ASSUME NEW s \in Streams, DeliverCallbacks(s) PROVE Apart(x)'
  BY <1>1, <1>2 DEF DeliverCallbacks
<1>3. ASSUME NEW s \in Streams, DeliverClose(s) PROVE Apart(x)'
  <2>1. CloseOf(s) \in Work /\ CloseOf(s).item = NoItem /\ laneOf[s] \in LaneIds
    BY <1>0 DEF CloseOf, Work, LaneType, LaneIds
  <2>2. sched = Idle /\ Push(laneOf[s], CloseOf(s)) /\ UNCHANGED <<spare, spent, sched, batch>>
    BY <1>3 DEF DeliverClose
  <2>3. Pushed(laneOf[s], CloseOf(s))
    BY <1>0, <2>1, <2>2, PushPushes
  <2>4. sched.item = NoItem /\ sched'.item = NoItem
    BY <2>2 DEF Idle, Busy
  <2> QED  BY <1>0, <2>1, <2>2, <2>3, <2>4, HandToLine
<1>4. ASSUME NEW s \in Streams, NEW n \in ChunkSizes, DeliverRefused(s, n) PROVE Apart(x)'
  BY <1>1, <1>4 DEF DeliverRefused, laneVars
<1>5. ASSUME NEW s \in Streams, NEW n \in ChunkSizes, DeliverTakesItem(s, n) PROVE Apart(x)'
  <2>1. LineSame /\ spent' = spent
    BY <1>5, NoLineChange DEF DeliverTakesItem
  <2>2. laneOf[s] \in LaneIds
    BY <1>0 DEF LaneType, LaneIds
  <2>3. CASE spare[laneOf[s]] = <<>>
    <3>1. sched'.item = NoItem /\ spare' = spare
      BY <1>5, <2>3 DEF DeliverTakesItem, Busy
    <3> QED  BY <1>0, <2>1, <3>1, PlacesSame
  <2>4. CASE spare[laneOf[s]] # <<>>
    <3>1. /\ sched'.item = Head(spare[laneOf[s]])
          /\ spare' = [spare EXCEPT ![laneOf[s]] = Tail(@)]
      BY <1>5, <2>4 DEF DeliverTakesItem, Busy
    <3> QED  BY <1>0, <2>1, <2>2, <2>4, <3>1, SpareToHand
  <2> QED  BY <2>3, <2>4
<1>6. CASE DeliverFills
  <2>1. PICK item \in IF sched.item = NoItem THEN Unallocated ELSE {sched.item} : sched'.item = item
    <3>1. PICK i \in IF sched.item = NoItem THEN Unallocated ELSE {sched.item} :
            sched' = Busy("push", sched.stream, i, <<>>)
      BY <1>6 DEF DeliverFills
    <3> QED  BY <3>1 DEF Busy
  <2>2. item \in Items /\ (item \in Unallocated \/ sched.item = item)
    BY <1>0, <2>1 DEF Unallocated, LaneType
  <2>3. LineSame /\ UNCHANGED <<spare, spent>>
    BY <1>6, NoLineChange DEF DeliverFills
  <2> QED  BY <1>0, <2>1, <2>2, <2>3, FillHand
<1>7. CASE DeliverFails
  <2>1. LineSame /\ spent' = spent /\ sched'.item = NoItem
    BY <1>7, NoLineChange DEF DeliverFails, Idle, Busy
  <2>2. laneOf[sched.stream] \in LaneIds
    BY <1>0, <1>7 DEF DeliverFails, SchedInv, LaneType, LaneIds
  <2>3. CASE spare' = spare
    BY <1>0, <2>1, <2>3, PlacesSame
  <2>4. CASE spare' # spare
    <3>1. PICK item \in IF sched.item = NoItem THEN Unallocated ELSE {sched.item} :
            spare' = [spare EXCEPT ![laneOf[sched.stream]] = <<item>> \o @]
      BY <1>7, <2>4 DEF DeliverFails
    <3>2. item \in Items /\ (item \in Unallocated \/ sched.item = item)
      BY <1>0, <3>1 DEF Unallocated, LaneType
    <3> QED  BY <1>0, <2>1, <2>2, <3>1, <3>2, HandToSpare
  <2> QED  BY <2>3, <2>4
<1>8. CASE DeliverPushes
  <2>1. PICK s \in Streams, item \in Items : s = sched.stream /\ item = sched.item
    BY <1>0, <1>8 DEF DeliverPushes, SchedInv
  <2>2. /\ Push(laneOf[s], ChunkOf(s, item)) /\ sched' = Idle /\ UNCHANGED <<spare, spent, batch>>
    BY <1>8, <2>1 DEF DeliverPushes
  <2>3. ChunkOf(s, item) \in Work /\ ChunkOf(s, item).item = item /\ laneOf[s] \in LaneIds
    BY <1>0 DEF ChunkOf, Work, LaneType, LaneIds
  <2>4. Pushed(laneOf[s], ChunkOf(s, item)) /\ sched'.item = NoItem
    BY <1>0, <2>2, <2>3, PushPushes DEF Idle, Busy
  <2> QED  BY <1>0, <2>1, <2>2, <2>3, <2>4, HandToLine
<1>9. ASSUME NEW l \in LaneIds, HelperStep(l) \/ HelperWakes(l) PROVE Apart(x)'
  <2>1. CASE HelperTakes(l) \/ HelperParks(l)
    <3>1. LineSame
      <4>1. CASE HelperTakes(l)
        <5>1. batch[l] = <<>>
          BY <1>0, <4>1 DEF HelperTakes, HelperInv
        <5> QED  BY <1>0, <4>1, <5>1, TakeLeavesLine DEF HelperTakes
      <4>2. CASE HelperParks(l)
        BY <4>2, NoLineChange DEF HelperParks
      <4> QED  BY <2>1, <4>1, <4>2
    <3>2. /\ spare' = [spare EXCEPT ![l] = spent[l] \o @] /\ spent' = [spent EXCEPT ![l] = <<>>]
          /\ sched' = sched
      BY <2>1 DEF HelperTakes, HelperParks
    <3> QED  BY <1>0, <3>1, <3>2, SpentToSpare
  <2>2. CASE HelperChunk(l)
    <3>1. /\ batch[l] # <<>> /\ Head(batch[l]).item # NoItem
          /\ batch' = [batch EXCEPT ![l] = Tail(@)] /\ UNCHANGED <<queue, spare, sched>>
          /\ spent' = [spent EXCEPT ![l] = Append(@, Head(batch[l]).item)]
      BY <2>2 DEF HelperChunk
    <3>2. Popped(l) /\ Head(batch[l]) = Line(l)[1] /\ Head(batch[l]) \in Work
      BY <1>0, <3>1, PopPops
    <3>3. PICK item \in Items : item = Line(l)[1].item /\ item = Head(batch[l]).item
      BY <3>1, <3>2 DEF Work
    <3> QED  BY <1>0, <3>1, <3>2, <3>3, LineToSpent
  <2>3. CASE HelperReleases(l)
    <3>1. /\ batch[l] # <<>> /\ batch' = [batch EXCEPT ![l] = Tail(@)]
          /\ UNCHANGED <<queue, spare, spent, sched>>
      BY <1>0, <2>3 DEF HelperReleases, HelperInv
    <3>2. Popped(l)
      BY <1>0, <3>1, PopPops
    <3> QED  BY <1>0, <3>1, <3>2, LineToSpent
  <2>4. CASE HelperFinishes(l) \/ HelperDone(l) \/ HelperWakes(l)
    BY <1>1, <2>4 DEF HelperFinishes, HelperDone, HelperWakes
  <2> QED  BY <1>9, <2>1, <2>2, <2>3, <2>4 DEF HelperStep
<1>10. CASE UNCHANGED laneVars
  BY <1>1, <1>10 DEF laneVars
<1>11. DOMAIN queue = LaneIds
  BY <1>0 DEF LaneType, LaneIds
<1> QED  BY <1>2, <1>3, <1>4, <1>5, <1>6, <1>7, <1>8, <1>9, <1>10, <1>11
         DEF DeliverNext, SchedulerStep, DeliverOver, allVars

-----------------------------------------------------------------------------
(* Chunks reach the ring in order.                                         *)

LEMMA ChunkTypes ==
  ASSUME LaneType, NEW s \in Streams, NEW i \in ChunksOf(s)
  PROVE  /\ laneOf[s] \in LaneIds /\ i \in DOMAIN Line(laneOf[s]) /\ i \in Nat
         /\ Line(laneOf[s])[i].item \in Items /\ Pending(s, i) \in Seq(Nat)
<1>1. laneOf[s] \in LaneIds
  BY DEF LaneType, LaneIds
<1>2. i \in DOMAIN Line(laneOf[s]) /\ Line(laneOf[s])[i].item # NoItem
  BY DEF ChunksOf
<1>3. PICK l \in LaneIds : l = laneOf[s]
  BY <1>1
<1>4. Line(l) \in Seq(Work) /\ DOMAIN Line(l) = 1..Len(Line(l)) /\ Len(Line(l)) \in Nat
  BY LineType, LenProperties
<1>5. Line(l)[i] \in Work /\ i \in Nat
  BY <1>2, <1>3, <1>4, ElementOfSeq
<1>6. Line(l)[i].item \in Items
  BY <1>2, <1>3, <1>5 DEF Work
<1>7. content[Line(l)[i].item] \in Seq(Nat)
  BY <1>6 DEF LaneType
<1> QED  BY <1>1, <1>2, <1>3, <1>5, <1>6, <1>7 DEF Pending

LEMMA StraightTypes ==
  ASSUME NEW c \in Seq(Nat), Straight(c)
  PROVE  /\ Len(c) \in Nat \ {0} /\ First(c) \in Nat /\ Last(c) \in Nat
         /\ Last(c) = First(c) + Len(c) - 1
         /\ \A k \in 1..Len(c) : c[k] = First(c) + k - 1
<1>1. Len(c) \in Nat \ {0} /\ \A k \in 1..Len(c) : c[k] = First(c) + k - 1
  BY LenProperties DEF Straight
<1>2. 1 \in 1..Len(c) /\ Len(c) \in 1..Len(c)
  BY <1>1
<1>3. c[1] \in Nat /\ c[Len(c)] \in Nat
  BY <1>2, ElementOfSeq
<1> QED  BY <1>1, <1>2, <1>3 DEF First, Last

\* The chunks of a stream keep their order: d of its line's work is gone.
Shifted(s, d) ==
  /\ \A i \in ChunksOf(s)' : i + d \in ChunksOf(s) /\ Pending(s, i)' = Pending(s, i + d)
  /\ \A i \in ChunksOf(s) : i - d \in ChunksOf(s)'

LEMMA LineTypeNext ==
  ASSUME LaneType', NEW l \in LaneIds
  PROVE  Line(l)' \in Seq(Work) /\ DOMAIN Line(l)' \subseteq Nat
<1>1. batch'[l] \in Seq(Work) /\ queue'[l] \in Seq(Work)
  BY DEF LaneType, LaneIds
<1>2. PICK a \in Seq(Work), b \in Seq(Work) : a = batch'[l] /\ b = queue'[l]
  BY <1>1
<1>3. a \o b \in Seq(Work) /\ DOMAIN (a \o b) = 1..Len(a \o b)
  BY ConcatParts
<1>4. Line(l)' = a \o b
  BY <1>2 DEF Line
<1> QED  BY <1>3, <1>4

LEMMA ChunkPlaces ==
  ASSUME LaneType', NEW s \in Streams, NEW i \in ChunksOf(s)'
  PROVE  i \in Nat
<1>1. PICK l \in LaneIds : l = laneOf'[s]
  BY DEF LaneType, LaneIds
<1>2. ChunksOf(s)' \subseteq DOMAIN Line(l)'
  BY <1>1 DEF ChunksOf, Line
<1> QED  BY <1>2, LineTypeNext

\* A stream whose chunks keep their order, and whose hand continues them.
LEMMA OrderKept ==
  ASSUME LaneType, LaneType', NEW s \in Streams, NEW d \in {0, 1}, Ordered(s), Shifted(s, d),
         accepted'[s] = accepted[s], Handed(s)' = Handed(s), Handed(s) \in Int,
         sched'.stream = s => Straight(InHand(s)') /\ First(InHand(s)') = Handed(s) + 1
  PROVE  Ordered(s)'
<1>0. \A i \in ChunksOf(s)' : i \in Nat /\ i + d \in ChunksOf(s) /\ Pending(s, i)' = Pending(s, i + d)
  BY ChunkPlaces DEF Shifted
<1>1. (Len(accepted[s]) <= Handed(s))'
  BY DEF Ordered
<1>2. ASSUME NEW i \in ChunksOf(s)'
      PROVE  /\ Straight(Pending(s, i)') /\ First(Pending(s, i)') > Len(accepted'[s])
             /\ Last(Pending(s, i)') <= Handed(s)'
  BY <1>0, <1>2 DEF Ordered
<1>3. ASSUME NEW i \in ChunksOf(s)', NEW j \in ChunksOf(s)', i < j
      PROVE  Last(Pending(s, i)') < First(Pending(s, j)')
  <2>1. i + d < j + d /\ i + d \in ChunksOf(s) /\ j + d \in ChunksOf(s)
    BY <1>0, <1>3
  <2>2. Last(Pending(s, i + d)) < First(Pending(s, j + d))
    BY <2>1 DEF Ordered
  <2> QED  BY <1>0, <2>2
<1>4. ASSUME NEW m \in (Len(accepted[s]) + 1)..Handed(s)
      PROVE  \E i \in ChunksOf(s)' : First(Pending(s, i)') <= m /\ m <= Last(Pending(s, i)')
  <2>1. PICK j \in ChunksOf(s) : First(Pending(s, j)) <= m /\ m <= Last(Pending(s, j))
    BY DEF Ordered
  <2>2. j - d \in ChunksOf(s)' /\ (j - d) + d = j
    BY <2>1, ChunkTypes DEF Shifted
  <2>3. Pending(s, j - d)' = Pending(s, j)
    BY <1>0, <2>2
  <2> QED  BY <2>1, <2>2, <2>3
<1> QED  BY <1>1, <1>2, <1>3, <1>4 DEF Ordered, Straight, First, Last

LEMMA HandTypes ==
  ASSUME LaneType, SchedInv, TypeOK, NEW s \in Streams
  PROVE  /\ InHand(s) \in Seq(Nat) /\ produced[s] \in Nat /\ Handed(s) \in Int
         /\ Len(InHand(s)) \in Nat
         /\ sched.stream # s => Handed(s) = produced[s] /\ InHand(s) = <<>>
         /\ sched = Idle => sched.stream # s
<1>1. sched = Idle => sched.stream # s
  BY ItemAssumption DEF Idle, Busy
<1>2. InHand(s) \in Seq(Nat)
  <2>1. CASE sched.stream # s
    BY <2>1 DEF InHand
  <2>2. CASE sched.stream = s
    <3>1. sched.at \in {"fill", "push"}
      BY <1>1, <2>2 DEF SchedInv, LaneType
    <3>2. sched.at = "push" => content[sched.item] \in Seq(Nat)
      BY DEF SchedInv, LaneType
    <3>3. sched.chunk \in Seq(Nat)
      BY DEF LaneType
    <3> QED  BY <2>2, <3>1, <3>2, <3>3 DEF InHand
  <2> QED  BY <2>1, <2>2
<1>3. produced[s] \in Nat
  BY StreamAssumption DEF TypeOK
<1>4. Len(InHand(s)) \in Nat
  BY <1>2, LenProperties
<1>5. sched.stream # s => Handed(s) = produced[s] /\ InHand(s) = <<>>
  BY <1>3, EmptySeq DEF InHand, Handed
<1> QED  BY <1>1, <1>2, <1>3, <1>4, <1>5 DEF Handed

\* No chunk of a stream is on a lane but its own, and none before it starts.
LEMMA NoStrays ==
  ASSUME LinesOK, NEW l \in LaneIds, NEW i \in DOMAIN Line(l), Line(l)[i].item # NoItem,
         NEW s \in Streams, Line(l)[i].stream = s
  PROVE  laneOf[s] = l /\ phase[s] # "new" /\ i \in ChunksOf(s)
<1>1. WorkInv(l, i)
  BY DEF LinesOK
<1> QED  BY <1>1 DEF WorkInv, ChunksOf

\* The line's first work is done: every other chunk moves up by one.
LEMMA PoppedChunks ==
  ASSUME LaneType, LaneType', NEW l \in LaneIds, NEW s \in Streams, laneOf[s] = l, laneOf'[s] = l,
         Popped(l), \A i \in ChunksOf(s) : content'[Line(l)[i].item] = content[Line(l)[i].item]
  PROVE  /\ \A i \in ChunksOf(s)' : i + 1 \in ChunksOf(s) /\ Pending(s, i)' = Pending(s, i + 1)
         /\ \A i \in ChunksOf(s) \ {1} : i - 1 \in ChunksOf(s)'
<1>1. PICK n \in Nat : n = Len(Line(l)) /\ DOMAIN Line(l) = 1..n
  BY LineType, LenProperties
<1>2. /\ ChunksOf(s) = {i \in 1..n : Line(l)[i].stream = s /\ Line(l)[i].item # NoItem}
      /\ ChunksOf(s)' = {i \in DOMAIN Line(l)' : Line(l)'[i].stream = s /\ Line(l)'[i].item # NoItem}
  BY <1>1 DEF ChunksOf, Line
<1>3. /\ \A i : Pending(s, i) = content[Line(l)[i].item]
      /\ \A i : Pending(s, i)' = content'[Line(l)'[i].item]
  BY DEF Pending, Line
<1>4. /\ DOMAIN Line(l)' = 1..(n - 1) /\ n # 0
      /\ \A i \in 1..(n - 1) : Line(l)'[i] = Line(l)[i + 1]
  BY <1>1, PoppedPlaces
<1>5. \A i \in 1..(n - 1) : i + 1 \in 1..n
  OBVIOUS
<1>6. ASSUME NEW i \in ChunksOf(s)' PROVE i + 1 \in ChunksOf(s) /\ Pending(s, i)' = Pending(s, i + 1)
  <2>1. i \in 1..(n - 1) /\ Line(l)'[i] = Line(l)[i + 1]
    BY <1>2, <1>4, <1>6
  <2>2. i + 1 \in ChunksOf(s)
    BY <1>2, <1>5, <1>6, <2>1
  <2> QED  BY <1>3, <2>1, <2>2
<1>7. ASSUME NEW i \in ChunksOf(s) \ {1} PROVE i - 1 \in ChunksOf(s)'
  <2>1. i \in 1..n /\ i # 1
    BY <1>2, <1>7
  <2>2. i - 1 \in 1..(n - 1) /\ (i - 1) + 1 = i
    BY <2>1
  <2> QED  BY <1>2, <1>4, <1>7, <2>2
<1> QED  BY <1>6, <1>7

LEMMA ChunksKept ==
  ASSUME LaneType, LaneType', NEW l \in LaneIds, NEW s \in Streams, laneOf[s] = l, laneOf'[s] = l,
         NEW d \in {0, 1},
         \/ d = 0 /\ Line(l)' = Line(l)
         \/ d = 0 /\ \E w \in Work : (w.stream # s \/ w.item = NoItem) /\ Pushed(l, w)
         \/ d = 1 /\ Popped(l) /\ 1 \notin ChunksOf(s),
         \A i \in ChunksOf(s) : content'[Line(l)[i].item] = content[Line(l)[i].item]
  PROVE  Shifted(s, d)
<1>1. PICK n \in Nat : n = Len(Line(l)) /\ DOMAIN Line(l) = 1..n
  BY LineType, LenProperties
<1>2. /\ ChunksOf(s) = {i \in 1..n : Line(l)[i].stream = s /\ Line(l)[i].item # NoItem}
      /\ ChunksOf(s)' = {i \in DOMAIN Line(l)' : Line(l)'[i].stream = s /\ Line(l)'[i].item # NoItem}
  BY <1>1 DEF ChunksOf, Line
<1>3. /\ \A i : Pending(s, i) = content[Line(l)[i].item]
      /\ \A i : Pending(s, i)' = content'[Line(l)'[i].item]
  BY DEF Pending, Line
<1>4. CASE d = 0 /\ Line(l)' = Line(l)
  <2>1. \A i \in 1..n : i + 0 = i /\ i - 0 = i
    OBVIOUS
  <2> QED  BY <1>1, <1>2, <1>3, <1>4, <2>1 DEF Shifted
<1>5. ASSUME d = 0, NEW w \in Work, w.stream # s \/ w.item = NoItem, Pushed(l, w) PROVE Shifted(s, d)
  <2>1. /\ DOMAIN Line(l)' = 1..(n + 1) /\ \A i \in 1..n : Line(l)'[i] = Line(l)[i]
        /\ Line(l)'[n + 1] = w
    BY <1>1, <1>5, PushedPlaces
  <2>2. \A i \in 1..(n + 1) : i \in 1..n \/ i = n + 1
    OBVIOUS
  <2>3. ChunksOf(s)' = ChunksOf(s)
    <3>1. \A i \in ChunksOf(s)' : i \in ChunksOf(s)
      BY <1>2, <1>5, <2>1, <2>2
    <3>2. \A i \in ChunksOf(s) : i \in 1..(n + 1) /\ i \in 1..n
      BY <1>2
    <3>3. \A i \in ChunksOf(s) : i \in ChunksOf(s)'
      BY <1>2, <2>1, <3>2
    <3> QED  BY <3>1, <3>3
  <2>4. \A i \in ChunksOf(s) : Pending(s, i)' = Pending(s, i)
    BY <1>2, <1>3, <2>1
  <2>5. \A i \in ChunksOf(s) : i + 0 = i /\ i - 0 = i
    BY <1>2
  <2> QED  BY <1>5, <2>3, <2>4, <2>5 DEF Shifted
<1>6. ASSUME d = 1, Popped(l), 1 \notin ChunksOf(s) PROVE Shifted(s, d)
  <2>1. \A i \in ChunksOf(s) : i \in ChunksOf(s) \ {1}
    BY <1>6
  <2> QED  BY <1>6, <2>1, PoppedChunks DEF Shifted
<1> QED  BY <1>4, <1>5, <1>6
\* Nothing of the stream is touched, or only work that is not its chunks.
LEMMA ChunksSteady ==
  ASSUME LaneType, LaneType', LinesOK, NEW s \in Streams, NEW lane \in LaneIds,
         phase[s] # "new" => laneOf'[s] = laneOf[s],
         \/ LineSame
         \/ laneOf'[s] = laneOf[s] /\ \E w \in Work : (w.stream # s \/ w.item = NoItem) /\ Pushed(lane, w)
         \/ laneOf'[s] = laneOf[s] /\ Popped(lane) /\ (laneOf[s] = lane => 1 \notin ChunksOf(s)),
         \A i \in ChunksOf(s) : content'[Line(laneOf[s])[i].item] = content[Line(laneOf[s])[i].item]
  PROVE  \E d \in {0, 1} : Shifted(s, d)
<1>1. PICK l \in LaneIds : l = laneOf[s]
  BY DEF LaneType, LaneIds
<1>2. \A i \in ChunksOf(s) : content'[Line(l)[i].item] = content[Line(l)[i].item]
  BY <1>1
<1>3. CASE laneOf'[s] = laneOf[s] /\ Line(l)' = Line(l)
  BY <1>1, <1>2, <1>3, ChunksKept
<1>4. ASSUME laneOf'[s] = laneOf[s], NEW w \in Work, w.stream # s \/ w.item = NoItem, Pushed(lane, w),
             lane = l
      PROVE  Shifted(s, 0)
  BY <1>1, <1>2, <1>4, ChunksKept
<1>5. ASSUME laneOf'[s] = laneOf[s], Popped(lane), laneOf[s] = lane => 1 \notin ChunksOf(s), lane = l
      PROVE  Shifted(s, 1)
  BY <1>1, <1>2, <1>5, ChunksKept
<1>6. CASE LineSame /\ phase[s] = "new"
  <2>1. ASSUME NEW i \in ChunksOf(s) PROVE FALSE
    <3>1. i \in DOMAIN Line(l) /\ Line(l)[i].stream = s /\ Line(l)[i].item # NoItem
      BY <1>1, <2>1 DEF ChunksOf
    <3> QED  BY <1>6, <3>1, NoStrays
  <2>2. ASSUME NEW i \in ChunksOf(s)' PROVE FALSE
    <3>1. PICK m \in LaneIds : m = laneOf'[s]
      BY DEF LaneType, LaneIds
    <3>2. Line(m)' = Line(m)
      BY <1>6 DEF LineSame
    <3>3. i \in DOMAIN Line(m) /\ Line(m)[i].stream = s /\ Line(m)[i].item # NoItem
      BY <2>2, <3>1, <3>2 DEF ChunksOf, Line
    <3> QED  BY <1>6, <3>3, NoStrays
  <2> QED  BY <2>1, <2>2 DEF Shifted
<1>7. ASSUME NEW w \in Work, Pushed(lane, w), lane # l PROVE Line(l)' = Line(l)
  BY <1>1, <1>7 DEF Pushed
<1>8. ASSUME Popped(lane), lane # l PROVE Line(l)' = Line(l)
  BY <1>1, <1>8 DEF Popped
<1>9. LineSame => Line(l)' = Line(l)
  BY <1>1 DEF LineSame
<1> QED  BY <1>1, <1>3, <1>4, <1>5, <1>6, <1>7, <1>8, <1>9

\* ... and so its order stays, as long as its hand does.
LEMMA OrderSteady ==
  ASSUME LaneType, LaneType', LinesOK, SchedInv, TypeOK, NEW s \in Streams, NEW lane \in LaneIds, Ordered(s),
         phase[s] # "new" => laneOf'[s] = laneOf[s],
         \/ LineSame
         \/ laneOf'[s] = laneOf[s] /\ \E w \in Work : (w.stream # s \/ w.item = NoItem) /\ Pushed(lane, w)
         \/ laneOf'[s] = laneOf[s] /\ Popped(lane) /\ (laneOf[s] = lane => 1 \notin ChunksOf(s)),
         content' = content, accepted'[s] = accepted[s], produced'[s] = produced[s],
         sched' = sched \/ (sched.stream # s /\ sched'.stream # s)
  PROVE  Ordered(s)'
<1>1. \E d \in {0, 1} : Shifted(s, d)
  BY ChunksSteady
<1>2. InHand(s)' = InHand(s)
  BY DEF InHand
<1>3. Handed(s)' = Handed(s) /\ Handed(s) \in Int
  BY <1>2, HandTypes DEF Handed
<1>4. sched'.stream = s => Straight(InHand(s)') /\ First(InHand(s)') = Handed(s) + 1
  BY <1>2 DEF Ordered
<1> QED  BY <1>1, <1>3, <1>4, OrderKept

LEMMA PositionsStraight ==
  ASSUME NEW from \in Nat, NEW n \in Nat \ {0}
  PROVE  /\ Positions(from, n) \in Seq(Nat) /\ Len(Positions(from, n)) = n
         /\ Straight(Positions(from, n)) /\ First(Positions(from, n)) = from + 1
<1>1. /\ Positions(from, n) = [i \in 1..n |-> from + i]
      /\ Positions(from, n) \in [1..n -> Nat]
  BY DEF Positions
<1>2. Positions(from, n) \in Seq(Nat) /\ Len(Positions(from, n)) = n
  BY <1>1, SeqDef, LenProperties
<1>3. 1 \in 1..n
  OBVIOUS
<1> QED  BY <1>1, <1>2, <1>3 DEF Straight, First

LEMMA OrderTaken ==
  ASSUME LaneType, LaneType', LinesOK, SchedInv, TypeOK, NEW s \in Streams, NEW n \in ChunkSizes,
         DeliverTakesItem(s, n), Ordered(s)
  PROVE  Ordered(s)'
<1>1. /\ sched = Idle /\ produced' = [produced EXCEPT ![s] = @ + n]
      /\ sched'.stream = s /\ sched'.at = "fill" /\ sched'.chunk = Positions(produced[s], n)
      /\ UNCHANGED <<batch, queue, content, laneOf, accepted>>
  BY DEF DeliverTakesItem, Busy, history
<1>2. n \in Nat \ {0} /\ produced[s] \in Nat /\ produced'[s] = produced[s] + n
  BY <1>1, HandTypes, StreamAssumption DEF TypeOK
<1>3. Handed(s) = produced[s]
  BY <1>1, HandTypes
<1>4. InHand(s)' = Positions(produced[s], n)
  BY <1>1 DEF InHand
<1>5. PICK p \in Nat : p = produced[s]
  BY <1>2
<1>6. Len(Positions(p, n)) = n /\ Straight(Positions(p, n)) /\ First(Positions(p, n)) = p + 1
  BY <1>2, PositionsStraight
<1>7. Handed(s)' = p
  <2>1. Handed(s)' = (p + n) - n
    BY <1>2, <1>4, <1>5, <1>6 DEF Handed
  <2> QED  BY <1>2, <2>1
<1>8. \E d \in {0, 1} : Shifted(s, d)
  <2>1. LineSame
    BY <1>1, NoLineChange
  <2>2. laneOf[s] \in LaneIds
    BY DEF LaneType, LaneIds
  <2> QED  BY <1>1, <2>1, <2>2, ChunksSteady
<1> QED  BY <1>1, <1>3, <1>4, <1>5, <1>6, <1>7, <1>8, OrderKept
\* The item in the scheduler's hand is on nobody's line.
LEMMA OrderFilled ==
  ASSUME LaneType, LaneType', LinesOK, SchedInv, TypeOK, ItemsApart, DeliverFills,
         NEW s \in Streams, Ordered(s)
  PROVE  Ordered(s)'
<1>1. /\ sched.at = "fill"
      /\ UNCHANGED <<batch, queue, laneOf, accepted, produced>>
  BY DEF DeliverFills, vars, sinkVars, history
<1>2. PICK x \in IF sched.item = NoItem THEN Unallocated ELSE {sched.item} :
        /\ content' = [content EXCEPT ![x] = sched.chunk]
        /\ sched' = Busy("push", sched.stream, x, <<>>)
  BY DEF DeliverFills
<1>3. x \in Items /\ (x \in Unallocated \/ sched.item = x)
  BY <1>2 DEF Unallocated, LaneType
<1>4. ASSUME NEW i \in ChunksOf(s) PROVE Line(laneOf[s])[i].item # x
  <2>1. PICK l \in LaneIds : l = laneOf[s]
    BY DEF LaneType, LaneIds
  <2>2. SUFFICES ASSUME Line(l)[i].item = x PROVE FALSE
    BY <2>1
  <2>3. i \in Nat /\ i \in DOMAIN Line(l)
    BY <2>1, ChunkTypes
  <2>4. At(x, "line", l, i)
    BY <2>2, <2>3 DEF At
  <2>5. "line" \in Kinds /\ "hand" \in Kinds /\ 0 \in LaneIds
    BY LaneAssumption DEF Kinds, LaneIds
  <2>6. CASE x \in Unallocated
    BY <2>3, <2>4, <2>5, <2>6, NowhereElse
  <2>7. CASE sched.item = x
    <3>1. At(x, "hand", 0, 1)
      BY <2>7 DEF At
    <3>2. Apart(x)
      BY <1>3 DEF ItemsApart
    <3> QED  BY <2>3, <2>4, <2>5, <3>1, <3>2 DEF Apart
  <2> QED  BY <1>3, <2>6, <2>7
<1>5. \A i \in ChunksOf(s) : content'[Line(laneOf[s])[i].item] = content[Line(laneOf[s])[i].item]
  <2>1. ASSUME NEW y \in Items, y # x PROVE content'[y] = content[y]
    BY <1>2, <2>1 DEF LaneType
  <2>2. \A i \in ChunksOf(s) : Line(laneOf[s])[i].item \in Items
    BY ChunkTypes
  <2> QED  BY <1>4, <2>1, <2>2
<1>6. \E d \in {0, 1} : Shifted(s, d)
  <2>1. LineSame /\ laneOf[s] \in LaneIds
    BY <1>1, NoLineChange DEF LaneType, LaneIds
  <2> QED  BY <1>1, <1>5, <2>1, ChunksSteady
<1>7. InHand(s)' = InHand(s) /\ sched'.stream = sched.stream
  <2>1. sched'.stream = sched.stream /\ sched'.at = "push" /\ sched'.item = x
    BY <1>2 DEF Busy
  <2>2. content'[x] = sched.chunk
    BY <1>2, <1>3 DEF LaneType
  <2> QED  BY <1>1, <2>1, <2>2 DEF InHand
<1>8. Handed(s)' = Handed(s) /\ Handed(s) \in Int
  BY <1>1, <1>7, HandTypes DEF Handed
<1>9. sched'.stream = s => Straight(InHand(s)') /\ First(InHand(s)') = Handed(s) + 1
  BY <1>7 DEF Ordered
<1> QED  BY <1>1, <1>6, <1>8, <1>9, OrderKept

\* What the scheduler had in hand is the last of its stream's chunks.
LEMMA OrderPushed ==
  ASSUME LaneType, LaneType', SchedInv, TypeOK, DeliverPushes,
         NEW s \in Streams, s = sched.stream, Ordered(s)
  PROVE  Ordered(s)'
<1>1. PICK x \in Items : x = sched.item
  BY DEF DeliverPushes, SchedInv
<1>2. /\ sched.at = "push" /\ sched' = Idle /\ Push(laneOf[s], ChunkOf(s, x))
      /\ UNCHANGED <<batch, content, laneOf, accepted, produced>>
  BY <1>1 DEF DeliverPushes, vars, sinkVars, history
<1>3. PICK l \in LaneIds : l = laneOf[s] /\ l = laneOf'[s]
  BY <1>2 DEF LaneType, LaneIds
<1>4. PICK w \in Work : w = ChunkOf(s, x) /\ w.stream = s /\ w.item = x /\ w.item # NoItem
  <2>1. ChunkOf(s, x) \in Work /\ ChunkOf(s, x).stream = s /\ ChunkOf(s, x).item = x
    BY DEF ChunkOf, Work
  <2> QED  BY <2>1, ItemAssumption
<1>5. Pushed(l, w)
  BY <1>2, <1>3, <1>4, PushPushes
<1>6. PICK n \in Nat : n = Len(Line(l)) /\ DOMAIN Line(l) = 1..n
  BY LineType, LenProperties
<1>7. /\ DOMAIN Line(l)' = 1..(n + 1) /\ \A i \in 1..n : Line(l)'[i] = Line(l)[i]
      /\ Line(l)'[n + 1] = w
  BY <1>5, <1>6, PushedPlaces
<1>8. /\ ChunksOf(s) = {i \in 1..n : Line(l)[i].stream = s /\ Line(l)[i].item # NoItem}
      /\ ChunksOf(s)' = {i \in 1..(n + 1) : Line(l)'[i].stream = s /\ Line(l)'[i].item # NoItem}
      /\ \A i : Pending(s, i) = content[Line(l)[i].item]
      /\ \A i : Pending(s, i)' = content[Line(l)'[i].item]
  BY <1>2, <1>3, <1>6, <1>7 DEF ChunksOf, Pending, Line
<1>9. PICK c \in Seq(Nat) : c = content[x] /\ c = InHand(s)
  <2>1. InHand(s) = content[x] /\ content[x] \in Seq(Nat)
    BY <1>1, <1>2 DEF InHand, LaneType
  <2> QED  BY <2>1
<1>10. PICK h \in Int, p \in Nat, a \in Nat : h = Handed(s) /\ p = produced[s] /\ a = Len(accepted[s])
  <2>1. accepted[s] \in Seq(Nat)
    BY DEF TypeOK
  <2> QED  BY <2>1, HandTypes, LenProperties
<1>11. Straight(c) /\ First(c) = h + 1 /\ a <= h
  BY <1>9, <1>10 DEF Ordered
<1>12. /\ Len(c) \in Nat \ {0} /\ First(c) \in Nat /\ Last(c) \in Nat
       /\ Last(c) = First(c) + Len(c) - 1
  BY <1>11, StraightTypes
<1>13. h = p - Len(c)
  BY <1>9, <1>10 DEF Handed
<1>14. Last(c) = p /\ h <= p
  BY <1>11, <1>12, <1>13
<1>15. Handed(s)' = p /\ sched'.stream # s
  <2>1. sched'.stream # s
    BY <1>2, ItemAssumption DEF Idle, Busy
  <2>2. InHand(s)' = <<>> /\ produced'[s] = p
    BY <1>2, <1>10, <2>1 DEF InHand
  <2> QED  BY <2>1, <2>2, EmptySeq DEF Handed
<1>16. ChunksOf(s)' = ChunksOf(s) \cup {n + 1} /\ \A i \in ChunksOf(s) : i \in 1..n
  <2>1. \A i \in 1..(n + 1) : i \in 1..n \/ i = n + 1
    OBVIOUS
  <2>2. n + 1 \in 1..(n + 1) /\ \A i \in 1..n : i \in 1..(n + 1)
    OBVIOUS
  <2> QED  BY <1>4, <1>7, <1>8, <2>1, <2>2
<1>17. /\ \A i \in ChunksOf(s) : Pending(s, i)' = Pending(s, i)
       /\ Pending(s, n + 1)' = c
  <2>1. \A i \in ChunksOf(s) : Line(l)'[i] = Line(l)[i]
    BY <1>7, <1>16
  <2>2. Line(l)'[n + 1].item = x
    BY <1>4, <1>7
  <2>3. ASSUME NEW i \in ChunksOf(s) PROVE Pending(s, i)' = Pending(s, i)
    <3>1. Pending(s, i) = content[Line(l)[i].item] /\ Pending(s, i)' = content[Line(l)'[i].item]
      BY <1>8
    <3> QED  BY <2>1, <3>1
  <2>4. Pending(s, n + 1)' = content[Line(l)'[n + 1].item]
    BY <1>8
  <2> QED  BY <1>9, <2>2, <2>3, <2>4
<1>18. ASSUME NEW i \in ChunksOf(s)
       PROVE  /\ Pending(s, i) \in Seq(Nat) /\ Straight(Pending(s, i))
              /\ First(Pending(s, i)) \in Nat /\ Last(Pending(s, i)) \in Nat
              /\ First(Pending(s, i)) > a /\ Last(Pending(s, i)) <= h
  <2>1. Pending(s, i) \in Seq(Nat) /\ Straight(Pending(s, i))
    BY <1>18, ChunkTypes DEF Ordered
  <2>2. PICK d \in Seq(Nat) : d = Pending(s, i)
    BY <2>1
  <2>3. First(d) \in Nat /\ Last(d) \in Nat
    BY <2>1, <2>2, StraightTypes
  <2> QED  BY <1>10, <1>18, <2>1, <2>2, <2>3 DEF Ordered
<1>19. ASSUME NEW i \in ChunksOf(s)'
       PROVE  Straight(Pending(s, i)') /\ First(Pending(s, i)') > a /\ Last(Pending(s, i)') <= p
  <2>1. CASE i \in ChunksOf(s)
    <3>1. Last(Pending(s, i)) <= p
      BY <1>14, <1>18, <2>1
    <3> QED  BY <1>17, <1>18, <2>1, <3>1
  <2>2. CASE i = n + 1
    <3>1. First(c) > a /\ Last(c) <= p
      BY <1>11, <1>14
    <3> QED  BY <1>11, <1>17, <2>2, <3>1
  <2> QED  BY <1>16, <2>1, <2>2
<1>20. ASSUME NEW i \in ChunksOf(s)', NEW j \in ChunksOf(s)', i < j
       PROVE  Last(Pending(s, i)') < First(Pending(s, j)')
  <2>1. i \in ChunksOf(s) /\ i \in Nat
    BY <1>16, <1>20
  <2>2. CASE j \in ChunksOf(s)
    BY <1>17, <1>20, <2>1, <2>2 DEF Ordered
  <2>3. CASE j = n + 1
    <3>1. Last(Pending(s, i)) < First(c)
      BY <1>11, <1>18, <2>1
    <3> QED  BY <1>17, <2>1, <2>3, <3>1
  <2> QED  BY <1>16, <2>2, <2>3
<1>21. ASSUME NEW m \in (a + 1)..p
       PROVE  \E i \in ChunksOf(s)' : First(Pending(s, i)') <= m /\ m <= Last(Pending(s, i)')
  <2>1. CASE m <= h
    <3>1. m \in (a + 1)..h
      BY <2>1
    <3>2. PICK i \in ChunksOf(s) : First(Pending(s, i)) <= m /\ m <= Last(Pending(s, i))
      BY <1>10, <3>1 DEF Ordered
    <3> QED  BY <1>16, <1>17, <3>2
  <2>2. CASE m > h
    <3>1. First(c) <= m /\ m <= Last(c)
      BY <1>11, <1>14, <2>2
    <3> QED  BY <1>16, <1>17, <3>1
  <2> QED  BY <2>1, <2>2
<1>22. accepted'[s] = accepted[s]
  BY <1>2
<1> QED  BY <1>10, <1>11, <1>14, <1>15, <1>19, <1>20, <1>21, <1>22 DEF Ordered, Straight, First, Last
\* The chunk a stream's ring takes is the next one: the first on the line.
LEMMA OrderArrives ==
  ASSUME LaneType, LaneType', SchedInv, TypeOK, NEW l \in LaneIds, NEW s \in Streams,
         laneOf[s] = l, 1 \in ChunksOf(s), Popped(l), Ordered(s),
         \A i \in DOMAIN accepted[s] : accepted[s][i] = i,
         accepted'[s] = accepted[s] \o Pending(s, 1),
         UNCHANGED <<content, sched, produced, laneOf>>
  PROVE  Ordered(s)' /\ \A i \in DOMAIN accepted'[s] : accepted'[s][i] = i
<1>1. PICK c \in Seq(Nat) : c = Pending(s, 1)
  BY ChunkTypes
<1>2. PICK g \in Seq(Nat) : g = accepted[s]
  BY DEF TypeOK
<1>3. PICK h \in Int, a \in Nat : h = Handed(s) /\ a = Len(g)
  BY HandTypes, LenProperties
<1>4. Straight(c) /\ First(c) > a /\ Last(c) <= h
  BY <1>1, <1>2, <1>3 DEF Ordered
<1>5. PICK k \in Nat \ {0}, f \in Nat, e \in Nat :
        /\ k = Len(c) /\ f = First(c) /\ e = Last(c) /\ e = f + k - 1
        /\ \A q \in 1..k : c[q] = f + q - 1
  BY <1>4, StraightTypes
<1>6. ASSUME NEW i \in ChunksOf(s)
      PROVE  /\ i \in Nat /\ Straight(Pending(s, i))
             /\ First(Pending(s, i)) \in Nat /\ Last(Pending(s, i)) \in Nat
             /\ First(Pending(s, i)) > a /\ Last(Pending(s, i)) <= h
             /\ First(Pending(s, i)) <= Last(Pending(s, i))
             /\ i # 1 => i > 1 /\ e < First(Pending(s, i))
  <2>1. Pending(s, i) \in Seq(Nat) /\ Straight(Pending(s, i)) /\ i \in DOMAIN Line(l)
    BY <1>6, ChunkTypes DEF Ordered
  <2>2. PICK d \in Seq(Nat) : d = Pending(s, i)
    BY <2>1
  <2>3. First(d) \in Nat /\ Last(d) \in Nat /\ First(d) <= Last(d)
    <3>1. Len(d) \in Nat \ {0} /\ First(d) \in Nat /\ Last(d) \in Nat /\ Last(d) = First(d) + Len(d) - 1
      BY <2>1, <2>2, StraightTypes
    <3> QED  BY <3>1
  <2>4. i \in Nat /\ i >= 1
    <3>1. PICK n \in Nat : n = Len(Line(l)) /\ DOMAIN Line(l) = 1..n
      BY LineType, LenProperties
    <3> QED  BY <2>1, <3>1
  <2>5. i # 1 => i > 1
    BY <2>4
  <2>6. i > 1 => e < First(Pending(s, i))
    BY <1>1, <1>5, <1>6 DEF Ordered
  <2> QED  BY <1>2, <1>3, <1>6, <2>1, <2>2, <2>3, <2>4, <2>5, <2>6 DEF Ordered
<1>7. f = a + 1
  <2>1. a + 1 \in (a + 1)..h
    BY <1>4, <1>5
  <2>2. PICK j \in ChunksOf(s) : First(Pending(s, j)) <= a + 1 /\ a + 1 <= Last(Pending(s, j))
    BY <1>2, <1>3, <2>1 DEF Ordered
  <2>3. CASE j = 1
    BY <1>1, <1>4, <1>5, <2>2, <2>3
  <2>4. CASE j # 1
    <3>1. e < First(Pending(s, j)) /\ First(Pending(s, j)) \in Nat
      BY <1>6, <2>4
    <3>2. PICK y \in Nat : y = First(Pending(s, j))
      BY <3>1
    <3>3. e < y /\ y <= a + 1 /\ f > a /\ e = f + k - 1
      BY <1>4, <1>5, <2>2, <3>1, <3>2
    <3> QED  BY <3>3
  <2> QED  BY <2>3, <2>4
<1>8. e = a + k
  BY <1>5, <1>7
<1>9. /\ g \o c \in Seq(Nat) /\ Len(g \o c) = a + k
      /\ DOMAIN (g \o c) = 1..(a + k) /\ DOMAIN g = 1..a
      /\ \A i \in 1..a : (g \o c)[i] = g[i]
      /\ \A q \in 1..k : (g \o c)[a + q] = c[q]
  BY <1>3, <1>5, ConcatParts
<1>10. accepted'[s] = g \o c
  BY <1>1, <1>2
<1>11. ASSUME NEW i \in 1..(a + k) PROVE (g \o c)[i] = i
  <2>1. CASE i <= a
    <3>1. i \in 1..a
      BY <2>1
    <3> QED  BY <1>2, <1>9, <3>1
  <2>2. CASE i > a
    <3>0. i - a \in 1..k
      BY <2>2
    <3>1. PICK q \in 1..k : q = i - a
      BY <3>0
    <3>2. i = a + q
      BY <3>1
    <3>3. (g \o c)[i] = c[q] /\ c[q] = f + q - 1
      BY <1>5, <1>9, <3>2
    <3>4. f + q - 1 = a + q
      BY <1>7, <3>1
    <3> QED  BY <3>2, <3>3, <3>4
  <2>3. i <= a \/ i > a
    OBVIOUS
  <2> QED  BY <2>1, <2>2, <2>3
<1>12. Handed(s)' = h /\ InHand(s)' = InHand(s)
  BY <1>3 DEF Handed, InHand
<1>13. /\ \A i \in ChunksOf(s)' : i + 1 \in ChunksOf(s) /\ Pending(s, i)' = Pending(s, i + 1)
       /\ \A i \in ChunksOf(s) \ {1} : i - 1 \in ChunksOf(s)'
  BY PoppedChunks
<1>14. \A i \in ChunksOf(s)' : i \in Nat /\ i + 1 # 1
  <2>1. TAKE i \in ChunksOf(s)'
  <2>2. i \in Nat /\ i \in DOMAIN Line(l)'
    BY ChunkPlaces DEF ChunksOf, Line
  <2>3. i # 0
    <3>1. DOMAIN Line(l)' = 1..(Len(Line(l)) - 1) /\ Len(Line(l)) \in Nat
      BY PoppedPlaces
    <3> QED  BY <2>2, <3>1
  <2> QED  BY <2>2, <2>3
<1>15. ASSUME NEW i \in ChunksOf(s)'
       PROVE  Straight(Pending(s, i)') /\ First(Pending(s, i)') > a + k /\ Last(Pending(s, i)') <= h
  BY <1>6, <1>8, <1>13, <1>14
<1>16. ASSUME NEW i \in ChunksOf(s)', NEW j \in ChunksOf(s)', i < j
       PROVE  Last(Pending(s, i)') < First(Pending(s, j)')
  <2>1. i + 1 < j + 1 /\ i + 1 \in ChunksOf(s) /\ j + 1 \in ChunksOf(s)
    BY <1>13, <1>14, <1>16
  <2>2. Last(Pending(s, i + 1)) < First(Pending(s, j + 1))
    BY <2>1 DEF Ordered
  <2> QED  BY <1>13, <2>2
<1>17. ASSUME NEW m \in (a + k + 1)..h
       PROVE  \E i \in ChunksOf(s)' : First(Pending(s, i)') <= m /\ m <= Last(Pending(s, i)')
  <2>1. m \in (a + 1)..h /\ m > e
    BY <1>8
  <2>2. PICK j \in ChunksOf(s) : First(Pending(s, j)) <= m /\ m <= Last(Pending(s, j))
    BY <1>2, <1>3, <2>1 DEF Ordered
  <2>3. j # 1
    BY <1>1, <1>5, <2>1, <2>2
  <2>4. j - 1 \in ChunksOf(s)' /\ (j - 1) + 1 = j
    BY <1>6, <1>13, <2>3
  <2>5. Pending(s, j - 1)' = Pending(s, j)
    BY <1>13, <2>4
  <2> QED  BY <2>2, <2>4, <2>5
<1>18. sched'.stream = s => Straight(InHand(s)') /\ First(InHand(s)') = h + 1
  BY <1>3, <1>12 DEF Ordered
<1>19. Len(accepted'[s]) = a + k /\ a + k <= h
  BY <1>4, <1>5, <1>8, <1>9, <1>10
<1>20. Ordered(s)'
  BY <1>12, <1>15, <1>16, <1>17, <1>18, <1>19 DEF Ordered, Straight, First, Last
<1> QED  BY <1>9, <1>10, <1>11, <1>20
LEMMA OrderFrom ==
  ASSUME NEW s, OrderInv(s), failed[s] => failed'[s], refused'[s] => refused[s] \/ failed'[s],
         accepted'[s] = accepted[s], ~failed'[s] /\ Ordered(s) => Ordered(s)'
  PROVE  OrderInv(s)'
BY DEF OrderInv

LEMMA SchedulerOrder ==
  ASSUME DeliverInv, LaneType', ItemsApart, SchedulerStep, NEW u \in Streams, OrderInv(u)
  PROVE  OrderInv(u)'
<1>0. /\ LaneType /\ TypeOK /\ StreamsOK /\ LinesOK /\ SchedInv /\ laneOf[u] \in LaneIds
  BY DEF DeliverInv, StreamsOK, LaneType, LaneIds
<1>1. ASSUME NEW s \in Streams, DeliverCallbacks(s) PROVE OrderInv(u)'
  <2>1. UNCHANGED <<batch, queue, content, sched, accepted, refused, produced>>
    BY <1>1 DEF DeliverCallbacks, Callbacks, Start, StartFails, Expire, PollPeer, PeerGone, PeerStays,
                CheckFailed, EngineDone, history
  <2>2. Steady(u)
    BY <1>1, CallbacksSteady
  <2>3. LineSame
    BY <2>1, NoLineChange
  <2>4. Ordered(u) => Ordered(u)'
    BY <1>0, <2>1, <2>2, <2>3, OrderSteady DEF Steady
  <2> QED  BY <2>1, <2>2, <2>4, OrderFrom DEF Steady
<1>2. ASSUME NEW s \in Streams, DeliverClose(s) PROVE OrderInv(u)'
  <2>1. /\ Push(laneOf[s], CloseOf(s))
        /\ UNCHANGED <<batch, content, sched, accepted, refused, produced, laneOf, failed>>
    BY <1>2 DEF DeliverClose, history, flags
  <2>2. PICK w \in Work, lane \in LaneIds : w = CloseOf(s) /\ lane = laneOf[s] /\ w.item = NoItem
    <3>1. CloseOf(s) \in Work /\ CloseOf(s).item = NoItem
      BY DEF CloseOf, Work
    <3>2. laneOf[s] \in LaneIds
      BY <1>0 DEF LaneType, LaneIds
    <3> QED  BY <3>1, <3>2
  <2>3. Pushed(lane, w)
    BY <1>0, <2>1, <2>2, PushPushes
  <2>4. Ordered(u) => Ordered(u)'
    BY <1>0, <2>1, <2>2, <2>3, OrderSteady
  <2> QED  BY <2>1, <2>4, OrderFrom
<1>3. ASSUME NEW s \in Streams, NEW n \in ChunkSizes, DeliverRefused(s, n) PROVE OrderInv(u)'
  <2>1. /\ failed[s] /\ produced' = [produced EXCEPT ![s] = @ + n]
        /\ refused' = [refused EXCEPT ![s] = TRUE]
        /\ UNCHANGED <<batch, queue, content, sched, accepted, laneOf, failed>>
    BY <1>3 DEF DeliverRefused, laneVars, flags
  <2>2. CASE u = s
    BY <2>1, <2>2, OrderFrom
  <2>3. CASE u # s
    <3>1. produced'[u] = produced[u] /\ refused'[u] = refused[u]
      BY <1>0, <2>1, <2>3 DEF TypeOK
    <3>2. Ordered(u) => Ordered(u)'
      BY <1>0, <2>1, <3>1, NoLineChange, OrderSteady
    <3> QED  BY <2>1, <3>1, <3>2, OrderFrom
  <2> QED  BY <2>2, <2>3
<1>4. ASSUME NEW s \in Streams, NEW n \in ChunkSizes, DeliverTakesItem(s, n) PROVE OrderInv(u)'
  <2>1. /\ produced' = [produced EXCEPT ![s] = @ + n] /\ sched = Idle /\ sched'.stream = s
        /\ UNCHANGED <<batch, queue, content, accepted, refused, laneOf, failed>>
    BY <1>4 DEF DeliverTakesItem, history, flags, Busy
  <2>2. CASE u = s
    BY <1>0, <1>4, <2>1, <2>2, OrderTaken, OrderFrom
  <2>3. CASE u # s
    <3>1. produced'[u] = produced[u] /\ sched.stream # u /\ sched'.stream # u
      BY <1>0, <2>1, <2>3, HandTypes DEF TypeOK
    <3>2. Ordered(u) => Ordered(u)'
      BY <1>0, <2>1, <3>1, NoLineChange, OrderSteady
    <3> QED  BY <2>1, <3>2, OrderFrom
  <2> QED  BY <2>2, <2>3
<1>5. CASE DeliverFills
  <2>1. UNCHANGED <<accepted, refused, failed>>
    BY <1>5 DEF DeliverFills, vars, history, flags
  <2> QED  BY <1>0, <1>5, <2>1, OrderFilled, OrderFrom
<1>6. CASE DeliverFails
  <2>0. PICK s \in Streams : s = sched.stream
    BY <1>0, <1>6 DEF DeliverFails, SchedInv
  <2>1. /\ Abandon(s, "nomem") /\ refused' = [refused EXCEPT ![s] = TRUE] /\ sched' = Idle
        /\ UNCHANGED <<batch, queue, content, accepted, produced, laneOf>>
    BY <1>6, <2>0 DEF DeliverFails
  <2>2. CASE u = s
    <3>1. failed'[s]
      BY <1>0, <2>1 DEF Abandon, MarkFailed, TypeOK
    <3> QED  BY <2>1, <2>2, <3>1, OrderFrom
  <2>3. CASE u # s
    <3>1. refused'[u] = refused[u] /\ failed'[u] = failed[u]
      BY <1>0, <2>1, <2>3 DEF TypeOK, Abandon, MarkFailed
    <3>2. sched.stream # u /\ sched'.stream # u
      BY <2>0, <2>1, <2>3, ItemAssumption DEF Idle, Busy
    <3>3. Ordered(u) => Ordered(u)'
      BY <1>0, <2>1, <3>2, NoLineChange, OrderSteady
    <3> QED  BY <2>1, <3>1, <3>3, OrderFrom
  <2> QED  BY <2>2, <2>3
<1>7. CASE DeliverPushes
  <2>0. PICK s \in Streams, x \in Items : s = sched.stream /\ x = sched.item
    BY <1>0, <1>7 DEF DeliverPushes, SchedInv
  <2>1. /\ Push(laneOf[s], ChunkOf(s, x)) /\ sched' = Idle
        /\ UNCHANGED <<batch, content, accepted, refused, produced, laneOf, failed>>
    BY <1>7, <2>0 DEF DeliverPushes, vars, history, flags, sinkVars
  <2>2. CASE u = s
    BY <1>0, <1>7, <2>0, <2>1, <2>2, OrderPushed, OrderFrom
  <2>3. CASE u # s
    <3>1. PICK w \in Work, lane \in LaneIds : w = ChunkOf(s, x) /\ lane = laneOf[s] /\ w.stream = s
      <4>1. ChunkOf(s, x) \in Work /\ ChunkOf(s, x).stream = s
        BY DEF ChunkOf, Work
      <4>2. laneOf[s] \in LaneIds
        BY <1>0 DEF LaneType, LaneIds
      <4> QED  BY <4>1, <4>2
    <3>2. Pushed(lane, w)
      BY <1>0, <2>1, <3>1, PushPushes
    <3>3. sched.stream # u /\ sched'.stream # u
      BY <2>0, <2>1, <2>3, ItemAssumption DEF Idle, Busy
    <3>4. Ordered(u) => Ordered(u)'
      BY <1>0, <2>1, <2>3, <3>1, <3>2, <3>3, OrderSteady
    <3> QED  BY <2>1, <3>4, OrderFrom
  <2> QED  BY <2>2, <2>3
<1> QED  BY <1>1, <1>2, <1>3, <1>4, <1>5, <1>6, <1>7 DEF SchedulerStep
LEMMA HelperOrder ==
  ASSUME DeliverInv, LaneType', NEW l \in LaneIds, HelperStep(l) \/ HelperWakes(l),
         NEW u \in Streams, OrderInv(u)
  PROVE  OrderInv(u)'
<1>0. /\ LaneType /\ TypeOK /\ StreamsOK /\ LinesOK /\ SchedInv /\ HelperInv(l)
  BY DEF DeliverInv, StreamsOK
<1>1. UNCHANGED <<laneOf, sched, content, produced>>
  BY DEF HelperStep, HelperWakes, HelperTakes, HelperParks, HelperChunk, HelperFinishes, HelperReleases,
         HelperDone, vars, sinkVars
<1>2. CASE HelperTakes(l) \/ HelperParks(l) \/ HelperDone(l) \/ HelperWakes(l)
  <2>1. UNCHANGED <<accepted, refused, failed>>
    BY <1>2 DEF HelperTakes, HelperParks, HelperDone, HelperWakes, vars, history, flags
  <2>2. LineSame
    <3>1. CASE HelperTakes(l)
      <4>1. batch[l] = <<>>
        BY <1>0, <3>1 DEF HelperTakes, HelperInv
      <4> QED  BY <1>0, <3>1, <4>1, TakeLeavesLine DEF HelperTakes
    <3>2. CASE HelperParks(l) \/ HelperDone(l) \/ HelperWakes(l)
      BY <3>2, NoLineChange DEF HelperParks, HelperDone, HelperWakes
    <3> QED  BY <1>2, <3>1, <3>2
  <2>3. Ordered(u) => Ordered(u)'
    BY <1>0, <1>1, <2>1, <2>2, OrderSteady
  <2> QED  BY <2>1, <2>3, OrderFrom
<1>3. CASE HelperFinishes(l)
  <2>1. UNCHANGED <<accepted, refused, failed, batch, queue>>
    BY <1>3 DEF HelperFinishes, history, FinishStream
  <2>2. Ordered(u) => Ordered(u)'
    BY <1>0, <1>1, <2>1, NoLineChange, OrderSteady
  <2> QED  BY <2>1, <2>2, OrderFrom
<1>4. CASE HelperReleases(l)
  <2>1. /\ batch[l] # <<>> /\ Head(batch[l]).item = NoItem
        /\ batch' = [batch EXCEPT ![l] = Tail(@)] /\ UNCHANGED <<queue, accepted, refused, failed>>
    BY <1>0, <1>4 DEF HelperReleases, HelperInv, history, flags
  <2>2. Popped(l) /\ Head(batch[l]) = Line(l)[1]
    BY <1>0, <2>1, PopPops
  <2>3. laneOf[u] = l => 1 \notin ChunksOf(u)
    BY <2>1, <2>2 DEF ChunksOf
  <2>4. Ordered(u) => Ordered(u)'
    BY <1>0, <1>1, <2>1, <2>2, <2>3, OrderSteady
  <2> QED  BY <2>1, <2>4, OrderFrom
<1>5. CASE HelperChunk(l)
  <2>1. /\ batch[l] # <<>> /\ Head(batch[l]).item # NoItem
        /\ batch' = [batch EXCEPT ![l] = Tail(@)] /\ UNCHANGED queue
        /\ \/ Take(Head(batch[l]).stream, content[Head(batch[l]).item])
           \/ RefuseChunk(Head(batch[l]).stream, content[Head(batch[l]).item])
        /\ UNCHANGED <<socket, refs, span, sent, sinkVars>>
    BY <1>5 DEF HelperChunk
  <2>2. /\ Popped(l) /\ Head(batch[l]) = Line(l)[1] /\ 1 \in DOMAIN Line(l) /\ WorkInv(l, 1)
        /\ Head(batch[l]) \in Work
    BY <2>1, FirstWork, PopPops, <1>0
  <2>3. PICK s \in Streams, x \in Items : s = Head(batch[l]).stream /\ x = Head(batch[l]).item
    BY <2>1, <2>2 DEF Work
  <2>4. /\ phase[s] \in Open \cup {"released"} /\ (producerDone[s] => failed[s]) /\ laneOf[s] = l
        /\ 1 \in ChunksOf(s) /\ Pending(s, 1) = content[x]
    BY <2>1, <2>2, <2>3 DEF WorkInv, Open, ChunksOf, Pending
  <2>5. content[x] \in Seq(Nat)
    BY <1>0 DEF LaneType
  <2>6. (\A v \in Streams : Steady(v)) /\ (\A v \in Streams \ {s} : Same(v) /\ refused'[v] = refused[v])
    BY <1>0, <1>1, <2>1, <2>3, <2>4, <2>5, ChunkSteady
  <2>7. CASE u # s
    <3>1. laneOf[u] = l => 1 \notin ChunksOf(u)
      BY <2>2, <2>3, <2>7 DEF ChunksOf
    <3>2. accepted'[u] = accepted[u] /\ failed'[u] = failed[u] /\ refused'[u] = refused[u]
      BY <2>6, <2>7 DEF Same
    <3>3. Ordered(u) => Ordered(u)'
      BY <1>0, <1>1, <2>2, <3>1, <3>2, OrderSteady
    <3> QED  BY <3>2, <3>3, OrderFrom
  <2>8. CASE u = s /\ Take(s, content[x])
    <3>1. /\ ~failed[s] /\ failed' = failed /\ refused' = refused
          /\ accepted'[s] = accepted[s] \o Pending(s, 1)
      BY <1>0, <2>4, <2>8 DEF Take, flags, TypeOK
    <3>2. Ordered(s) /\ \A i \in DOMAIN accepted[s] : accepted[s][i] = i
      BY <2>8, <3>1 DEF OrderInv
    <3>3. Ordered(s)' /\ \A i \in DOMAIN accepted'[s] : accepted'[s][i] = i
      BY <1>0, <1>1, <2>2, <2>4, <3>1, <3>2, OrderArrives
    <3> QED  BY <2>8, <3>1, <3>3 DEF OrderInv
  <2>9. CASE u = s /\ RefuseChunk(s, content[x])
    <3>1. failed'[s] /\ accepted' = accepted
      BY <1>0, <2>4, <2>9 DEF RefuseChunk, Abandon, MarkFailed, flags, TypeOK
    <3> QED  BY <2>9, <3>1, OrderFrom
  <2> QED  BY <2>1, <2>3, <2>7, <2>8, <2>9
<1> QED  BY <1>2, <1>3, <1>4, <1>5 DEF HelperStep

LEMMA AroundOrder ==
  ASSUME DeliverInv, LaneType', NEW s \in Streams, Around(s), UNCHANGED laneVars,
         NEW u \in Streams, OrderInv(u)
  PROVE  OrderInv(u)'
<1>0. /\ LaneType /\ TypeOK /\ StreamsOK /\ LinesOK /\ SchedInv /\ laneOf[u] \in LaneIds
      /\ UNCHANGED <<laneOf, sched, content, batch, queue>>
  BY DEF DeliverInv, StreamsOK, LaneType, LaneIds, laneVars
<1>1. UNCHANGED <<accepted, refused, produced>>
  BY DEF Around, WriterStep, SpuriousWakeup, PeerChanges, Header, TakeSpan, Sleep, Leave, SendSome,
         SendFails, Advance, Decide, Terminate, Close, WriterReleases, Frame, sinkVars, history
<1>2. failed[u] => failed'[u]
  BY <1>0 DEF Around, WriterStep, SpuriousWakeup, PeerChanges, Header, TakeSpan, Sleep, Leave, SendSome,
         SendFails, Advance, Decide, Terminate, Close, WriterReleases, MarkFailed, flags, TypeOK
<1>3. Ordered(u) => Ordered(u)'
  BY <1>0, <1>1, NoLineChange, OrderSteady
<1> QED  BY <1>1, <1>2, <1>3, OrderFrom

LEMMA FullStep == FullInv /\ [DeliverNext]_allVars => FullInv'
<1> SUFFICES ASSUME FullInv, [DeliverNext]_allVars PROVE FullInv'
  OBVIOUS
<1>0. DeliverInv /\ ItemsApart /\ \A u \in Streams : OrderInv(u)
  BY DEF FullInv
<1>1. DeliverInv' /\ LaneType'
  BY <1>0, DeliverStep DEF DeliverInv
<1>2. ItemsApart'
  BY <1>0, <1>1, ItemsStep
<1>3. ASSUME NEW u \in Streams PROVE OrderInv(u)'
  <2>1. CASE SchedulerStep
    BY <1>0, <1>1, <2>1, SchedulerOrder
  <2>2. ASSUME NEW l \in DOMAIN queue, HelperStep(l) \/ HelperWakes(l) PROVE OrderInv(u)'
    <3>1. l \in LaneIds
      BY <1>0 DEF DeliverInv, LaneType, LaneIds
    <3> QED  BY <1>0, <1>1, <2>2, <3>1, HelperOrder
  <2>3. ASSUME NEW s \in Streams, Around(s), UNCHANGED laneVars PROVE OrderInv(u)'
    BY <1>0, <1>1, <2>3, AroundOrder
  <2>4. CASE UNCHANGED allVars
    <3>1. UNCHANGED <<batch, queue, laneOf, content, sched, accepted, refused, produced, failed>>
      BY <2>4 DEF allVars, vars, laneVars, history, sinkVars, flags
    <3>2. LaneType /\ LinesOK /\ SchedInv /\ TypeOK /\ laneOf[u] \in LaneIds
      BY <1>0 DEF DeliverInv, StreamsOK, LaneType, LaneIds
    <3>3. Ordered(u) => Ordered(u)'
      BY <1>1, <3>1, <3>2, NoLineChange, OrderSteady
    <3> QED  BY <1>0, <3>1, <3>3, OrderFrom
  <2> QED  BY <2>1, <2>2, <2>3, <2>4 DEF DeliverNext, DeliverOver
<1> QED  BY <1>1, <1>2, <1>3 DEF FullInv

LEMMA FullStarts == DeliverInit => FullInv
<1> SUFFICES ASSUME DeliverInit PROVE FullInv
  OBVIOUS
<1>1. DeliverInv /\ LaneType
  BY DeliverStarts DEF DeliverInv
<1>2. ASSUME NEW l \in LaneIds
      PROVE  spare[l] = <<>> /\ spent[l] = <<>> /\ Line(l) = <<>> /\ DOMAIN Line(l) = {}
  <2>1. spare[l] = <<>> /\ spent[l] = <<>> /\ batch[l] = <<>> /\ queue[l] = <<>>
    BY <1>2 DEF DeliverInit, LaneIds
  <2> QED  BY <2>1 DEF Line
<1>3. ItemsApart
  <2>1. sched.item = NoItem
    BY DEF DeliverInit, Idle, Busy
  <2>2. ASSUME NEW x \in Items, NEW k \in Kinds, NEW l \in LaneIds, NEW i \in Nat PROVE ~At(x, k, l, i)
    BY <1>2, <2>1, ItemAssumption DEF At, Kinds
  <2> QED  BY <2>2 DEF ItemsApart, Apart
<1>4. ASSUME NEW s \in Streams PROVE OrderInv(s)
  <2>1. accepted[s] = <<>> /\ ~refused[s] /\ produced[s] = 0 /\ sched.stream # s /\ Len(accepted[s]) = 0
    BY ItemAssumption, EmptySeq DEF DeliverInit, Init, Idle, Busy
  <2>2. ChunksOf(s) = {}
    <3>1. laneOf[s] \in LaneIds
      BY <1>1 DEF LaneType, LaneIds
    <3> QED  BY <1>2, <3>1 DEF ChunksOf
  <2>3. Handed(s) = 0
    <3>1. InHand(s) = <<>> /\ Len(InHand(s)) = 0
      BY <2>1, EmptySeq DEF InHand
    <3>2. Handed(s) = 0 - 0
      BY <2>1, <3>1 DEF Handed
    <3> QED  BY <3>2
  <2>4. (0 + 1)..0 = {}
    OBVIOUS
  <2> QED  BY <2>1, <2>2, <2>3, <2>4 DEF OrderInv, Ordered
<1> QED  BY <1>1, <1>3, <1>4 DEF FullInv

\* Chunks reach the ring in the order they were produced, whichever lane carries
\* them and however items are recycled; and a stream that has not failed has no
\* chunk refused, so that its end never overtakes one
\* (src/server/stream_out.c, stream_out_deliver() and stream_out_deliver_main()).
THEOREM ChunksArriveInOrder == DeliverSpec => []InOrder
<1>1. FullInv => InOrder
  BY DEF FullInv, DeliverInv, InOrder, OrderInv
<1> QED  BY <1>1, FullStarts, FullStep, PTL DEF DeliverSpec
\* What StreamOut promises of a stream whose chunks the scheduler enqueues itself
\* holds as well with a helper between them: its writer's span is left alone, it
\* is freed after its last user, and no slow reader is taken for a disconnect.
THEOREM StreamsStaySafeOnLanes == DeliverSpec => [](SpanUntouched /\ NoUseAfterFree /\ DisconnectIsReal)
<1>1. ASSUME DeliverInv PROVE SpanUntouched /\ NoUseAfterFree /\ DisconnectIsReal
  <2>1. SpanUntouched /\ DisconnectIsReal
    BY <1>1, SafeSpan DEF DeliverInv, StreamsOK, SinkInv, DisconnectIsReal
  <2>2. ASSUME NEW s \in Streams, refs[s] = 0
        PROVE  writer[s] \in {"none", "gone"} /\ phase[s] \notin {"running", "polled", "stopping", "finished"}
    <3>1. WriterRef(s) \in {0, 1} /\ SinkRef(s) \in {0, 1} /\ CloseRef(s) \in {0, 1}
      BY DEF WriterRef, SinkRef, CloseRef
    <3>2. WriterRef(s) + SinkRef(s) + CloseRef(s) = 0
      BY <1>1, <2>2 DEF DeliverInv, RefsShared
    <3>3. WriterRef(s) = 0 /\ SinkRef(s) = 0
      BY <3>1, <3>2
    <3> QED  BY <1>1, <3>3 DEF WriterRef, SinkRef, Open, DeliverInv, StreamsOK
  <2> QED  BY <2>1, <2>2 DEF NoUseAfterFree
<1> QED  BY <1>1, DeliveryIsSafe, PTL
==============================================================================
