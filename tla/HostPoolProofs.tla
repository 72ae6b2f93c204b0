---------------------------- MODULE HostPoolProofs ----------------------------
(***************************************************************************)
(* Theorems about the host-loop team, for any number of workers and        *)
(* submitters, any row counts and any width of the claim word's fields.    *)
(***************************************************************************)
EXTENDS HostPool, FiniteSetTheorems, TLAPS

-----------------------------------------------------------------------------
(* Arithmetic of the claim word.                                           *)

\* A share of n rows is no more than n.
LEMMA ShareBound ==
  ASSUME NEW n \in Nat, NEW k \in Nat \ {0}
  PROVE  n \div k \in 0..n
<1>1. n \div k \in Int /\ n = k * (n \div k) + (n % k) /\ n % k \in 0..(k - 1)
  BY SMT
<1> DEFINE q == n \div k
<1>2. q >= 0
  <2>1. SUFFICES ASSUME q <= -1 PROVE FALSE
    BY <1>1
  <2>2. k * q <= k * (-1)
    BY <1>1, <2>1, SMT
  <2> QED  BY <1>1, <2>2, SMT
<1>3. q <= n
  <2>1. q <= k * q
    BY <1>1, <1>2, SMT
  <2> QED  BY <1>1, <2>1, SMT
<1> QED  BY <1>1, <1>2, <1>3

\* A chunk has at least one row and at most as many as a region may have.
LEMMA ChunkBounds ==
  ASSUME NEW n \in Sizes
  PROVE  Chunk(n) \in 1..MaxRows
<1>1. n \in 1..MaxRows /\ MinChunk \in 1..MaxRows /\ MaxRows \in Nat
  BY PoolAssumption
<1>2. 4 * (Cardinality(Workers) + 1) \in Nat \ {0}
  BY PoolAssumption, FS_CardinalityType
<1>3. n \div (4 * (Cardinality(Workers) + 1)) \in 0..n
  BY <1>1, <1>2, ShareBound
<1> QED  BY <1>1, <1>3 DEF Chunk

\* A number below the modulus is its own remainder.
LEMMA SmallModulus ==
  ASSUME NEW k \in Nat \ {0}, NEW x \in 0..(k - 1)
  PROVE  x % k = x /\ x \div k = 0
<1>1. x \div k \in Int /\ x = k * (x \div k) + (x % k) /\ x % k \in 0..(k - 1)
  BY SMT
<1> DEFINE q == x \div k
<1>2. q < 1
  <2>1. SUFFICES ASSUME q >= 1 PROVE FALSE
    BY <1>1
  <2>2. k * q >= k
    BY <1>1, <2>1, SMT
  <2> QED  BY <1>1, <2>2, SMT
<1>3. q > -1
  <2>1. SUFFICES ASSUME q <= -1 PROVE FALSE
    BY <1>1
  <2>2. k * q <= k * (-1)
    BY <1>1, <2>1, SMT
  <2> QED  BY <1>1, <2>2, SMT
<1>4. q = 0
  BY <1>1, <1>2, <1>3
<1> QED  BY <1>1, <1>4, SMT

\* A claim adds a chunk to the next row and disturbs no other field.
LEMMA AdvancedWord ==
  ASSUME NEW w \in Word, w.next < w.n, w.n <= MaxRows, w.chunk <= MaxRows
  PROVE  /\ Advanced(w) \in Word
         /\ Advanced(w).next = w.next + w.chunk
         /\ Advanced(w).n = w.n /\ Advanced(w).chunk = w.chunk
<1>1. /\ w.next \in Nat /\ w.n \in Nat /\ w.chunk \in Nat /\ w.gen \in 0..(Gens - 1)
      /\ w.next + w.chunk \in 0..(Limit - 1)
      /\ Limit \in Nat \ {0} /\ Gens \in Nat \ {0}
  BY PoolAssumption DEF Word, Field
<1>2. (w.next + w.chunk) % Limit = w.next + w.chunk /\ (w.next + w.chunk) \div Limit = 0
  BY <1>1, SmallModulus
<1>3. (w.gen + 0) % Gens = w.gen
  BY <1>1, SmallModulus
<1>4. Advanced(w) = [w EXCEPT !.next = w.next + w.chunk, !.gen = w.gen]
  BY <1>2, <1>3 DEF Advanced
<1> QED  BY <1>1, <1>4 DEF Word, Field

\* The rows of a claim are some, and what the next row moves past.
LEMMA ClaimedRowsBound ==
  ASSUME NEW w \in Word, w.next < w.n, w.chunk > 0
  PROVE  /\ ClaimedRows(w) \in SUBSET Field
         /\ w.next \in ClaimedRows(w)
         /\ \A i \in ClaimedRows(w) : w.next <= i /\ i < w.n /\ i < w.next + w.chunk
         /\ \A i \in Nat : w.next <= i /\ i < w.n /\ i < w.next + w.chunk
                             => i \in ClaimedRows(w)
<1>1. w.next \in Nat /\ w.n \in Nat /\ w.chunk \in Nat /\ w.n < Limit /\ Limit \in Nat
  BY PoolAssumption DEF Word, Field
<1> QED  BY <1>1 DEF ClaimedRows, Field

-----------------------------------------------------------------------------
(* The invariant, conjunct by conjunct.                                    *)

LEMMA InitIsSafe == Init => RowsRunOnce
<1> SUFFICES ASSUME Init PROVE RowsRunOnce
  OBVIOUS
<1>1. 0 \in Field /\ NoWord \in Word /\ Workers \cap Submitters = {}
  BY PoolAssumption DEF Word, NoWord, Field
<1>2. \A t \in Threads : pc[t] \in {"start", "idle"} /\ rows[t] = {}
  BY DEF Init
<1>3. TypeOK
  <2>5. busy \in BOOLEAN
    BY DEF Init
  <2>1. /\ word \in Word /\ gen \in Nat /\ fn \in Nat /\ done \in Nat
        /\ reported \in SUBSET Field /\ mu \in Workers \cup {Nobody} /\ parked \in Int
    BY <1>1 DEF Init
  <2>4. seen \in [Workers -> Nat] /\ body \in [Threads -> Nat]
    BY DEF Init
  <2>2. held \in [Threads -> Word] /\ rows \in [Threads -> SUBSET Field]
    BY <1>1 DEF Init
  <2>3. /\ pc \in [Threads -> WorkerPlaces \cup SubmitPlaces \cup DrainPlaces]
        /\ \A w \in Workers : pc[w] \in WorkerPlaces \cup DrainPlaces
        /\ \A s \in Submitters : pc[s] \in SubmitPlaces \cup DrainPlaces
    BY <1>1 DEF Init, Threads, WorkerPlaces, SubmitPlaces
  <2> QED  BY <2>1, <2>2, <2>3, <2>4, <2>5 DEF TypeOK
<1>4. OneSubmitter /\ ClaimsAreOfRows /\ BodyIsOpen /\ NothingBetween
  BY <1>2, PoolAssumption DEF Init, OneSubmitter, ClaimsAreOfRows, BodyIsOpen, NothingBetween, NoWord,
                RowPlaces, Threads
<1>5. Partition /\ DoneIsExact
  <2>1. \A s \in Submitters : pc[s] = "idle"
    BY <1>1 DEF Init, Threads
  <2>2. reported = {} /\ done = 0
    BY DEF Init
  <2> QED  BY <1>2, <2>1, <2>2, FS_EmptySet DEF Partition, DoneIsExact, Inside, RowPlaces
<1> QED  BY <1>3, <1>4, <1>5 DEF RowsRunOnce

\* A thread that claims has the open region's word in hand.
LEMMA ClaimFacts ==
  ASSUME RowsRunOnce, NEW t \in Threads, Claim(t)
  PROVE  /\ word \in Word /\ held[t] = word
         /\ word.next < word.n /\ word.n <= MaxRows /\ word.chunk <= MaxRows /\ word.chunk > 0
         /\ word' \in Word /\ word'.n = word.n /\ word'.chunk = word.chunk
         /\ word'.next = word.next + word.chunk
         /\ rows' = [rows EXCEPT ![t] = ClaimedRows(word)]
         /\ rows[t] = {}
<1>1. /\ word \in Word /\ held[t] = word /\ word.next < word.n
      /\ word.n <= MaxRows /\ word.chunk <= MaxRows
      /\ rows[t] = {} /\ word.chunk > 0
  BY DEF RowsRunOnce, TypeOK, ClaimsAreOfRows, Partition, Claim, Word, Field, RowPlaces
<1>2. word' = Advanced(word) /\ rows' = [rows EXCEPT ![t] = ClaimedRows(word)]
  BY <1>1 DEF Claim
<1> QED  BY <1>1, <1>2, AdvancedWord

LEMMA FieldIsFinite == IsFiniteSet(Field)
<1>1. 0 \in Int /\ Limit - 1 \in Int
  BY PoolAssumption
<1> QED  BY <1>1, FS_Interval DEF Field

LEMMA TypeStep == RowsRunOnce /\ [Next]_vars => TypeOK'
<1> SUFFICES ASSUME RowsRunOnce, [Next]_vars PROVE TypeOK'
  OBVIOUS
<1> USE DEF TypeOK, Goto, Threads, WorkerPlaces, SubmitPlaces, DrainPlaces, ClaimPlaces, RowPlaces
<1>0. TypeOK /\ NoWord \in Word /\ Workers \cap Submitters = {}
  BY PoolAssumption DEF RowsRunOnce, NoWord, Word, Field
<1>1. ASSUME NEW t \in Threads, Load(t) PROVE TypeOK'
  BY <1>0, <1>1 DEF Load
<1>2. ASSUME NEW t \in Threads, Claim(t) PROVE TypeOK'
  <2>1. ClaimedRows(word) \in SUBSET Field
    BY <1>2, ClaimFacts, ClaimedRowsBound
  <2> QED  BY <1>0, <1>2, <2>1, ClaimFacts DEF Claim
<1>3. ASSUME NEW t \in Threads, ClaimFails(t) \/ Call(t) \/ RunRows(t) PROVE TypeOK'
  BY <1>0, <1>3 DEF ClaimFails, Call, RunRows
<1>4. ASSUME NEW t \in Threads, ReportRows(t) PROVE TypeOK'
  <2>1. IsFiniteSet(rows[t])
    <3>1. rows[t] \in SUBSET Field
      BY <1>0
    <3> QED  BY <3>1, FieldIsFinite, FS_Subset
  <2>2. Cardinality(rows[t]) \in Nat
    BY <2>1, FS_CardinalityType
  <2> QED  BY <1>0, <1>4, <2>2 DEF ReportRows
<1>5. ASSUME NEW s \in Submitters, Publish(s) PROVE TypeOK'
  <2>1. PICK n \in Sizes :
          word' = [gen |-> (gen + 1) % Gens, next |-> 0, n |-> n, chunk |-> Chunk(n)]
    BY <1>5 DEF Publish
  <2>2. (gen + 1) % Gens \in 0..(Gens - 1)
    BY <1>0, PoolAssumption
  <2>3. word' \in Word
    BY <2>1, <2>2, ChunkBounds, PoolAssumption DEF Word, Field
  <2> QED  BY <1>0, <1>5, <2>3 DEF Publish
<1>6. ASSUME NEW s \in Submitters,
             Enter(s) \/ Open(s) \/ Announce(s) \/ Wake(s) \/ Broadcast(s) \/ Wait(s) \/ Close(s)
      PROVE  TypeOK'
  <2>1. CASE Open(s)
    BY <1>0, <2>1 DEF Open
  <2>2. CASE Broadcast(s)
    BY <1>0, <2>2 DEF Broadcast
  <2>3. CASE Enter(s) \/ Close(s)
    BY <1>0, <2>3 DEF Enter, Close
  <2>4. CASE Announce(s) \/ Wake(s) \/ Wait(s)
    BY <1>0, <2>4 DEF Announce, Wake, Wait
  <2> QED  BY <1>6, <2>1, <2>2, <2>3, <2>4
<1>7. ASSUME NEW w \in Workers, Work(w) \/ SpuriousWakeup(w) PROVE TypeOK'
  <2>1. CASE Begin(w) \/ Notice(w)
    BY <1>0, <2>1 DEF Begin, Notice
  <2>4. CASE Check(w) \/ SpuriousWakeup(w)
    BY <1>0, <2>4 DEF Check, SpuriousWakeup
  <2>2. CASE Park(w) \/ Relock(w)
    BY <1>0, <2>2 DEF Park, Relock
  <2>3. CASE Sleep(w) \/ Unpark(w)
    BY <1>0, <2>3 DEF Sleep, Unpark
  <2> QED  BY <1>7, <2>1, <2>2, <2>3, <2>4 DEF Work
<1>8. CASE UNCHANGED vars
  BY <1>0, <1>8 DEF vars
<1> QED  BY <1>1, <1>2, <1>3, <1>4, <1>5, <1>6, <1>7, <1>8 DEF Next, Drain, Submit

\* What every proof below needs to know of a place in the code.
LEMMA PlaceStep ==
  ASSUME RowsRunOnce, NEW t \in Threads, NEW place, Goto(t, place)
  PROVE  pc'[t] = place /\ \A u \in Threads \ {t} : pc'[u] = pc[u]
BY DEF RowsRunOnce, TypeOK, Goto

LEMMA OneSubmitterStep == RowsRunOnce /\ [Next]_vars => OneSubmitter'
<1> SUFFICES ASSUME RowsRunOnce, [Next]_vars PROVE OneSubmitter'
  OBVIOUS
<1> USE DEF OneSubmitter
<1>0. TypeOK /\ OneSubmitter /\ Workers \cap Submitters = {}
  BY PoolAssumption DEF RowsRunOnce
<1>1. ASSUME NEW t \in Threads, Drain(t) PROVE OneSubmitter'
  <2>1. busy' = busy /\ (pc[t] # "idle") /\ \A u \in Threads \ {t} : pc'[u] = pc[u]
    BY <1>0, <1>1 DEF Drain, Load, Claim, ClaimFails, Call, RunRows, ReportRows, Goto, TypeOK
  <2> QED  BY <1>0, <2>1 DEF Threads
<1>2. ASSUME NEW s \in Submitters, Enter(s) PROVE OneSubmitter'
  BY <1>0, <1>2 DEF Enter, Goto, TypeOK, Threads
<1>3. ASSUME NEW s \in Submitters, Submit(s), ~Enter(s), ~Close(s) PROVE OneSubmitter'
  <2>1. busy' = busy /\ (pc[s] # "idle")
    BY <1>3 DEF Submit, Open, Publish, Announce, Wake, Broadcast, Wait
  <2>2. \A u \in Submitters \ {s} : pc[u] = "idle" => pc'[u] = "idle"
    BY <1>0, <1>3 DEF Submit, Open, Publish, Announce, Wake, Broadcast, Wait, Goto, TypeOK, Threads
  <2> QED  BY <1>0, <2>1, <2>2
<1>4. ASSUME NEW s \in Submitters, Close(s) PROVE OneSubmitter'
  BY <1>0, <1>4 DEF Close, Goto, TypeOK, Threads
<1>5. ASSUME NEW w \in Workers, Work(w) \/ SpuriousWakeup(w) PROVE OneSubmitter'
  <2>1. busy' = busy /\ \A u \in Threads \ {w} : pc'[u] = pc[u]
    BY <1>0, <1>5 DEF Work, Begin, Notice, Park, Check, Sleep, Relock, Unpark, SpuriousWakeup,
                      Goto, TypeOK, Threads
  <2> QED  BY <1>0, <2>1 DEF Threads
<1>6. CASE UNCHANGED vars
  BY <1>0, <1>6 DEF vars
<1> QED  BY <1>1, <1>2, <1>3, <1>4, <1>5, <1>6 DEF Next

Rest == ClaimsAreOfRows /\ NothingBetween /\ Partition /\ DoneIsExact /\ BodyIsOpen

\* A step that claims and reports nothing, and neither opens nor closes a region.
Quiet ==
  /\ UNCHANGED <<word, fn, done, reported, rows>>
  /\ \A t \in Threads :
       /\ pc'[t] = "claim" => held'[t].next < held'[t].n
       /\ pc'[t] \in RowPlaces <=> pc[t] \in RowPlaces
       /\ pc'[t] \in {"body", "report"} => body'[t] = fn
  /\ \A s \in Submitters :
       /\ Inside(s)' <=> Inside(s)
       /\ Draining(s)' <=> Draining(s)
       /\ pc'[s] = "publish" => pc[s] = "publish"
       /\ pc'[s] = "wait" => pc[s] = "wait" \/ word.next >= word.n
       /\ pc'[s] = "close" => pc[s] = "close"

LEMMA QuietStep == RowsRunOnce /\ Quiet => Rest'
<1> SUFFICES ASSUME RowsRunOnce, Quiet PROVE Rest'
  OBVIOUS
<1>0. Rest
  BY DEF RowsRunOnce, Rest
<1>1. /\ word' = word /\ fn' = fn /\ done' = done /\ reported' = reported /\ rows' = rows
      /\ Claimed' = Claimed
  BY DEF Quiet, Claimed, Numbers
<1>2. ClaimsAreOfRows'
  BY <1>0, <1>1 DEF Rest, Quiet, ClaimsAreOfRows
<1>3. NothingBetween'
  BY <1>0, <1>1 DEF Rest, Quiet, NothingBetween
<1>4. Partition'
  BY <1>0, <1>1 DEF Rest, Quiet, Partition
<1>5. DoneIsExact'
  BY <1>0, <1>1 DEF Rest, Quiet, DoneIsExact, Numbers
<1>6. BodyIsOpen'
  BY <1>0, <1>1 DEF Rest, Quiet, BodyIsOpen
<1> QED  BY <1>2, <1>3, <1>4, <1>5, <1>6 DEF Rest

LEMMA WorkIsQuiet ==
  ASSUME RowsRunOnce, NEW w \in Workers, Work(w) \/ SpuriousWakeup(w)
  PROVE  Quiet
<1>0. TypeOK /\ Rest /\ Workers \cap Submitters = {}
  BY PoolAssumption DEF RowsRunOnce, Rest
<1>1. /\ UNCHANGED <<word, fn, done, reported, held, rows, body>>
      /\ \A u \in Threads \ {w} : pc'[u] = pc[u]
      /\ pc'[w] \in WorkerPlaces \cup {"load"} /\ pc[w] \in WorkerPlaces
  <2>1. CASE Begin(w) \/ Notice(w) \/ Check(w) \/ SpuriousWakeup(w)
    BY <1>0, <2>1 DEF Begin, Notice, Check, SpuriousWakeup, Goto, TypeOK, Threads, WorkerPlaces
  <2>2. CASE Park(w) \/ Relock(w) \/ Sleep(w) \/ Unpark(w)
    BY <1>0, <2>2 DEF Park, Relock, Sleep, Unpark, Goto, TypeOK, Threads, WorkerPlaces
  <2> QED  BY <2>1, <2>2 DEF Work
<1>2. w \notin Submitters /\ \A s \in Submitters : pc'[s] = pc[s]
  BY <1>0, <1>1 DEF Threads
<1>3. \A t \in Threads : /\ pc'[t] = "claim" => held'[t].next < held'[t].n
                         /\ pc'[t] \in RowPlaces <=> pc[t] \in RowPlaces
                         /\ pc'[t] \in {"body", "report"} => body'[t] = fn
  BY <1>0, <1>1 DEF Rest, ClaimsAreOfRows, BodyIsOpen, WorkerPlaces, RowPlaces
<1> QED  BY <1>1, <1>2, <1>3 DEF Quiet, Inside, Draining

LEMMA DrainIsQuiet ==
  ASSUME RowsRunOnce, NEW t \in Threads, Load(t) \/ ClaimFails(t) \/ Call(t) \/ RunRows(t)
  PROVE  Quiet
<1>0. TypeOK /\ Rest /\ Workers \cap Submitters = {}
  BY PoolAssumption DEF RowsRunOnce, Rest
<1>1. /\ UNCHANGED <<word, fn, done, reported, rows>>
      /\ \A u \in Threads \ {t} : pc'[u] = pc[u] /\ held'[u] = held[u] /\ body'[u] = body[u]
  BY <1>0 DEF Load, ClaimFails, Call, RunRows, Goto, TypeOK
<1>2. /\ pc'[t] = "claim" => held'[t].next < held'[t].n
      /\ pc'[t] \in RowPlaces <=> pc[t] \in RowPlaces
      /\ pc'[t] \in {"body", "report"} => body'[t] = fn
  BY <1>0 DEF Load, ClaimFails, Call, RunRows, Goto, TypeOK, RowPlaces, Rest, BodyIsOpen
<1>3. /\ pc[t] \in DrainPlaces
      /\ pc'[t] \in DrainPlaces \cup {"look"} \/ (pc'[t] = "wait" /\ ~(word.next < word.n))
      /\ t \in Submitters => pc'[t] # "look"
  BY <1>0 DEF Load, ClaimFails, Call, RunRows, Goto, TypeOK, DrainPlaces, ClaimPlaces, RowPlaces
<1>4. word.next \in Nat /\ word.n \in Nat
  BY <1>0 DEF TypeOK, Word, Field
<1>5. \A s \in Submitters :
       /\ Inside(s)' <=> Inside(s)
       /\ Draining(s)' <=> Draining(s)
       /\ pc'[s] = "publish" => pc[s] = "publish"
       /\ pc'[s] = "wait" => pc[s] = "wait" \/ word.next >= word.n
       /\ pc'[s] = "close" => pc[s] = "close"
  <2> TAKE s \in Submitters
  <2>1. CASE s = t
    BY <1>3, <1>4, <2>1 DEF Inside, Draining, DrainPlaces, ClaimPlaces, RowPlaces
  <2>2. CASE s # t
    BY <1>1, <2>2 DEF Inside, Draining, Threads
  <2> QED  BY <2>1, <2>2
<1>6. \A u \in Threads : /\ pc'[u] = "claim" => held'[u].next < held'[u].n
                         /\ pc'[u] \in RowPlaces <=> pc[u] \in RowPlaces
                         /\ pc'[u] \in {"body", "report"} => body'[u] = fn
  BY <1>0, <1>1, <1>2 DEF Rest, ClaimsAreOfRows, BodyIsOpen
<1> QED  BY <1>1, <1>5, <1>6 DEF Quiet

LEMMA SubmitIsQuiet ==
  ASSUME RowsRunOnce, NEW s \in Submitters,
         Enter(s) \/ Announce(s) \/ Wake(s) \/ Broadcast(s)
  PROVE  Quiet
<1>0. TypeOK /\ Rest /\ Workers \cap Submitters = {}
  BY PoolAssumption DEF RowsRunOnce, Rest
<1>1. UNCHANGED <<word, fn, done, reported, held, rows, body>>
  BY DEF Enter, Announce, Wake, Broadcast
<1>2. \A t \in Threads \ {s} :
        pc'[t] = pc[t] \/ (t \in Workers /\ pc[t] = "asleep" /\ pc'[t] = "woken")
  <2>1. CASE Broadcast(s)
    BY <1>0, <2>1 DEF Broadcast, TypeOK, Threads, SubmitPlaces, DrainPlaces, ClaimPlaces, RowPlaces
  <2> QED  BY <1>0, <2>1 DEF Enter, Announce, Wake, Goto, TypeOK
<1>3. \/ pc[s] = "idle" /\ pc'[s] = "open"
      \/ pc[s] \in {"announce", "wake", "broadcast"} /\ pc'[s] \in {"wake", "broadcast", "load"}
  BY <1>0 DEF Enter, Announce, Wake, Broadcast, Goto, TypeOK, Threads
<1>4. \A t \in Threads : /\ pc'[t] = "claim" => held'[t].next < held'[t].n
                         /\ pc'[t] \in RowPlaces <=> pc[t] \in RowPlaces
                         /\ pc'[t] \in {"body", "report"} => body'[t] = fn
  BY <1>0, <1>1, <1>2, <1>3 DEF Rest, ClaimsAreOfRows, BodyIsOpen, RowPlaces
<1>5. \A u \in Submitters : u # s => pc'[u] = pc[u]
  BY <1>0, <1>2 DEF Threads
<1> QED  BY <1>1, <1>3, <1>4, <1>5 DEF Quiet, Inside, Draining
\* While somebody is at one of the submitter's places, everybody else is out.
LEMMA OthersAreOut ==
  ASSUME RowsRunOnce, NEW s \in Submitters, pc[s] # "idle"
  PROVE  \A u \in Submitters \ {s} : pc[u] = "idle" /\ ~Inside(u) /\ ~Draining(u)
BY DEF RowsRunOnce, OneSubmitter, Inside, Draining

\* There is something to claim, or something claimed, only inside a region.
LEMMA SomebodyDrains ==
  ASSUME RowsRunOnce,
         word.next < word.n \/ \E t \in Threads : pc[t] \in RowPlaces
  PROVE  \E s \in Submitters : Draining(s)
<1>1. word.next \in Nat /\ word.n \in Nat
  BY DEF RowsRunOnce, TypeOK, Word, Field
<1> QED  BY <1>1 DEF RowsRunOnce, NothingBetween

\* The rows a region is made of, and those of them that are claimed.
LEMMA RowsOfTheRegion ==
  ASSUME RowsRunOnce, NEW s \in Submitters, Inside(s)
  PROVE  /\ \A i : i \in Claimed <=> i \in Nat /\ i < word.next /\ i < word.n
         /\ \A i : i \in reported \/ (\E t \in Threads : i \in rows[t]) <=> i \in Claimed
<1>1. word.next \in Nat /\ word.n \in Nat
  BY DEF RowsRunOnce, TypeOK, Word, Field
<1>2. \A i : i \in Claimed <=> i \in Nat /\ i < word.next /\ i < word.n
  BY <1>1 DEF Claimed, Numbers
<1>3. reported \cup UNION {rows[t] : t \in Threads} = Claimed
  BY DEF RowsRunOnce, Partition
<1> QED  BY <1>2, <1>3

LEMMA ClaimStep ==
  ASSUME RowsRunOnce, NEW t \in Threads, Claim(t)
  PROVE  Rest'
<1>0. TypeOK /\ Rest
  BY DEF RowsRunOnce, Rest
<1>1. /\ word \in Word /\ word.next < word.n /\ word.n <= MaxRows /\ word.chunk <= MaxRows
      /\ word' \in Word /\ word'.n = word.n /\ word'.chunk = word.chunk
      /\ word'.next = word.next + word.chunk /\ word.chunk > 0
      /\ rows' = [rows EXCEPT ![t] = ClaimedRows(word)] /\ rows[t] = {}
  BY ClaimFacts
<1>2. word.next \in Nat /\ word.n \in Nat /\ word.chunk \in Nat
  BY <1>1 DEF Word, Field
<1>3. /\ \A i \in ClaimedRows(word) : i \in Nat /\ word.next <= i /\ i < word.n
                                        /\ i < word.next + word.chunk
      /\ \A i \in Nat : word.next <= i /\ i < word.n /\ i < word.next + word.chunk
                          => i \in ClaimedRows(word)
      /\ word.next \in ClaimedRows(word)
  BY <1>1, ClaimedRowsBound DEF Field
<1>4. /\ pc[t] = "claim" /\ pc'[t] = "call" /\ \A u \in Threads \ {t} : pc'[u] = pc[u]
      /\ held' = [held EXCEPT ![t] = NoWord]
      /\ UNCHANGED <<fn, done, reported, body>>
  BY <1>0 DEF Claim, Goto, TypeOK
<1>5. /\ rows'[t] = ClaimedRows(word)
      /\ \A u \in Threads \ {t} : rows'[u] = rows[u] /\ held'[u] = held[u]
  BY <1>0, <1>1, <1>4 DEF TypeOK
<1>6. PICK s \in Submitters : Draining(s)
  BY <1>1, SomebodyDrains
<1>7. Inside(s) /\ pc[s] \notin {"idle", "open", "publish", "close", "wait"}
  BY <1>0, <1>1, <1>2, <1>6 DEF Draining, Inside, Rest, DoneIsExact
<1>8. /\ \A u \in Submitters \ {s} : pc[u] = "idle" /\ u # t
      /\ \A u \in Submitters \ {s} : pc'[u] = "idle"
      /\ pc'[s] = pc[s] \/ pc'[s] = "call"
  BY <1>4, <1>7, OthersAreOut DEF Threads
<1>9. /\ \A i : i \in Claimed <=> i \in Nat /\ i < word.next /\ i < word.n
      /\ \A i : i \in reported \/ (\E u \in Threads : i \in rows[u]) <=> i \in Claimed
  BY <1>7, RowsOfTheRegion
<1>10. ClaimsAreOfRows'
  BY <1>0, <1>1, <1>2, <1>3, <1>4, <1>5 DEF Rest, ClaimsAreOfRows, RowPlaces
<1>11. NothingBetween'
  <2>1. Draining(s)'
    BY <1>7, <1>8 DEF Draining, Inside
  <2> QED  BY <2>1 DEF NothingBetween
<1>12. Partition'
  <2>1. /\ \A u \in Threads : pc'[u] \notin RowPlaces => rows'[u] = {}
        /\ \A u \in Threads \ {t} : rows[u] \cap ClaimedRows(word) = {}
        /\ reported \cap ClaimedRows(word) = {}
    BY <1>0, <1>2, <1>3, <1>4, <1>5, <1>9 DEF Rest, Partition, RowPlaces
  <2>2. /\ \A u, v \in Threads : u # v => rows'[u] \cap rows'[v] = {}
        /\ \A u \in Threads : rows'[u] \cap reported' = {}
    BY <1>0, <1>4, <1>5, <2>1 DEF Rest, Partition
  <2>3. \A i : i \in Claimed' <=> i \in Nat /\ i < word.next + word.chunk /\ i < word.n
    BY <1>1, <1>2 DEF Claimed, Numbers
  <2>4. \A i : i \in Claimed' <=> i \in Claimed \/ i \in ClaimedRows(word)
    BY <1>2, <1>3, <1>9, <2>3
  <2>5. \A i : i \in Claimed' <=> i \in reported' \/ \E u \in Threads : i \in rows'[u]
    BY <1>1, <1>4, <1>5, <1>9, <2>4
  <2>6. (reported \cup UNION {rows[u] : u \in Threads})' = Claimed'
    BY <2>5
  <2>7. \A u \in Submitters : pc'[u] # "publish"
    BY <1>7, <1>8
  <2> QED  BY <2>1, <2>2, <2>6, <2>7 DEF Partition
<1>13. DoneIsExact'
  BY <1>0, <1>4, <1>7, <1>8 DEF Rest, DoneIsExact
<1>14. BodyIsOpen'
  BY <1>0, <1>4 DEF Rest, BodyIsOpen
<1> QED  BY <1>10, <1>11, <1>12, <1>13, <1>14 DEF Rest

LEMMA ReportStep ==
  ASSUME RowsRunOnce, NEW t \in Threads, ReportRows(t)
  PROVE  Rest'
<1>0. TypeOK /\ Rest
  BY DEF RowsRunOnce, Rest
<1>1. /\ pc[t] = "report" /\ pc'[t] = "load" /\ \A u \in Threads \ {t} : pc'[u] = pc[u]
      /\ rows'[t] = {} /\ \A u \in Threads \ {t} : rows'[u] = rows[u]
      /\ reported' = reported \cup rows[t] /\ done' = done + Cardinality(rows[t])
      /\ \A u \in Threads \ {t} : body'[u] = body[u]
      /\ UNCHANGED <<word, fn, held>>
  BY <1>0 DEF ReportRows, Goto, TypeOK
<1>2. PICK s \in Submitters : Draining(s)
  BY <1>1, SomebodyDrains DEF RowPlaces
<1>3. Inside(s) /\ pc[s] \notin {"idle", "open", "publish", "close"}
  BY <1>2 DEF Draining, Inside
<1>4. /\ \A u \in Submitters \ {s} : pc[u] = "idle" /\ pc'[u] = "idle"
      /\ pc'[s] = pc[s] \/ pc'[s] = "load"
  BY <1>1, <1>3, OthersAreOut DEF Threads
<1>5. /\ rows[t] \cap reported = {}
      /\ \A u \in Threads \ {t} : rows[u] \cap rows[t] = {}
  BY <1>0 DEF Rest, Partition
<1>6. Claimed' = Claimed
  BY <1>1 DEF Claimed, Numbers
<1>7. ClaimsAreOfRows'
  BY <1>0, <1>1 DEF Rest, ClaimsAreOfRows, RowPlaces
<1>8. NothingBetween'
  <2>1. Draining(s)'
    BY <1>3, <1>4 DEF Draining, Inside
  <2> QED  BY <2>1 DEF NothingBetween
<1>9. Partition'
  <2>1. /\ \A u \in Threads : pc'[u] \notin RowPlaces => rows'[u] = {}
        /\ \A u, v \in Threads : u # v => rows'[u] \cap rows'[v] = {}
        /\ \A u \in Threads : rows'[u] \cap reported' = {}
    BY <1>0, <1>1, <1>5 DEF Rest, Partition
  <2>2. \A i : i \in reported \/ (\E u \in Threads : i \in rows[u]) <=> i \in Claimed
    BY <1>3, RowsOfTheRegion
  <2>3. \A i : i \in reported' \/ (\E u \in Threads : i \in rows'[u]) <=> i \in Claimed'
    BY <1>1, <1>6, <2>2
  <2>4. (reported \cup UNION {rows[u] : u \in Threads})' = Claimed'
    BY <2>3
  <2>5. \A u \in Submitters : pc'[u] # "publish"
    BY <1>3, <1>4
  <2> QED  BY <2>1, <2>4, <2>5 DEF Partition
<1>10. DoneIsExact'
  <2>1. IsFiniteSet(reported) /\ IsFiniteSet(rows[t])
    BY <1>0, FieldIsFinite, FS_Subset DEF TypeOK
  <2>2. Cardinality(reported \cup rows[t]) = Cardinality(reported) + Cardinality(rows[t])
    <3>1. reported \cap rows[t] = {} /\ Cardinality({}) = 0
      BY <1>5, FS_EmptySet
    <3>2. Cardinality(reported) \in Nat /\ Cardinality(rows[t]) \in Nat
      BY <2>1, FS_CardinalityType
    <3>3. Cardinality(reported \cup rows[t])
            = Cardinality(reported) + Cardinality(rows[t]) - Cardinality(reported \cap rows[t])
      BY <2>1, FS_Union
    <3> QED  BY <3>1, <3>2, <3>3
  <2>3. done' = Cardinality(reported')
    BY <1>0, <1>1, <2>2 DEF Rest, DoneIsExact
  <2> QED  BY <1>0, <1>1, <1>3, <1>4, <2>3 DEF Rest, DoneIsExact
<1>11. BodyIsOpen'
  BY <1>0, <1>1 DEF Rest, BodyIsOpen
<1> QED  BY <1>7, <1>8, <1>9, <1>10, <1>11 DEF Rest
LEMMA OpenStep ==
  ASSUME RowsRunOnce, NEW s \in Submitters, Open(s)
  PROVE  Rest'
<1>0. TypeOK /\ Rest
  BY DEF RowsRunOnce, Rest
<1>1. /\ pc[s] = "open" /\ pc'[s] = "publish" /\ \A u \in Threads \ {s} : pc'[u] = pc[u]
      /\ reported' = {} /\ done' = 0
      /\ UNCHANGED <<word, held, rows, body>>
  BY <1>0 DEF Open, Goto, TypeOK, Threads
<1>2. \A u \in Submitters \ {s} : pc[u] = "idle" /\ pc'[u] = "idle"
  BY <1>1, OthersAreOut DEF Threads
<1>3. /\ \A u \in Submitters : ~Inside(u) /\ ~Draining(u) /\ ~Inside(u)' /\ ~Draining(u)'
      /\ \A u \in Submitters : pc'[u] \notin {"wait", "close"}
  BY <1>1, <1>2 DEF Inside, Draining
<1>4. \A t \in Threads : rows[t] = {} /\ pc[t] \notin RowPlaces /\ pc'[t] \notin RowPlaces
  BY <1>0, <1>1, <1>3 DEF Rest, NothingBetween, RowPlaces
<1>5. ClaimsAreOfRows' /\ NothingBetween'
  BY <1>0, <1>1, <1>3, <1>4 DEF Rest, ClaimsAreOfRows, NothingBetween
<1>6. Partition'
  BY <1>1, <1>3, <1>4 DEF Partition
<1>7. DoneIsExact'
  BY <1>1, <1>3, FS_EmptySet DEF DoneIsExact
<1>8. BodyIsOpen'
  BY <1>4 DEF BodyIsOpen, RowPlaces
<1> QED  BY <1>5, <1>6, <1>7, <1>8 DEF Rest

\* A region is published when nothing of the last one is left.
LEMMA PublishFacts ==
  ASSUME RowsRunOnce, NEW s \in Submitters, Publish(s)
  PROVE  /\ pc[s] = "publish" /\ pc'[s] = "announce"
         /\ \A u \in Threads \ {s} : pc'[u] = pc[u]
         /\ \A u \in Submitters : ~Inside(u) /\ ~Draining(u)
         /\ \A u \in Submitters \ {s} : pc[u] = "idle" /\ pc'[u] = "idle"
         /\ \A t \in Threads : rows[t] = {} /\ pc[t] \notin RowPlaces /\ pc'[t] \notin RowPlaces
         /\ reported = {}
         /\ word'.next = 0 /\ word'.n \in 1..MaxRows /\ word'.chunk \in 1..MaxRows
         /\ UNCHANGED <<fn, done, reported, held, rows, body>>
<1>0. TypeOK /\ Rest
  BY DEF RowsRunOnce, Rest
<1>1. /\ pc[s] = "publish" /\ pc'[s] = "announce" /\ \A u \in Threads \ {s} : pc'[u] = pc[u]
      /\ UNCHANGED <<fn, done, reported, held, rows, body>>
  BY <1>0 DEF Publish, Goto, TypeOK, Threads
<1>2. \A u \in Submitters \ {s} : pc[u] = "idle" /\ pc'[u] = "idle"
  BY <1>1, OthersAreOut DEF Threads
<1>3. \A u \in Submitters : ~Inside(u) /\ ~Draining(u)
  BY <1>1, <1>2 DEF Inside, Draining
<1>4. \A t \in Threads : rows[t] = {} /\ pc[t] \notin RowPlaces /\ pc'[t] \notin RowPlaces
  BY <1>0, <1>1, <1>3 DEF Rest, NothingBetween, RowPlaces
<1>5. reported = {}
  BY <1>0, <1>1 DEF Rest, Partition
<1>6. word'.next = 0 /\ word'.n \in 1..MaxRows /\ word'.chunk \in 1..MaxRows
  BY ChunkBounds, PoolAssumption DEF Publish
<1> QED  BY <1>1, <1>2, <1>3, <1>4, <1>5, <1>6

LEMMA PublishStep ==
  ASSUME RowsRunOnce, NEW s \in Submitters, Publish(s)
  PROVE  Rest'
<1>0. TypeOK /\ Rest
  BY DEF RowsRunOnce, Rest
<1>1. /\ pc'[s] = "announce" /\ \A u \in Threads \ {s} : pc'[u] = pc[u]
      /\ \A u \in Submitters \ {s} : pc'[u] = "idle"
      /\ \A t \in Threads : rows'[t] = {} /\ pc'[t] \notin RowPlaces
      /\ reported' = {} /\ reported = {} /\ done' = done
      /\ word'.next = 0 /\ word'.n \in 1..MaxRows /\ word'.chunk \in 1..MaxRows
      /\ held' = held
  BY PublishFacts
<1>2. ClaimsAreOfRows'
  <2>1. word'.n <= MaxRows /\ word'.chunk <= MaxRows /\ word'.chunk > 0
    BY <1>1, PoolAssumption
  <2>2. \A t \in Threads : pc'[t] = "claim" => held'[t].next < held'[t].n
    BY <1>0, <1>1 DEF Rest, ClaimsAreOfRows
  <2> QED  BY <1>1, <2>1, <2>2 DEF ClaimsAreOfRows
<1>3. NothingBetween'
  BY <1>1 DEF NothingBetween, Draining, Inside
<1>4. Partition'
  <2>1. Claimed' = {}
    BY <1>1, PoolAssumption DEF Claimed, Numbers
  <2>2. \A u \in Submitters : pc'[u] # "publish"
    BY <1>1
  <2> QED  BY <1>1, <2>1, <2>2 DEF Partition
<1>5. DoneIsExact'
  <2>1. \A u \in Submitters : pc'[u] \notin {"wait", "close"}
    BY <1>1
  <2> QED  BY <1>0, <1>1, <2>1 DEF Rest, DoneIsExact
<1>6. BodyIsOpen'
  BY <1>1 DEF BodyIsOpen, RowPlaces
<1> QED  BY <1>2, <1>3, <1>4, <1>5, <1>6 DEF Rest

\* When the count says that every row is done, every row has been reported.
LEMMA WaitFacts ==
  ASSUME RowsRunOnce, NEW s \in Submitters, Wait(s)
  PROVE  /\ reported = Numbers(word.n)
         /\ \A t \in Threads : rows[t] = {} /\ pc[t] \notin RowPlaces
<1>0. TypeOK /\ Rest
  BY DEF RowsRunOnce, Rest
<1>1. /\ pc[s] = "wait" /\ done = word.n /\ word.next >= word.n
      /\ word.next \in Nat /\ word.n \in Nat
  BY <1>0 DEF Wait, Rest, DoneIsExact, TypeOK, Word, Field
<1>2. Claimed = Numbers(word.n)
  BY <1>1 DEF Claimed
<1>3. \A i : i \in reported \/ (\E t \in Threads : i \in rows[t]) <=> i \in Numbers(word.n)
  BY <1>1, <1>2, RowsOfTheRegion DEF Inside
<1>4. IsFiniteSet(Numbers(word.n)) /\ Cardinality(Numbers(word.n)) = word.n
  <2>1. word.n - 1 \in Int /\ 0 \in Int
    BY <1>1
  <2>2. /\ IsFiniteSet(0..(word.n - 1))
        /\ Cardinality(0..(word.n - 1)) = IF 0 > word.n - 1 THEN 0 ELSE (word.n - 1) - 0 + 1
    BY <2>1, FS_Interval
  <2> QED  BY <1>1, <2>2 DEF Numbers
<1>5. Cardinality(reported) = Cardinality(Numbers(word.n))
  BY <1>0, <1>1, <1>4 DEF Rest, DoneIsExact
<1>6. reported = Numbers(word.n)
  <2>1. reported \in SUBSET Numbers(word.n)
    BY <1>3
  <2> QED  BY <1>4, <1>5, <2>1, FS_Subset
<1>7. \A t \in Threads : rows[t] = {}
  BY <1>0, <1>3, <1>6 DEF Rest, Partition
<1> QED  BY <1>0, <1>6, <1>7 DEF Rest, ClaimsAreOfRows

LEMMA WaitStep ==
  ASSUME RowsRunOnce, NEW s \in Submitters, Wait(s)
  PROVE  Rest'
<1>0. TypeOK /\ Rest
  BY DEF RowsRunOnce, Rest
<1>1. /\ pc[s] = "wait" /\ pc'[s] = "close" /\ \A u \in Threads \ {s} : pc'[u] = pc[u]
      /\ UNCHANGED <<word, fn, done, reported, held, rows, body>>
  BY <1>0 DEF Wait, Goto, TypeOK, Threads
<1>2. \A u \in Submitters \ {s} : pc[u] = "idle" /\ pc'[u] = "idle"
  BY <1>1, OthersAreOut DEF Threads
<1>3. /\ reported = Numbers(word.n) /\ word.next >= word.n
      /\ \A t \in Threads : rows[t] = {} /\ pc[t] \notin RowPlaces
  BY <1>0, <1>1, WaitFacts DEF Rest, DoneIsExact
<1>4. \A t \in Threads : pc'[t] \notin RowPlaces
  BY <1>1, <1>3 DEF RowPlaces
<1>5. ClaimsAreOfRows' /\ BodyIsOpen' /\ NothingBetween'
  BY <1>0, <1>1, <1>3, <1>4 DEF Rest, ClaimsAreOfRows, BodyIsOpen, NothingBetween, RowPlaces
<1>6. Partition'
  <2>1. reported \cup UNION {rows[t] : t \in Threads} = Claimed
    BY <1>0, <1>1 DEF Rest, Partition, Inside
  <2>2. Claimed' = Claimed
    BY <1>1 DEF Claimed, Numbers
  <2>3. \A u \in Submitters : pc'[u] # "publish"
    BY <1>1, <1>2
  <2> QED  BY <1>0, <1>1, <1>3, <1>4, <2>1, <2>2, <2>3 DEF Rest, Partition
<1>7. DoneIsExact'
  BY <1>0, <1>1, <1>3 DEF Rest, DoneIsExact, Numbers
<1> QED  BY <1>5, <1>6, <1>7 DEF Rest

LEMMA CloseStep ==
  ASSUME RowsRunOnce, NEW s \in Submitters, Close(s)
  PROVE  Rest'
<1>0. TypeOK /\ Rest
  BY DEF RowsRunOnce, Rest
<1>1. /\ pc[s] = "close" /\ pc'[s] = "idle" /\ \A u \in Threads \ {s} : pc'[u] = pc[u]
      /\ UNCHANGED <<word, fn, done, reported, held, rows, body>>
  BY <1>0 DEF Close, Goto, TypeOK, Threads
<1>2. \A u \in Submitters \ {s} : pc[u] = "idle" /\ pc'[u] = "idle"
  BY <1>1, OthersAreOut DEF Threads
<1>3. /\ \A u \in Submitters : pc'[u] = "idle"
      /\ \A u \in Submitters : ~Draining(u)
  BY <1>1, <1>2 DEF Draining, Inside
<1>4. word.next >= word.n /\ \A t \in Threads : rows[t] = {} /\ pc[t] \notin RowPlaces
  BY <1>0, <1>3 DEF Rest, NothingBetween
<1>5. \A t \in Threads : pc'[t] \notin RowPlaces
  BY <1>1, <1>4 DEF RowPlaces
<1>6. ClaimsAreOfRows' /\ BodyIsOpen' /\ NothingBetween'
  BY <1>0, <1>1, <1>4, <1>5 DEF Rest, ClaimsAreOfRows, BodyIsOpen, NothingBetween, RowPlaces
<1>7. Partition'
  BY <1>0, <1>1, <1>3, <1>4 DEF Rest, Partition, Inside
<1>8. DoneIsExact'
  BY <1>0, <1>1, <1>3 DEF Rest, DoneIsExact
<1> QED  BY <1>6, <1>7, <1>8 DEF Rest

LEMMA NextIsSafe == RowsRunOnce /\ [Next]_vars => RowsRunOnce'
<1> SUFFICES ASSUME RowsRunOnce, [Next]_vars PROVE Rest'
  BY TypeStep, OneSubmitterStep DEF RowsRunOnce, Rest
<1>1. ASSUME NEW t \in Threads, Drain(t) PROVE Rest'
  <2>1. CASE Load(t) \/ ClaimFails(t) \/ Call(t) \/ RunRows(t)
    BY <2>1, DrainIsQuiet, QuietStep
  <2> QED  BY <1>1, <2>1, ClaimStep, ReportStep DEF Drain
<1>2. ASSUME NEW s \in Submitters, Submit(s) PROVE Rest'
  <2>1. CASE Enter(s) \/ Announce(s) \/ Wake(s) \/ Broadcast(s)
    BY <2>1, SubmitIsQuiet, QuietStep
  <2> QED  BY <1>2, <2>1, OpenStep, PublishStep, WaitStep, CloseStep DEF Submit
<1>3. ASSUME NEW w \in Workers, Work(w) \/ SpuriousWakeup(w) PROVE Rest'
  BY <1>3, WorkIsQuiet, QuietStep
<1>4. CASE UNCHANGED vars
  <2>1. Quiet
    BY <1>4 DEF vars, Quiet, Inside, Draining, RowsRunOnce, ClaimsAreOfRows, BodyIsOpen
  <2> QED  BY <2>1, QuietStep
<1> QED  BY <1>1, <1>2, <1>3, <1>4 DEF Next

\* Each row of a region is run once, by the function of that region, and the
\* call returns when all have been (mynah_hostpool_run() and hp_drain()).
THEOREM RowsAreRunOnce == Spec => []RowsRunOnce
<1> QED  BY InitIsSafe, NextIsSafe, PTL DEF Spec
-----------------------------------------------------------------------------
(* Sleeping workers.                                                       *)

\* A worker that enters or leaves the set of parked ones changes its number by one.
LEMMA ParkedByOne ==
  ASSUME TypeOK, NEW w \in Workers,
         \A u \in Workers \ {w} : pc'[u] \in {"check", "decided", "asleep", "woken"}
                                    <=> pc[u] \in {"check", "decided", "asleep", "woken"}
  PROVE  /\ Cardinality(Parked) \in Nat
         /\ w \in Parked /\ w \in Parked' => Cardinality(Parked') = Cardinality(Parked)
         /\ w \notin Parked /\ w \notin Parked' => Cardinality(Parked') = Cardinality(Parked)
         /\ w \notin Parked /\ w \in Parked' => Cardinality(Parked') = Cardinality(Parked) + 1
         /\ w \in Parked /\ w \notin Parked' => Cardinality(Parked') = Cardinality(Parked) - 1
<1>1. IsFiniteSet(Parked)
  BY PoolAssumption, FS_Subset DEF Parked
<1>2. /\ w \in Parked /\ w \in Parked' => Parked' = Parked
      /\ w \notin Parked /\ w \notin Parked' => Parked' = Parked
      /\ w \notin Parked /\ w \in Parked' => Parked' = Parked \cup {w}
      /\ w \in Parked /\ w \notin Parked' => Parked' = Parked \ {w}
  BY DEF Parked
<1>3. /\ w \notin Parked => Cardinality(Parked \cup {w}) = Cardinality(Parked) + 1
      /\ w \in Parked => Cardinality(Parked \ {w}) = Cardinality(Parked) - 1
  BY <1>1, FS_AddElement, FS_RemoveElement
<1> QED  BY <1>1, <1>2, <1>3, FS_CardinalityType

LEMMA SleepInit == Init => NoneLeftAsleep
<1> SUFFICES ASSUME Init PROVE NoneLeftAsleep
  OBVIOUS
<1>1. \A w \in Workers : pc[w] = "start"
  BY DEF Init, Threads
<1>2. Parked = {}
  BY <1>1 DEF Parked
<1>3. parked = 0 /\ mu = Nobody
  BY DEF Init
<1>4. \A w \in Workers : mu # w
  BY <1>3, PoolAssumption
<1> QED  BY <1>1, <1>2, <1>3, <1>4, FS_EmptySet DEF NoneLeftAsleep
\* Steps that leave the mutex, the generation and the count alone, and move no
\* thread into, out of or among the places of a parked worker.
LEMMA AwakeStep ==
  ASSUME NoneLeftAsleep, UNCHANGED <<mu, gen, parked, seen>>,
         \A w \in Workers : \/ pc'[w] = pc[w]
                            \/ /\ pc'[w] \notin {"check", "decided", "asleep", "woken"}
                               /\ pc[w] \notin {"check", "decided", "asleep", "woken"},
         \A s \in Submitters : /\ pc[s] = "wake" => pc'[s] = "wake"
                               /\ pc[s] = "broadcast" => pc'[s] = "broadcast"
  PROVE  NoneLeftAsleep'
<1>1. Parked' = Parked
  BY DEF Parked
<1>2. \A w \in Workers : pc[w] \in {"check", "decided"} <=> pc'[w] \in {"check", "decided"}
  OBVIOUS
<1> QED  BY <1>1, <1>2 DEF NoneLeftAsleep

LEMMA SleepSubmit ==
  ASSUME TypeOK, NoneLeftAsleep, NEW s \in Submitters, Submit(s)
  PROVE  NoneLeftAsleep'
<1>0. Workers \cap Submitters = {}
  BY PoolAssumption
<1>1. CASE Enter(s) \/ Open(s) \/ Publish(s) \/ Wait(s) \/ Close(s)
  <2>1. UNCHANGED <<mu, gen, parked, seen>>
    BY <1>1 DEF Enter, Open, Publish, Wait, Close
  <2>2. pc[s] \notin {"wake", "broadcast"} /\ \A u \in Threads \ {s} : pc'[u] = pc[u]
    BY <1>1 DEF Enter, Open, Publish, Wait, Close, Goto, TypeOK, Threads
  <2> QED  BY <1>0, <2>1, <2>2, AwakeStep DEF Threads
<1>2. CASE Announce(s)
  <2>1. /\ pc'[s] = "wake" /\ \A u \in Threads \ {s} : pc'[u] = pc[u]
        /\ UNCHANGED <<mu, parked, seen>>
    BY <1>2 DEF Announce, Goto, TypeOK, Threads
  <2>2. Parked' = Parked /\ \A w \in Workers : pc'[w] = pc[w]
    BY <1>0, <2>1 DEF Parked, Threads
  <2> QED  BY <2>1, <2>2 DEF NoneLeftAsleep
<1>3. CASE Wake(s)
  <2>1. /\ pc[s] = "wake" /\ pc'[s] = IF parked > 0 THEN "broadcast" ELSE "load"
        /\ mu = Nobody /\ \A u \in Threads \ {s} : pc'[u] = pc[u]
        /\ UNCHANGED <<mu, gen, parked, seen>>
    BY <1>3 DEF Wake, Goto, TypeOK, Threads
  <2>2. Parked' = Parked /\ \A w \in Workers : pc'[w] = pc[w]
    BY <1>0, <2>1 DEF Parked, Threads
  <2>3. \A w \in Workers : pc[w] \notin {"check", "decided"}
    BY <2>1, PoolAssumption DEF NoneLeftAsleep
  <2>4. ASSUME NEW w \in Workers, pc[w] = "asleep" PROVE parked > 0
    <3>1. w \in Parked
      BY <2>4 DEF Parked
    <3>2. IsFiniteSet(Parked)
      BY PoolAssumption, FS_Subset DEF Parked
    <3> QED  BY <3>1, <3>2, FS_EmptySet, FS_CardinalityType DEF NoneLeftAsleep
  <2> QED  BY <2>1, <2>2, <2>3, <2>4 DEF NoneLeftAsleep
<1>4. CASE Broadcast(s)
  <2>1. /\ pc'[s] = "load"
        /\ \A u \in Threads \ {s} : pc'[u] = IF pc[u] = "asleep" THEN "woken" ELSE pc[u]
        /\ UNCHANGED <<mu, gen, parked, seen>>
    BY <1>4 DEF Broadcast, Threads
  <2>2. \A w \in Workers : pc'[w] = IF pc[w] = "asleep" THEN "woken" ELSE pc[w]
    BY <1>0, <2>1 DEF Threads
  <2>3. Parked' = Parked
    BY <2>2 DEF Parked
  <2>4. \A u \in Submitters : pc[u] = "wake" => pc'[u] = "wake"
    <3>1. pc[s] = "broadcast"
      BY <1>4 DEF Broadcast
    <3> QED  BY <2>1, <3>1 DEF Threads
  <2> QED  BY <2>1, <2>2, <2>3, <2>4 DEF NoneLeftAsleep
<1> QED  BY <1>1, <1>2, <1>3, <1>4 DEF Submit

LEMMA SleepWork ==
  ASSUME TypeOK, NoneLeftAsleep, NEW w \in Workers, Work(w) \/ SpuriousWakeup(w)
  PROVE  NoneLeftAsleep'
<1>0. Workers \cap Submitters = {} /\ w \in Threads /\ w # Nobody
  BY PoolAssumption DEF Threads
<1>1. \A u \in Threads \ {w} : pc'[u] = pc[u]
  <2>1. CASE Begin(w) \/ Notice(w) \/ Check(w) \/ SpuriousWakeup(w)
    BY <2>1 DEF Begin, Notice, Check, SpuriousWakeup, Goto, TypeOK
  <2>2. CASE Park(w) \/ Relock(w) \/ Sleep(w) \/ Unpark(w)
    BY <2>2 DEF Park, Relock, Sleep, Unpark, Goto, TypeOK
  <2> QED  BY <2>1, <2>2 DEF Work
<1>2. gen' = gen /\ \A u \in Workers \ {w} : seen'[u] = seen[u] /\ pc'[u] = pc[u]
  <2>1. gen' = gen /\ \A u \in Workers \ {w} : seen'[u] = seen[u]
    BY DEF TypeOK, Work, Begin, Notice, Park, Check, Sleep, Relock, Unpark, SpuriousWakeup
  <2> QED  BY <1>1, <2>1 DEF Threads
<1>3. \A s \in Submitters : pc'[s] = pc[s]
  BY <1>0, <1>1 DEF Threads
<1>4. /\ Cardinality(Parked) \in Nat
      /\ w \in Parked /\ w \in Parked' => Cardinality(Parked') = Cardinality(Parked)
      /\ w \notin Parked /\ w \notin Parked' => Cardinality(Parked') = Cardinality(Parked)
      /\ w \notin Parked /\ w \in Parked' => Cardinality(Parked') = Cardinality(Parked) + 1
      /\ w \in Parked /\ w \notin Parked' => Cardinality(Parked') = Cardinality(Parked) - 1
  BY <1>2, ParkedByOne
<1>5. /\ w \in Parked <=> pc[w] \in {"check", "decided", "asleep", "woken"}
      /\ w \in Parked' <=> pc'[w] \in {"check", "decided", "asleep", "woken"}
  BY DEF Parked
<1>6. CASE Begin(w) \/ Notice(w)
  <2>1. pc[w] \in {"start", "look"} /\ pc'[w] \in {"look", "load"} /\ UNCHANGED <<mu, parked>>
    BY <1>0, <1>6 DEF Begin, Notice, Goto, TypeOK
  <2> QED  BY <1>2, <1>3, <1>4, <1>5, <2>1 DEF NoneLeftAsleep
<1>7. CASE Park(w)
  <2>1. /\ pc[w] = "look" /\ pc'[w] = "check" /\ mu = Nobody /\ mu' = w
        /\ parked' = parked + 1 /\ UNCHANGED seen
    BY <1>0, <1>7 DEF Park, Goto, TypeOK
  <2>2. \A u \in Workers \ {w} : pc[u] \notin {"check", "decided"}
    BY <2>1, PoolAssumption DEF NoneLeftAsleep
  <2> QED  BY <1>2, <1>3, <1>4, <1>5, <2>1, <2>2 DEF NoneLeftAsleep
<1>8. CASE Check(w)
  <2>1. /\ pc[w] = "check" /\ pc'[w] = "decided" /\ gen = seen[w] /\ UNCHANGED <<mu, parked, seen>>
    BY <1>0, <1>8 DEF Check, Goto, TypeOK
  <2> QED  BY <1>2, <1>3, <1>4, <1>5, <2>1 DEF NoneLeftAsleep
<1>9. CASE Sleep(w)
  <2>1. /\ pc[w] = "decided" /\ pc'[w] = "asleep" /\ mu' = Nobody /\ UNCHANGED <<parked, seen>>
    BY <1>0, <1>9 DEF Sleep, Goto, TypeOK
  <2>2. mu = w /\ \A u \in Workers : mu' # u
    BY <2>1, PoolAssumption DEF NoneLeftAsleep
  <2> QED  BY <1>2, <1>3, <1>4, <1>5, <2>1, <2>2 DEF NoneLeftAsleep
<1>10. CASE SpuriousWakeup(w)
  <2>1. pc[w] = "asleep" /\ pc'[w] = "woken" /\ UNCHANGED <<mu, parked, seen>>
    BY <1>0, <1>10 DEF SpuriousWakeup, Goto, TypeOK
  <2> QED  BY <1>2, <1>3, <1>4, <1>5, <2>1 DEF NoneLeftAsleep
<1>11. CASE Relock(w)
  <2>1. /\ pc[w] = "woken" /\ pc'[w] = "check" /\ mu = Nobody /\ mu' = w
        /\ UNCHANGED <<parked, seen>>
    BY <1>0, <1>11 DEF Relock, Goto, TypeOK
  <2>2. \A u \in Workers \ {w} : pc[u] \notin {"check", "decided"}
    BY <2>1, PoolAssumption DEF NoneLeftAsleep
  <2> QED  BY <1>2, <1>3, <1>4, <1>5, <2>1, <2>2 DEF NoneLeftAsleep
<1>12. CASE Unpark(w)
  <2>1. /\ pc[w] = "check" /\ pc'[w] = "load" /\ mu' = Nobody /\ parked' = parked - 1
    BY <1>0, <1>12 DEF Unpark, Goto, TypeOK
  <2>2. mu = w /\ \A u \in Workers : mu' # u
    BY <2>1, PoolAssumption DEF NoneLeftAsleep
  <2> QED  BY <1>2, <1>3, <1>4, <1>5, <2>1, <2>2 DEF NoneLeftAsleep
<1> QED  BY <1>6, <1>7, <1>8, <1>9, <1>10, <1>11, <1>12 DEF Work

LEMMA SleepDrain ==
  ASSUME TypeOK, NoneLeftAsleep, NEW t \in Threads, Drain(t)
  PROVE  NoneLeftAsleep'
<1>0. Workers \cap Submitters = {}
  BY PoolAssumption
<1>1. UNCHANGED <<mu, gen, parked, seen>>
  BY DEF Drain, Load, Claim, ClaimFails, Call, RunRows, ReportRows
<1>2. /\ pc[t] \in DrainPlaces /\ pc'[t] \in DrainPlaces \cup {"look", "wait"}
      /\ \A u \in Threads \ {t} : pc'[u] = pc[u]
  BY DEF Drain, Load, Claim, ClaimFails, Call, RunRows, ReportRows, Goto, TypeOK,
         DrainPlaces, ClaimPlaces, RowPlaces
<1>3. \A w \in Workers : \/ pc'[w] = pc[w]
                         \/ /\ pc'[w] \notin {"check", "decided", "asleep", "woken"}
                            /\ pc[w] \notin {"check", "decided", "asleep", "woken"}
  BY <1>2 DEF Threads, DrainPlaces, ClaimPlaces, RowPlaces
<1>4. \A s \in Submitters : /\ pc[s] = "wake" => pc'[s] = "wake"
                            /\ pc[s] = "broadcast" => pc'[s] = "broadcast"
  BY <1>2 DEF Threads, DrainPlaces, ClaimPlaces, RowPlaces
<1> QED  BY <1>1, <1>3, <1>4, AwakeStep

LEMMA SleepStep == RowsRunOnce /\ NoneLeftAsleep /\ [Next]_vars => NoneLeftAsleep'
<1> SUFFICES ASSUME RowsRunOnce, NoneLeftAsleep, [Next]_vars PROVE NoneLeftAsleep'
  OBVIOUS
<1>1. TypeOK
  BY DEF RowsRunOnce
<1>2. CASE UNCHANGED vars
  BY <1>2 DEF vars, NoneLeftAsleep, Parked
<1> QED  BY <1>1, <1>2, SleepSubmit, SleepWork, SleepDrain DEF Next

\* No worker sleeps through a region: the generation is changed without the mutex
\* and the count of sleepers read under it, as hp_worker() and
\* mynah_hostpool_run() do.
THEOREM NobodySleepsThrough == Spec => []NoneLeftAsleep
<1> QED  BY SleepInit, SleepStep, RowsAreRunOnce, PTL DEF Spec
-----------------------------------------------------------------------------
(* The refinement.                                                         *)

Todo == IF Within THEN Numbers(word.n) \ Claimed ELSE {}
Doing == [t \in Threads |-> IF pc[t] \in {"call", "body"} THEN rows[t] ELSE {}]

LEMMA RegionInit == Init => Promise!Init
<1> SUFFICES ASSUME Init PROVE Promise!Init
  OBVIOUS
<1>1. \A s \in Submitters : pc[s] = "idle"
  BY PoolAssumption DEF Init, Threads
<1>2. \A t \in Threads : pc[t] \notin {"call", "body"}
  BY DEF Init
<1>3. ~Within
  BY <1>1 DEF Within, Inside
<1>4. Doing = [t \in Threads |-> {}]
  BY <1>2 DEF Doing
<1> QED  BY <1>3, <1>4 DEF Promise!Init, Promise!NobodyRuns, Doing

\* A step that neither opens, closes, claims nor ends rows is a stutter.
LEMMA Stutter ==
  ASSUME Within' <=> Within, word' = word,
         \A t \in Threads : pc'[t] \in {"call", "body"} <=> pc[t] \in {"call", "body"},
         \A t \in Threads : pc[t] \in {"call", "body"} => rows'[t] = rows[t]
  PROVE  UNCHANGED Promise!vars
<1>1. Claimed' = Claimed /\ Numbers(word.n)' = Numbers(word.n)
  BY DEF Claimed, Numbers
<1>2. Todo' = Todo
  BY <1>1 DEF Todo
<1>3. Doing' = Doing
  BY DEF Doing
<1>4. Within' = Within
  OBVIOUS
<1> QED  BY <1>2, <1>3, <1>4 DEF Promise!vars, Todo, Doing

LEMMA RegionStutters ==
  ASSUME RowsRunOnce, [Next]_vars,
         \A t \in Threads : ~Claim(t) /\ ~RunRows(t),
         \A s \in Submitters : ~Publish(s) /\ ~Close(s)
  PROVE  UNCHANGED Promise!vars
<1>0. TypeOK /\ Rest /\ Workers \cap Submitters = {}
  BY PoolAssumption DEF RowsRunOnce, Rest
<1>1. ASSUME NEW t \in Threads, Drain(t) PROVE UNCHANGED Promise!vars
  <2>1. /\ word' = word /\ \A u \in Threads \ {t} : pc'[u] = pc[u] /\ rows'[u] = rows[u]
        /\ pc[t] \in {"load", "claim"} => pc'[t] \notin {"call", "body"}
        /\ pc[t] = "call" => pc'[t] = "body"
        /\ pc[t] = "report" => pc'[t] = "load"
        /\ pc[t] \in {"load", "claim", "call", "report"}
        /\ pc[t] = "call" => rows'[t] = rows[t]
        /\ pc'[t] \notin {"idle", "open", "publish"}
    BY <1>0, <1>1 DEF Drain, Load, ClaimFails, Call, ReportRows, Goto, TypeOK
  <2>2. Within' <=> Within
    BY <2>1 DEF Within, Inside, Threads
  <2> QED  BY <2>1, <2>2, Stutter
<1>2. ASSUME NEW s \in Submitters, Submit(s) PROVE UNCHANGED Promise!vars
  <2>1. word' = word /\ rows' = rows
    BY <1>2 DEF Submit, Enter, Open, Announce, Wake, Broadcast, Wait
  <2>2. /\ pc[s] \notin {"call", "body"} /\ pc'[s] \notin {"call", "body"}
        /\ pc[s] \in {"idle", "open"} => pc'[s] \in {"open", "publish"}
        /\ pc[s] \notin {"idle", "open"} => /\ pc[s] # "publish"
                                            /\ pc'[s] \notin {"idle", "open", "publish"}
    BY <1>0, <1>2 DEF Submit, Enter, Open, Announce, Wake, Broadcast, Wait, Goto, TypeOK, Threads
  <2>3. \A u \in Threads \ {s} : \/ pc'[u] = pc[u]
                                 \/ u \in Workers /\ pc[u] = "asleep" /\ pc'[u] = "woken"
    <3>1. CASE Broadcast(s)
      BY <1>0, <3>1 DEF Broadcast, TypeOK, Threads, SubmitPlaces, DrainPlaces, ClaimPlaces, RowPlaces
    <3> QED  BY <1>0, <1>2, <3>1 DEF Submit, Enter, Open, Announce, Wake, Wait, Goto, TypeOK
  <2>4. Within' <=> Within
    <3>1. \A u \in Submitters \ {s} : pc'[u] = pc[u]
      BY <1>0, <2>3 DEF Threads
    <3> QED  BY <2>2, <3>1 DEF Within, Inside
  <2> QED  BY <2>1, <2>2, <2>3, <2>4, Stutter
<1>3. ASSUME NEW w \in Workers, Work(w) \/ SpuriousWakeup(w) PROVE UNCHANGED Promise!vars
  <2>1. /\ word' = word /\ rows' = rows /\ \A u \in Threads \ {w} : pc'[u] = pc[u]
        /\ pc[w] \notin {"call", "body"} /\ pc'[w] \notin {"call", "body"}
    <3>1. CASE Begin(w) \/ Notice(w) \/ Check(w) \/ SpuriousWakeup(w)
      BY <1>0, <3>1 DEF Begin, Notice, Check, SpuriousWakeup, Goto, TypeOK, Threads
    <3>2. CASE Park(w) \/ Relock(w) \/ Sleep(w) \/ Unpark(w)
      BY <1>0, <3>2 DEF Park, Relock, Sleep, Unpark, Goto, TypeOK, Threads
    <3> QED  BY <1>3, <3>1, <3>2 DEF Work
  <2>2. Within' <=> Within
    BY <1>0, <2>1 DEF Within, Inside, Threads
  <2> QED  BY <2>1, <2>2, Stutter
<1>4. CASE UNCHANGED vars
  BY <1>4, Stutter DEF vars, Within, Inside
<1> QED  BY <1>1, <1>2, <1>3, <1>4 DEF Next

\* Publishing is where the region begins ...
LEMMA RegionBegins ==
  ASSUME RowsRunOnce, NEW s \in Submitters, Publish(s)
  PROVE  Promise!Begin
<1>1. /\ pc'[s] = "announce"
      /\ \A u \in Submitters : ~Inside(u)
      /\ \A t \in Threads : rows[t] = {} /\ pc[t] \notin RowPlaces /\ pc'[t] \notin RowPlaces
      /\ word'.next = 0 /\ word'.n \in 1..MaxRows
  BY PublishFacts
<1>2. ~Within /\ Within'
  BY <1>1 DEF Within, Inside
<1>3. Todo' \in (SUBSET Numbers(MaxRows)) \ {{}}
  <2>1. Todo' = Numbers(word.n)' \ Claimed'
    BY <1>2 DEF Todo
  <2>2. Claimed' = {} /\ 0 \in Numbers(word.n)' /\ Numbers(word.n)' \subseteq Numbers(MaxRows)
    BY <1>1, PoolAssumption DEF Claimed, Numbers
  <2> QED  BY <2>1, <2>2
<1>4. Doing = [t \in Threads |-> {}] /\ Doing' = Doing
  BY <1>1 DEF Doing, RowPlaces
<1> QED  BY <1>2, <1>3, <1>4 DEF Promise!Begin, Promise!NobodyRuns, Todo, Doing

\* ... a claim is where rows of it begin ...
LEMMA RowsBegin ==
  ASSUME RowsRunOnce, NEW t \in Threads, Claim(t)
  PROVE  Promise!Start(t)
<1>0. TypeOK /\ Rest
  BY DEF RowsRunOnce, Rest
<1>1. /\ word \in Word /\ word.next < word.n /\ word.chunk > 0
      /\ word'.n = word.n /\ word'.next = word.next + word.chunk
      /\ rows' = [rows EXCEPT ![t] = ClaimedRows(word)]
  BY ClaimFacts
<1>2. word.next \in Nat /\ word.n \in Nat /\ word.chunk \in Nat
  BY <1>1 DEF Word, Field
<1>3. /\ \A i \in ClaimedRows(word) : i \in Nat /\ word.next <= i /\ i < word.n
                                        /\ i < word.next + word.chunk
      /\ \A i \in Nat : word.next <= i /\ i < word.n /\ i < word.next + word.chunk
                          => i \in ClaimedRows(word)
      /\ word.next \in ClaimedRows(word)
  BY <1>1, ClaimedRowsBound DEF Field
<1>4. PICK s \in Submitters : Draining(s)
  BY <1>1, SomebodyDrains
<1>5. pc[t] = "claim" /\ pc'[t] = "call" /\ \A u \in Threads \ {t} : pc'[u] = pc[u]
  BY <1>0 DEF Claim, Goto, TypeOK
<1>6. Within /\ Within'
  <2>1. Inside(s) /\ Inside(s)'
    BY <1>4, <1>5 DEF Draining, Inside, Threads
  <2> QED  BY <2>1 DEF Within
<1>7. ClaimedRows(word) \in (SUBSET Todo) \ {{}} /\ Todo' = Todo \ ClaimedRows(word)
  <2>1. \A i : i \in Todo <=> i \in Nat /\ word.next <= i /\ i < word.n
    BY <1>2, <1>6 DEF Todo, Claimed, Numbers
  <2>2. \A i : i \in Todo' <=> i \in Nat /\ word.next + word.chunk <= i /\ i < word.n
    BY <1>1, <1>2, <1>6 DEF Todo, Claimed, Numbers
  <2>3. \A i : i \in Todo' <=> i \in Todo /\ i \notin ClaimedRows(word)
    BY <1>2, <1>3, <2>1, <2>2
  <2> QED  BY <1>3, <2>1, <2>3
<1>8. Doing[t] = {} /\ Doing' = [Doing EXCEPT ![t] = ClaimedRows(word)]
  <2>1. \A u \in Threads : Doing'[u] = IF u = t THEN ClaimedRows(word) ELSE Doing[u]
    BY <1>0, <1>1, <1>5 DEF Doing, TypeOK
  <2> QED  BY <1>5, <2>1 DEF Doing
<1> QED  BY <1>6, <1>7, <1>8 DEF Promise!Start, Todo, Doing

\* ... and the end of the function's loop over them is where they end ...
LEMMA RowsEnd ==
  ASSUME RowsRunOnce, NEW t \in Threads, RunRows(t)
  PROVE  Promise!Finish(t)
<1>0. TypeOK /\ Rest
  BY DEF RowsRunOnce, Rest
<1>1. /\ pc[t] = "body" /\ pc'[t] = "report" /\ \A u \in Threads \ {t} : pc'[u] = pc[u]
      /\ word' = word /\ rows' = rows
  BY <1>0 DEF RunRows, Goto, TypeOK
<1>2. rows[t] # {}
  BY <1>0, <1>1 DEF Rest, ClaimsAreOfRows, RowPlaces
<1>3. Within' = Within
  BY <1>1 DEF Within, Inside, Threads
<1>4. Todo' = Todo
  BY <1>1, <1>3 DEF Todo, Claimed, Numbers
<1>5. Doing[t] # {} /\ Doing' = [Doing EXCEPT ![t] = {}]
  BY <1>1, <1>2 DEF Doing
<1> QED  BY <1>3, <1>4, <1>5 DEF Promise!Finish, Todo, Doing

\* ... and the region returns when its submitter lets the team go.
LEMMA RegionReturns ==
  ASSUME RowsRunOnce, NEW s \in Submitters, Close(s)
  PROVE  Promise!Return
<1>0. TypeOK /\ Rest
  BY DEF RowsRunOnce, Rest
<1>1. /\ pc[s] = "close" /\ pc'[s] = "idle" /\ \A u \in Threads \ {s} : pc'[u] = pc[u]
      /\ word' = word /\ rows' = rows
  BY <1>0 DEF Close, Goto, TypeOK, Threads
<1>2. \A u \in Submitters \ {s} : pc[u] = "idle" /\ pc'[u] = "idle"
  BY <1>1, OthersAreOut DEF Threads
<1>3. /\ \A u \in Submitters : ~Draining(u)
      /\ Within /\ ~Within'
  BY <1>1, <1>2 DEF Draining, Inside, Within
<1>4. word.next >= word.n /\ \A t \in Threads : rows[t] = {}
  BY <1>0, <1>3 DEF Rest, NothingBetween
<1>5. Todo = {} /\ Todo' = {}
  <2>1. Claimed = Numbers(word.n)
    BY <1>0, <1>4 DEF Claimed, TypeOK, Word, Field
  <2> QED  BY <1>3, <2>1 DEF Todo
<1>6. Doing = [t \in Threads |-> {}] /\ Doing' = Doing
  BY <1>1, <1>4 DEF Doing
<1> QED  BY <1>3, <1>5, <1>6 DEF Promise!Return, Promise!NobodyRuns, Todo, Doing

LEMMA RegionStep == RowsRunOnce /\ [Next]_vars => [Promise!Next]_(Promise!vars)
<1> SUFFICES ASSUME RowsRunOnce, [Next]_vars
             PROVE  Promise!Next \/ UNCHANGED Promise!vars
  OBVIOUS
<1>1. ASSUME NEW t \in Threads, Claim(t) PROVE Promise!Next
  BY <1>1, RowsBegin DEF Promise!Next
<1>2. ASSUME NEW t \in Threads, RunRows(t) PROVE Promise!Next
  BY <1>2, RowsEnd DEF Promise!Next
<1>3. ASSUME NEW s \in Submitters, Publish(s) PROVE Promise!Next
  BY <1>3, RegionBegins DEF Promise!Next
<1>4. ASSUME NEW s \in Submitters, Close(s) PROVE Promise!Next
  BY <1>4, RegionReturns DEF Promise!Next
<1> QED  BY <1>1, <1>2, <1>3, <1>4, RegionStutters

\* To whoever calls mynah_hostpool_run() the team is a loop: each row is run by
\* one thread, once, and the call returns when all have been.
THEOREM TeamIsALoop == Spec => ImplementsRegion
<1> QED  BY RegionInit, RegionStep, RowsAreRunOnce, PTL DEF Spec, ImplementsRegion, Promise!Spec
=============================================================================
