------------------------------ MODULE SlotPool ------------------------------
(***************************************************************************)
(* The CUDA resource sets a retired request parks and the next one takes   *)
(* (src/engine_pocket.c, MYNAH_CUDA_SLOT_POOL with MYNAH_CUDA_SLOT_FIXED   *)
(* and MYNAH_CUDA_DEFERRED_RELEASE, the defaults).  A set brings a         *)
(* backbone KV cache and pinned host staging; caches also move between     *)
(* sets, rows and a short list of spares, so that admission and growth     *)
(* rarely allocate or free.  The pool counts the caches it calls fixed.    *)
(*                                                                         *)
(* One action per call of the engine: contexts are made, stepped and freed *)
(* by the scheduler thread.  A cache is its size in stored positions, 0    *)
(* where there is none; the other buffers of a set follow its staging.     *)
(***************************************************************************)
EXTENDS Integers, Sequences, FiniteSets

CONSTANTS
  Rows,        \* the contexts that may exist at once
  Shapes,      \* what a text may ask for: [floor, est, top]
  FirstSize,   \* the fixed size the engine starts with
  LaterSizes,  \* the sizes it may move to once it is serving
  Chunk,       \* POCKET_CUDA_KV_GROW_CHUNK
  PoolCap,     \* POCKET_CUDA_SLOT_POOL_CAP
  SpareMax,    \* cuda_slot_spare_max
  Reserve,     \* cuda_slot_spare_reserve
  FirstCap,    \* the load-time cap on fixed caches
  PlanRows,    \* cuda_slot_fixed_rows
  Budgets,     \* bound: the caches a re-plan finds memory for
  Marks        \* the start-up marks of a server, and bound

ASSUME SlotAssumption ==
  /\ IsFiniteSet(Rows) /\ IsFiniteSet(Shapes) /\ IsFiniteSet(LaterSizes)
  /\ FirstSize \in Nat \ {0} /\ LaterSizes \subseteq Nat \ {0}
  /\ Chunk \in Nat \ {0} /\ Budgets \subseteq Nat
  /\ {PoolCap, SpareMax, Reserve, FirstCap, PlanRows, Marks} \subseteq Nat
  /\ \A s \in Shapes :
       /\ s = [floor |-> s.floor, est |-> s.est, top |-> s.top]
       /\ {s.floor, s.est, s.top} \subseteq Nat \ {0}
       /\ s.floor < s.est /\ s.est <= s.top

VARIABLES
  pool,  \* the model's pool: its lists, its counts and its plan
  row,   \* the contexts
  marks  \* start-up marks so far

vars == <<pool, row, marks>>

NoShape == [floor |-> 0, est |-> 0, top |-> 0]
NoRow == [at |-> "none", kv |-> 0, fixed |-> FALSE, busy |-> FALSE,
          need |-> NoShape, used |-> 0]

Init ==
  /\ pool = [sets |-> <<>>, spares |-> <<>>, live |-> 0, made |-> 0, cap |-> FirstCap,
             size |-> FirstSize, moved |-> FALSE, mark |-> 0, open |-> TRUE]
  /\ row = [r \in Rows |-> NoRow]
  /\ marks = 0

----------------------------------------------------------------------------
(* The counts.  `made' is what the device holds: one per allocation,       *)
(* less one per free.                                                      *)

Indices(s) == 1..Len(s)
Gone(p) == [p EXCEPT !.live = @ - 1]
Adopt(p) == [p EXCEPT !.live = @ + 1]
Allocated(p) == [p EXCEPT !.made = @ + 1]
Freed(p) == [p EXCEPT !.made = @ - 1]
FreedIf(p, kv) == IF kv > 0 THEN Freed(p) ELSE p
GoneIf(p, fixed) == IF fixed THEN Gone(p) ELSE p
\* Mutant: a plain cache set aside is not counted.
CountedAsItWas(p, fixed) == p
Counted(p, fixed) == IF fixed THEN p ELSE Adopt(p)

\* A drain of the stream: nothing queued refers to a parked set, or a row.
Quiet(p) == [p EXCEPT !.sets = [i \in Indices(p.sets) |-> [p.sets[i] EXCEPT !.busy = FALSE]]]
QuietRows == [q \in Rows |-> [row[q] EXCEPT !.busy = FALSE]]

Band(p) == p.size + Chunk
Least(S) == CHOOSE x \in S : \A y \in S : x <= y
Most(S) == CHOOSE x \in S : \A y \in S : x >= y
Without(s, i) == SubSeq(s, 1, i - 1) \o SubSeq(s, i + 1, Len(s))
AtLeast(a, b) == IF a >= b THEN a ELSE b

\* A fixed cache set aside: into the first parked set without one, else onto
\* the spare list, where a node for it can be allocated.
Holes(p) == {i \in Indices(p.sets) : p.sets[i].kv = 0}
Placed(p, node) == Holes(p) # {} \/ (node /\ Len(p.spares) < SpareMax)
Stash(p, kv) ==
  IF Holes(p) # {}
    THEN [p EXCEPT !.sets[Least(Holes(p))].kv = kv, !.sets[Least(Holes(p))].fixed = TRUE]
    ELSE [p EXCEPT !.spares = <<kv>> \o @]
StashOrFree(p, kv, node) == IF Placed(p, node) THEN Stash(p, kv) ELSE Gone(Freed(p))

\* The spare that holds `want' most tightly, else the largest that holds
\* `least'; 0 where there is none.
Spare(p, least, want) ==
  LET Big == {i \in Indices(p.spares) : p.spares[i] >= least}
      Full == {i \in Big : p.spares[i] >= want}
      Tight == {i \in Full : \A j \in Full : p.spares[i] <= p.spares[j]}
      Large == {i \in Big : \A j \in Big : p.spares[i] >= p.spares[j]}
  IN IF Full # {} THEN Least(Tight) ELSE IF Big # {} THEN Least(Large) ELSE 0
SpareTaken(p, i) == [p EXCEPT !.spares = Without(@, i)]

\* The parked set whose fixed cache holds `least' most tightly; 0 if none.
Donor(p, least) ==
  LET Can == {i \in Indices(p.sets) : p.sets[i].fixed /\ p.sets[i].kv >= least}
  IN IF Can = {} THEN 0
     ELSE Least({i \in Can : \A j \in Can : p.sets[i].kv <= p.sets[j].kv})
Donated(p, i) == [p EXCEPT !.sets[i].kv = 0, !.sets[i].fixed = FALSE]

----------------------------------------------------------------------------
(* The re-plan at the first admission after a start-up mark.               *)

Kept(p, s) == s.kv >= p.size /\ s.kv <= Band(p)
Sorted(p, s) ==
  IF s.kv = 0 \/ Kept(p, s) THEN [s EXCEPT !.fixed = s.kv > 0]
  ELSE [s EXCEPT !.kv = 0, !.fixed = FALSE]

\* Parked caches of about the fixed size are counted as fixed, the others freed.
Stocked(s) == {i \in Indices(s) : s[i].kv > 0}
FixedIn(s) == {i \in Indices(s) : s[i].fixed}
Swept(p) ==
  LET kept == {i \in Stocked(p.sets) : Kept(p, p.sets[i])}
      freed == Stocked(p.sets) \ kept
  IN [p EXCEPT !.made = @ - Cardinality(freed),
               !.live = @ + Cardinality(kept \ FixedIn(p.sets))
                          - Cardinality(freed \cap FixedIn(p.sets)),
               !.sets = [i \in Indices(p.sets) |-> Sorted(p, p.sets[i])]]

\* One cache made and parked, under the cap.
Make(p, kv) ==
  IF p.live < p.cap /\ Placed(p, TRUE) THEN Stash(Adopt(Allocated(p)), kv) ELSE p
MakeSome(p, n, kv) ==
  LET f[i \in 0..n] == IF i = 0 THEN p ELSE Make(f[i-1], kv) IN f[n]

Refit(p, budget) ==
  LET fit == p.live + budget
      limit == PlanRows + Reserve
  IN IF fit < limit THEN fit ELSE limit

\* Caches for h parked sets without one, then n spares.
Stocks(p, h, n) == MakeSome(MakeSome(p, h, p.size), n, Band(p))

\* What the re-plan may do: it finds room for `budget' caches, and either
\* loop of makes may stop early.
Replans(p) ==
  LET swept == [Swept(Quiet(p)) EXCEPT !.mark = marks]
      toMake == IF Reserve > Len(p.spares) THEN Reserve - Len(p.spares) ELSE 0
  IN {swept} \cup {Stocks([swept EXCEPT !.cap = Refit(swept, budget)], h, n) :
                     budget \in Budgets, h \in 0..Cardinality(Holes(swept)), n \in 0..toMake}

\* The fixed size moves once, after enough requests were served.
Adapts(p) ==
  {p} \cup (IF p.moved \/ p.mark < Marks THEN {}
            ELSE {[p EXCEPT !.size = s, !.moved = TRUE] : s \in LaterSizes})

----------------------------------------------------------------------------
(* Admission.                                                              *)

Growable(shape) == shape.est < shape.top
KvFits(have, need, bounded) == have >= need /\ (bounded => have <= 2 * need)

\* Which parked set an admission takes: 0 when the pool is empty.  Among
\* equal fixed caches the one parked first, among others the one parked last.
Pick(p, shape) ==
  LET kv(i) == p.sets[i].kv
      Fixed == {i \in Indices(p.sets) : Growable(shape) /\ p.sets[i].fixed}
      Holding == {i \in Fixed : kv(i) >= shape.est}
      Fitting == {i \in Indices(p.sets) : KvFits(kv(i), shape.est, Growable(shape))}
  IN CASE Holding # {} -> Most({i \in Holding : \A j \in Holding : kv(i) <= kv(j)})
       [] Holding = {} /\ Fixed # {} -> Most({i \in Fixed : \A j \in Fixed : kv(i) >= kv(j)})
       [] Fixed = {} /\ Fitting # {} ->
            Least({i \in Fitting : \A j \in Fitting : kv(i) <= kv(j)})
       [] Fixed = {} /\ Fitting = {} /\ p.sets # <<>> ->
            Least({i \in Indices(p.sets) : \A j \in Indices(p.sets) : kv(i) >= kv(j)})
       [] OTHER -> 0

\* Mutant: the fence is waited on only where a cache may be freed or resized.
SettledWithCache(s) == [s EXCEPT !.busy = @ /\ ~(s.fence /\ s.kv > 0)]

\* pocket_ctx_pinned: the pool is re-planned where a mark is due, then a set
\* is taken and its fence waited on before the host zeroes its staging.
Settled(s) == [s EXCEPT !.busy = @ /\ ~s.fence]
Take(r) ==
  /\ pool.open /\ row[r].at = "none"
  /\ \E shape \in Shapes :
     \E planned \in (IF pool.mark = marks THEN {pool} ELSE Replans(pool)) :
     \E p \in Adapts(planned) :
       LET i == Pick(p, shape)
           s == Settled(p.sets[i])
           empty == [NoRow EXCEPT !.at = "taken", !.need = shape]
           drained == IF pool.mark = marks THEN row ELSE QuietRows
       IN IF i = 0
            THEN /\ pool' = p
                 /\ row' = [drained EXCEPT ![r] = empty]
            ELSE /\ pool' = [p EXCEPT !.sets = Without(@, i)]
                 /\ row' = [drained EXCEPT ![r] = [empty EXCEPT !.kv = s.kv, !.fixed = s.fixed,
                                                               !.busy = s.busy]]
  /\ UNCHANGED marks

\* What a row may start on: voice, text and the first step.
StartsOn(kv, shape) == Growable(shape) /\ kv >= shape.floor + 1
KeepsCache(kv, shape) ==
  kv > 0 /\ (StartsOn(kv, shape) \/ KvFits(kv, shape.est, Growable(shape)))

\* The outcomes of pocket_cuda_backbone_alloc for a row that holds no cache:
\* a spare; else, under the cap and the memory floor, a new fixed cache; else
\* a plain one; else none, and the row runs on the CPU.
Provided(p, shape) ==
  LET i == IF Growable(shape) THEN Spare(p, shape.floor + 1, shape.est) ELSE 0
      fresh == AtLeast(p.size, shape.est)
      Plain == {[p |-> Allocated(p), kv |-> shape.est, fixed |-> FALSE],
                [p |-> p, kv |-> 0, fixed |-> FALSE]}
  IN IF i > 0 THEN {[p |-> SpareTaken(p, i), kv |-> p.spares[i], fixed |-> TRUE]}
     ELSE Plain \cup (IF Growable(shape) /\ p.live < p.cap
                        THEN {[p |-> Adopt(Allocated(p)), kv |-> fresh, fixed |-> TRUE]}
                        ELSE {})

Seats(p, c, node) ==
  IF KeepsCache(c.kv, c.need) THEN {[p |-> p, kv |-> c.kv, fixed |-> c.fixed]}
  ELSE Provided(CASE c.kv = 0 -> p
                  [] c.kv > 0 /\ Growable(c.need) ->
                       StashOrFree(Counted(p, c.fixed), c.kv, node)
                  [] OTHER -> GoneIf(Freed(p), c.fixed), c.need)

\* The row's other buffers come after its cache: where one cannot be had, or
\* a used cache cannot be zeroed, the cache is freed again.
Unseated(o) == [p |-> GoneIf(FreedIf(o.p, o.kv), o.fixed), kv |-> 0, fixed |-> FALSE]
OrUnseated(outcomes) == outcomes \cup {Unseated(o) : o \in outcomes}

\* pocket_ctx_device.
Seat(r) ==
  /\ row[r].at = "taken"
  /\ \E node \in BOOLEAN : \E o \in OrUnseated(Seats(pool, row[r], node)) :
       /\ pool' = o.p
       /\ row' = [row EXCEPT ![r].at = "seated", ![r].kv = o.kv, ![r].fixed = o.fixed,
                             ![r].used = row[r].need.floor]
  /\ UNCHANGED marks

\* A session's text grows before its first step: the cache is given up and
\* one is taken for the larger text, unless the row is on the CPU for good.
Reseats(c, shape) ==
  IF c.kv = 0 THEN {[p |-> pool, kv |-> 0, fixed |-> FALSE]}
  ELSE OrUnseated(Provided(GoneIf(Freed(pool), c.fixed), shape))
ReserveText(r) ==
  /\ row[r].at = "seated" /\ row[r].used = row[r].need.floor
  /\ \E shape \in Shapes :
       /\ shape.floor > row[r].need.floor
       /\ \E o \in Reseats(row[r], shape) :
            /\ pool' = o.p
            /\ row' = [row EXCEPT ![r].kv = o.kv, ![r].fixed = o.fixed,
                                  ![r].need = shape, ![r].used = shape.floor]
  /\ UNCHANGED marks

----------------------------------------------------------------------------
(* Steps and growth.                                                       *)

Capacity(c) == IF c.kv <= c.need.top THEN c.kv ELSE c.need.top

\* The capacity a growth asks for: whole chunks past the old one.
Wanted(c) ==
  LET more == Capacity(c) + Chunk IN IF more <= c.need.top THEN more ELSE c.need.top

\* Where pocket_cuda_fixed_grow finds the larger cache: a spare, a parked
\* set, or a new allocation under the cap; nothing otherwise.
Larger(p, want) ==
  LET i == Spare(p, want, want)
      d == Donor(p, want)
  IN CASE i > 0 -> {[p |-> SpareTaken(p, i), kv |-> p.spares[i]]}
       [] i = 0 /\ d > 0 -> {[p |-> Donated(p, d), kv |-> p.sets[d].kv]}
       [] i = 0 /\ d = 0 /\ p.live < p.cap -> {[p |-> Adopt(Allocated(p)), kv |-> want]}
       [] OTHER -> {}

\* The row moves into the larger cache and its old one is set aside as a
\* fixed cache; where the copy fails the larger one is, and the step fails.
Grow(c) ==
  \E node \in BOOLEAN : \E o \in Larger(pool, Wanted(c)) :
    \/ /\ pool' = StashOrFree(Counted(o.p, c.fixed), c.kv, node)
       /\ row' = [row EXCEPT ![c.r].kv = o.kv, ![c.r].fixed = TRUE]
    \/ /\ pool' = StashOrFree(o.p, o.kv, node)
       /\ UNCHANGED row

\* Growth by allocate, copy, drain and free: nothing was available, or the
\* allocation under the cap failed.  The new cache replaces the old one in
\* the counts; a failed allocation or copy leaves everything as it was.
GrowInPlace(c) ==
  /\ Spare(pool, Wanted(c), Wanted(c)) = 0 /\ Donor(pool, Wanted(c)) = 0
  /\ pool' = Quiet(Freed(Allocated(pool)))
  /\ row' = [QuietRows EXCEPT ![c.r].kv = Wanted(c)]

Reserves(r) ==
  LET c == [r |-> r, kv |-> row[r].kv, fixed |-> row[r].fixed, need |-> row[r].need,
            used |-> row[r].used]
  IN /\ row[r].at = "seated" /\ row[r].kv > 0
     /\ row[r].used < row[r].need.top /\ row[r].used >= Capacity(row[r])
     /\ Grow(c) \/ GrowInPlace(c)
     /\ UNCHANGED marks

\* A step writes one position and queues work on the row's staging.
Step(r) ==
  /\ row[r].at = "seated" /\ row[r].kv > 0
  /\ row[r].used < row[r].need.top /\ row[r].used < Capacity(row[r])
  /\ row' = [row EXCEPT ![r].used = @ + 1, ![r].busy = TRUE]
  /\ UNCHANGED <<pool, marks>>

\* The device finishes what a row, or a parked set, had queued.
RowDone(r) == row[r].busy /\ row' = [row EXCEPT ![r].busy = FALSE] /\ UNCHANGED <<pool, marks>>
SetDone == /\ \E i \in Indices(pool.sets) :
                pool.sets[i].busy /\ pool' = [pool EXCEPT !.sets[i].busy = FALSE]
           /\ UNCHANGED <<row, marks>>

----------------------------------------------------------------------------
(* Retirement.                                                             *)

Oversized(p, c) == c.at = "seated" /\ c.fixed /\ c.kv > 2 * p.size

\* pocket_ctx_free with pocket_cuda_slot_park: a cache that grew far past the
\* fixed size is set aside, or freed after a drain; the rest is parked behind
\* a fence, or drained where none can be recorded, or freed when the pool is
\* full.  A context that fails before it is seated parks its set unused.
Retire(r) ==
  /\ pool.open /\ row[r].at # "none"
  /\ \E node, recorded \in BOOLEAN :
       LET c == row[r]
           aside == Oversized(pool, c) /\ Placed(pool, node)
           trimmed == Oversized(pool, c) /\ ~Placed(pool, node)
           p == IF aside THEN Stash(pool, c.kv)
                ELSE IF trimmed THEN Gone(Freed(pool)) ELSE pool
           kv == IF aside \/ trimmed THEN 0 ELSE c.kv
           drains == trimmed \/ ~recorded
           set == [kv |-> kv, fixed |-> c.fixed /\ kv > 0, busy |-> c.busy /\ ~drains,
                   fence |-> recorded]
           full == Len(pool.sets) >= PoolCap
           left == IF drains THEN Quiet(p) ELSE p
       IN /\ pool' = IF full THEN GoneIf(FreedIf(left, kv), set.fixed)
                     ELSE [left EXCEPT !.sets = <<set>> \o @]
          /\ row' = [(IF drains THEN QuietRows ELSE row) EXCEPT ![r] = NoRow]
  /\ UNCHANGED marks

\* A server marks the end of its warm-ups, then the start of serving.
Mark == pool.open /\ marks < Marks /\ marks' = marks + 1 /\ UNCHANGED <<pool, row>>

\* The model is freed: every context is gone.
PoolDrain ==
  /\ pool.open /\ \A r \in Rows : row[r].at = "none"
  /\ pool' = [pool EXCEPT !.made = @ - Cardinality(Stocked(pool.sets)) - Len(pool.spares),
                          !.live = @ - Cardinality(FixedIn(pool.sets)) - Len(pool.spares),
                          !.sets = <<>>, !.spares = <<>>, !.open = FALSE]
  /\ UNCHANGED <<row, marks>>

Next ==
  \/ \E r \in Rows : \/ Take(r) \/ Seat(r) \/ ReserveText(r) \/ Reserves(r) \/ Step(r)
                     \/ RowDone(r) \/ Retire(r)
  \/ SetDone \/ Mark \/ PoolDrain

Spec == Init /\ [][Next]_vars
----------------------------------------------------------------------------
(* Properties.                                                             *)

Sizes == {s.est : s \in Shapes} \cup {s.top : s \in Shapes} \cup {FirstSize} \cup LaterSizes
Top == AtLeast(Most(Sizes) + Chunk, 1)
TypeOK ==
  /\ pool.sets \in Seq([kv : 0..Top, fixed : BOOLEAN, busy : BOOLEAN, fence : BOOLEAN])
  /\ pool.spares \in Seq(1..Top)
  /\ {pool.live, pool.made, pool.cap, pool.mark} \subseteq Nat
  /\ pool.size \in {FirstSize} \cup LaterSizes /\ pool.moved \in BOOLEAN
  /\ pool.open \in BOOLEAN /\ marks \in 0..Marks
  /\ row \in [Rows -> [at : {"none", "taken", "seated"}, kv : 0..Top, fixed : BOOLEAN,
                       busy : BOOLEAN, need : Shapes \cup {NoShape}, used : 0..Top]]

\* The pool's accounts are exact in every state: the device holds one cache
\* for each that a row, a parked set or the spare list names -- none is lost,
\* none is freed under an owner or freed twice -- and the count the cap is
\* compared with is the number of those that are fixed, whatever sequence of
\* swaps, re-plans, failed growths and full lists led there.
CountIsExact ==
  LET Owners == {r \in Rows : row[r].kv > 0}
  IN /\ TypeOK
     /\ pool.made = Cardinality(Stocked(pool.sets)) + Cardinality(Owners) + Len(pool.spares)
     /\ pool.live = Cardinality(Stocked(pool.sets) \cap FixedIn(pool.sets))
                    + Cardinality({r \in Owners : row[r].fixed}) + Len(pool.spares)
     /\ Len(pool.sets) <= PoolCap /\ Len(pool.spares) <= SpareMax
     /\ ~pool.open => pool.made = 0

\* The host zeroes a set's pinned staging when it takes it, so by then no queued
\* copy of the previous owner may refer to it; and a row never runs on a cache
\* that cannot hold what it has written, nor its prefill and first step,
\* whichever of the five sources the cache came from.
RowsAreReady ==
  /\ \A r \in Rows : row[r].at = "taken" => ~row[r].busy
  /\ \A r \in Rows : row[r].at = "seated" /\ row[r].kv > 0 =>
       row[r].used <= Capacity(row[r]) /\ row[r].need.floor < Capacity(row[r])

=============================================================================
