----------------------------- MODULE ThreadPool -----------------------------
(***************************************************************************)
(* The pool behind mynah_parallel_for() (src/threads.c): a table of job    *)
(* slots, workers that look for a region to help without the mutex, spin   *)
(* and park, submitters that run their own region and wait for the helpers *)
(* to leave it, regions submitted from inside a region, and fork().        *)
(*                                                                         *)
(* A critical section is an action, except that of publishing, whose       *)
(* stores workers can see before the generation.  A thread is a stack of   *)
(* frames, because an item may submit a region of its own; a region is     *)
(* named by the thread and the depth that submitted it, and stands for the *)
(* function and the context in the job.                                    *)
(***************************************************************************)
EXTENDS Integers, Sequences, FiniteSets

CONSTANTS
  Workers,     \* threads that may be created for the pool
  Submitters,  \* the other threads
  Width,       \* the width of the pool, its submitter included
  MaxJobs,     \* PF_MAX_JOBS
  Sizes,       \* bound: the item counts of the regions submitted
  MaxDepth,    \* bound: regions inside regions
  MaxRegions,  \* bound: how many regions are submitted
  Modes        \* the settings to check: see MCThreadPool

Threads == Workers \cup Submitters
Slots == 0..(MaxJobs - 1)
Numbers(k) == 0..(k - 1)
Regions == (Submitters \X (1..MaxDepth)) \cup (Workers \X (2..MaxDepth))
NoRegion == <<>>
Nobody == "nobody"

ASSUME PoolAssumption ==
  /\ Workers \cap Submitters = {} /\ IsFiniteSet(Threads) /\ Nobody \notin Threads
  /\ Width \in Nat /\ MaxJobs \in Nat \ {0} /\ Sizes \subseteq Nat \ {0}
  /\ MaxDepth \in Nat \ {0} /\ MaxRegions \in Nat
  /\ Modes \subseteq [precheck : BOOLEAN, narrow : BOOLEAN, fastexit : BOOLEAN,
                      lows : SUBSET BOOLEAN, offers : SUBSET Submitters, teams : SUBSET Nat,
                      forks : Nat, spurious : BOOLEAN]

VARIABLES
  mode,        \* the settings of this process
  job,         \* the slots
  mu,          \* who holds the mutex
  gen,         \* regions published
  rotor,       \* where the next scan begins
  doneWaiters, \* submitters announced to be waiting for helpers (fast exit)
  inited,      \* the pool has been started
  team,        \* its workers
  alive,       \* the threads of this process
  stack,       \* the frames of each thread
  seen,        \* the generation each worker has acted on
  started,     \* the items of each region that a thread has begun
  begun,       \* regions begun
  forks

pool == <<job, gen, rotor, doneWaiters>>
vars == <<mode, job, mu, gen, rotor, doneWaiters, inited, team, alive, stack, seen, started, begun, forks>>

NoJob == [live |-> FALSE, n |-> 0, next |-> 0, refs |-> 0, cap |-> 0, low |-> FALSE,
          region |-> NoRegion]
Frame(place) == [place |-> place, region |-> NoRegion, slot |-> 0, item |-> 0, n |-> 0]
Places == {"absent", "top", "scan", "pick", "spin", "asleep", "woken", "fetch", "chunk", "leave",
           "peek", "notify", "idle", "call", "publish", "post", "inline", "serial", "drained",
           "settle", "barrier"}

TypeOK ==
  /\ mode \in Modes
  /\ job \in [Slots -> [live : BOOLEAN, n : Nat, next : Nat, refs : Nat, cap : Nat, low : BOOLEAN,
                        region : Regions \cup {NoRegion}]]
  /\ mu \in Threads \cup {Nobody}
  /\ gen \in Nat /\ rotor \in Slots /\ doneWaiters \in Nat
  /\ inited \in BOOLEAN /\ team \in SUBSET Workers /\ alive \in SUBSET Threads
  /\ stack \in [Threads -> Seq([place : Places, region : Regions \cup {NoRegion}, slot : Slots,
                                item : Nat, n : Nat])]
  /\ seen \in [Workers -> Nat]
  /\ started \in [Regions -> SUBSET Nat]
  /\ begun \in Nat /\ forks \in Nat

Init ==
  /\ mode \in Modes
  /\ job = [k \in Slots |-> NoJob] /\ mu = Nobody /\ gen = 0 /\ rotor = 0 /\ doneWaiters = 0
  /\ inited = FALSE /\ team = {} /\ alive = Submitters
  /\ stack = [t \in Threads |-> <<Frame(IF t \in Workers THEN "absent" ELSE "idle")>>]
  /\ seen = [w \in Workers |-> 0]
  /\ started = [r \in Regions |-> {}]
  /\ begun = 0 /\ forks = 0
-----------------------------------------------------------------------------
Depth(t) == Len(stack[t])
Top(t) == stack[t][Depth(t)]
At(t, place) == t \in alive /\ Top(t).place = place
Mine(t) == <<t, Depth(t)>>
With(t, frame) == [stack EXCEPT ![t][Depth(t)] = frame]
Goto(t, place) == stack' = With(t, [Top(t) EXCEPT !.place = place])
Wake(stacks, from, to) ==
  [t \in Threads |-> [d \in DOMAIN stacks[t] |->
     IF t \in alive /\ stacks[t][d].place = from THEN [stacks[t][d] EXCEPT !.place = to]
                                                ELSE stacks[t][d]]]

\* A return leaves the item of the region outside to be finished.
Returned(t) ==
  IF Depth(t) = 1 THEN [stack EXCEPT ![t] = <<Frame("idle")>>]
                  ELSE [stack EXCEPT ![t] = SubSeq(@, 1, Len(@) - 1)]
-----------------------------------------------------------------------------
(* mynah_parallel_for(): submit, run, wait.                                *)

Begin(t, frames) ==
  /\ begun < MaxRegions /\ begun' = begun + 1
  /\ \E n \in Sizes :
       stack' = [stack EXCEPT ![t] = Append(frames, [Frame("call") EXCEPT !.n = n])]

Dispatch(s) ==
  /\ At(s, "idle") /\ s \in mode.offers
  /\ Begin(s, <<>>)
  /\ started' = [started EXCEPT ![<<s, 1>>] = {}]
  /\ UNCHANGED <<mode, pool, mu, inited, team, alive, seen, forks>>

\* An item submits a region.
Nest(t) ==
  /\ At(t, "chunk") \/ At(t, "serial")
  /\ Depth(t) < MaxDepth
  /\ Begin(t, stack[t])
  /\ started' = [started EXCEPT ![<<t, Depth(t) + 1>>] = {}]
  /\ UNCHANGED <<mode, pool, mu, inited, team, alive, seen, forks>>

\* A region of one item, or a pool of width one, never reaches the pool.
Serial(t) == Width <= 1 \/ Top(t).n = 1
RunInline(t) == With(t, [Top(t) EXCEPT !.place = "inline", !.region = Mine(t)])

Call(t) ==
  /\ At(t, "call") /\ (Serial(t) \/ inited)
  /\ stack' = IF Serial(t) THEN RunInline(t) ELSE With(t, [Top(t) EXCEPT !.place = "publish"])
  /\ UNCHANGED <<mode, pool, mu, inited, team, alive, seen, started, begun, forks>>

Unborn == {w \in Workers : stack[w] = <<Frame("absent")>>}
Teams(size) == {new \in SUBSET Unborn : Cardinality(new) = size}
Created(size) == CHOOSE new \in Teams(size) : TRUE

\* Workers are created once, by whoever comes first; creating some may fail.
PoolInit(t) ==
  /\ At(t, "call") /\ ~Serial(t) /\ ~inited
  /\ inited' = TRUE
  /\ \E size \in mode.teams : size < Width /\ Teams(size) # {} /\ team' = Created(size)
  /\ alive' = alive \cup team'
  /\ stack' = [u \in Threads |-> IF u \in team' THEN <<Frame("top")>> ELSE stack[u]]
  /\ UNCHANGED <<mode, pool, mu, seen, started, begun, forks>>

\* Mutant: a slot without helpers is taken for free.
UnhelpedSlots == {k \in Slots : ~job[k].live \/ job[k].refs = 0}


FreeSlots == {k \in Slots : ~job[k].live}
Least(S) == CHOOSE k \in S : \A j \in S : k <= j

NoSlot(t) ==
  /\ At(t, "publish") /\ mu = Nobody
  /\ team = {} \/ FreeSlots = {}
  /\ stack' = RunInline(t)
  /\ UNCHANGED <<mode, pool, mu, inited, team, alive, seen, started, begun, forks>>

\* The job is live before its next item is reset; what it was is still there.
Fill(t) ==
  /\ At(t, "publish") /\ mu = Nobody
  /\ team # {} /\ FreeSlots # {}
  /\ LET k == Least(FreeSlots)
         n == Top(t).n
         helpers == (IF n < Width THEN n ELSE Width) - 1
     IN  /\ \E low \in mode.lows :
              job' = [job EXCEPT ![k] = [@ EXCEPT !.live = TRUE, !.n = n, !.refs = 0, !.low = low,
                                           !.cap = IF helpers > 0 THEN helpers ELSE 1,
                                           !.region = Mine(t)]]
         /\ stack' = With(t, [Top(t) EXCEPT !.place = "post", !.slot = k, !.region = Mine(t)])
  /\ mu' = t
  /\ UNCHANGED <<mode, gen, rotor, doneWaiters, inited, team, alive, seen, started, begun, forks>>

Post(t) ==
  /\ At(t, "post")
  /\ job' = [job EXCEPT ![Top(t).slot].next = 0]
  /\ gen' = gen + 1
  /\ stack' = Wake(With(t, [Top(t) EXCEPT !.place = "fetch"]), "asleep", "woken")
  /\ mu' = Nobody
  /\ UNCHANGED <<mode, rotor, doneWaiters, inited, team, alive, seen, started, begun, forks>>

\* With fast exit the waiter announces itself before it looks at the count.
Announce(t) ==
  /\ At(t, "drained")
  /\ doneWaiters' = IF mode.fastexit THEN doneWaiters + 1 ELSE doneWaiters
  /\ Goto(t, "settle")
  /\ UNCHANGED <<mode, job, mu, gen, rotor, inited, team, alive, seen, started, begun, forks>>

\* Mutant: a region whose items have all been taken is over.
NothingToTake(t) == job[Top(t).slot].next >= job[Top(t).slot].n


HelpersLeft(t) == job[Top(t).slot].refs = 0

Settle(t) ==
  /\ At(t, "settle") /\ mu = Nobody /\ HelpersLeft(t)
  /\ doneWaiters' = IF mode.fastexit THEN doneWaiters - 1 ELSE doneWaiters
  /\ job' = [job EXCEPT ![Top(t).slot].live = FALSE]
  /\ stack' = Returned(t)
  /\ UNCHANGED <<mode, mu, gen, rotor, inited, team, alive, seen, started, begun, forks>>

AwaitHelpers(t) ==
  /\ At(t, "settle") /\ mu = Nobody /\ ~HelpersLeft(t)
  /\ Goto(t, "barrier")
  /\ UNCHANGED <<mode, pool, mu, inited, team, alive, seen, started, begun, forks>>
-----------------------------------------------------------------------------
(* pf_run(), and the loop of a region that runs inline.                    *)

Fetch(t) ==
  /\ At(t, "fetch")
  /\ LET k == Top(t).slot
         some == job[k].next < job[k].n
         r == job[k].region
     IN  /\ job' = [job EXCEPT ![k].next = @ + 1]
         /\ started' = IF some THEN [started EXCEPT ![r] = @ \cup {job[k].next}] ELSE started
         /\ stack' = With(t, [Top(t) EXCEPT
              !.item = job[k].next,
              !.place = IF some THEN "chunk" ELSE IF Top(t).n > 0 THEN "drained" ELSE "leave"])
  /\ UNCHANGED <<mode, mu, gen, rotor, doneWaiters, inited, team, alive, seen, begun, forks>>

Finish(t) ==
  /\ At(t, "chunk")
  /\ stack' = With(t, [Top(t) EXCEPT !.place = "fetch", !.item = 0])
  /\ UNCHANGED <<mode, pool, mu, inited, team, alive, seen, started, begun, forks>>

RunNext(t) ==
  /\ At(t, "inline")
  /\ IF Top(t).item < Top(t).n
     THEN /\ started' = [started EXCEPT ![Mine(t)] = @ \cup {Top(t).item}]
          /\ Goto(t, "serial")
     ELSE UNCHANGED started /\ stack' = Returned(t)
  /\ UNCHANGED <<mode, pool, mu, inited, team, alive, seen, begun, forks>>

FinishInline(t) ==
  /\ At(t, "serial")
  /\ stack' = With(t, [Top(t) EXCEPT !.place = "inline", !.item = @ + 1])
  /\ UNCHANGED <<mode, pool, mu, inited, team, alive, seen, started, begun, forks>>
-----------------------------------------------------------------------------
(* pool_worker(): look, pick, run, leave; spin, then park.                 *)

HasWork(k) ==
  /\ job[k].live /\ job[k].next < job[k].n
  /\ mode.narrow => job[k].refs < job[k].cap

\* The generation is read before the slots.
Look(w) ==
  /\ At(w, "top")
  /\ seen' = IF mode.precheck THEN [seen EXCEPT ![w] = gen] ELSE seen
  /\ Goto(w, IF mode.precheck THEN "scan" ELSE "pick")
  /\ UNCHANGED <<mode, pool, mu, inited, team, alive, started, begun, forks>>

\* Mutant: the generation is read after the slots.
ScanThenRead(w) ==
  /\ At(w, "scan")
  /\ LET k == Top(w).item
     IN  stack' = With(w, IF HasWork(k) THEN Frame("pick")
                          ELSE IF k + 1 < MaxJobs THEN [Top(w) EXCEPT !.item = k + 1] ELSE Frame("spin"))
  /\ seen' = [seen EXCEPT ![w] = gen]
  /\ UNCHANGED <<mode, pool, mu, inited, team, alive, started, begun, forks>>


\* pf_any_work(), one slot at a time and without the mutex.
Scan(w) ==
  /\ At(w, "scan")
  /\ LET k == Top(w).item
     IN  stack' = With(w, IF HasWork(k) THEN Frame("pick")
                          ELSE IF k + 1 < MaxJobs THEN [Top(w) EXCEPT !.item = k + 1] ELSE Frame("spin"))
  /\ UNCHANGED <<mode, pool, mu, inited, team, alive, seen, started, begun, forks>>

\* pick_job(): normal before low, fewest helpers first, then in turn.
Candidates ==
  LET normal == {k \in Slots : HasWork(k) /\ ~job[k].low}
  IN  IF normal # {} THEN normal ELSE {k \in Slots : HasWork(k)}
Turn(k) == (k - rotor) % MaxJobs
Best ==
  CHOOSE k \in Candidates : \A j \in Candidates :
    job[k].refs < job[j].refs \/ (job[k].refs = job[j].refs /\ Turn(k) <= Turn(j))

Pick(w) ==
  /\ At(w, "pick") /\ mu = Nobody
  /\ Candidates # {}
  /\ seen' = [seen EXCEPT ![w] = gen]
  /\ job' = [job EXCEPT ![Best].refs = @ + 1]
  /\ rotor' = (rotor + 1) % MaxJobs
  /\ stack' = With(w, [Frame("fetch") EXCEPT !.slot = Best, !.region = job[Best].region])
  /\ UNCHANGED <<mode, mu, gen, doneWaiters, inited, team, alive, started, begun, forks>>

PickNothing(w) ==
  /\ At(w, "pick") /\ mu = Nobody
  /\ Candidates = {}
  /\ seen' = [seen EXCEPT ![w] = gen]
  /\ Goto(w, "spin")
  /\ UNCHANGED <<mode, pool, mu, inited, team, alive, started, begun, forks>>

SpinWin(w) ==
  /\ At(w, "spin") /\ gen # seen[w]
  /\ Goto(w, "top")
  /\ UNCHANGED <<mode, pool, mu, inited, team, alive, seen, started, begun, forks>>

\* The generation only changes under the mutex, and is read again under it.
Park(w) ==
  /\ At(w, "spin") \/ At(w, "woken")
  /\ mu = Nobody
  /\ Goto(w, IF gen = seen[w] THEN "asleep" ELSE "top")
  /\ UNCHANGED <<mode, pool, mu, inited, team, alive, seen, started, begun, forks>>

SpuriousWakeup(t) ==
  /\ mode.spurious
  /\ \/ At(t, "asleep") /\ Goto(t, "woken")
     \/ At(t, "barrier") /\ Goto(t, "settle")
  /\ UNCHANGED <<mode, pool, mu, inited, team, alive, seen, started, begun, forks>>

\* pf_region_exit(): under the mutex ...
Leave(w) ==
  /\ At(w, "leave") /\ ~mode.fastexit /\ mu = Nobody
  /\ LET k == Top(w).slot
         left == With(w, Frame("top"))
     IN  /\ job' = [job EXCEPT ![k].refs = @ - 1]
         /\ stack' = IF job[k].refs = 1 THEN Wake(left, "barrier", "settle") ELSE left
  /\ UNCHANGED <<mode, mu, gen, rotor, doneWaiters, inited, team, alive, seen, started, begun, forks>>

\* ... or without it, unless the last helper finds somebody waiting.
LeaveFast(w) ==
  /\ At(w, "leave") /\ mode.fastexit
  /\ LET k == Top(w).slot
     IN  /\ job' = [job EXCEPT ![k].refs = @ - 1]
         /\ stack' = With(w, Frame(IF job[k].refs = 1 THEN "peek" ELSE "top"))
  /\ UNCHANGED <<mode, mu, gen, rotor, doneWaiters, inited, team, alive, seen, started, begun, forks>>

Peek(w) ==
  /\ At(w, "peek")
  /\ Goto(w, IF doneWaiters = 0 THEN "top" ELSE "notify")
  /\ UNCHANGED <<mode, pool, mu, inited, team, alive, seen, started, begun, forks>>

Notify(w) ==
  /\ At(w, "notify") /\ mu = Nobody
  /\ stack' = Wake(With(w, Frame("top")), "barrier", "settle")
  /\ UNCHANGED <<mode, pool, mu, inited, team, alive, seen, started, begun, forks>>
-----------------------------------------------------------------------------
(* fork() keeps only the thread that calls it; the child forgets the pool. *)

\* Mutant: the child keeps the mutex as it was.
ForkWithMutex(s) ==
  /\ At(s, "idle") /\ forks < mode.forks
  /\ forks' = forks + 1
  /\ alive' = {s}
  /\ job' = [k \in Slots |-> NoJob] /\ mu' = mu
  /\ gen' = 0 /\ rotor' = 0 /\ doneWaiters' = 0
  /\ inited' = FALSE /\ team' = {}
  /\ UNCHANGED <<mode, stack, seen, started, begun>>


Fork(s) ==
  /\ At(s, "idle") /\ forks < mode.forks
  /\ forks' = forks + 1
  /\ alive' = {s}
  /\ job' = [k \in Slots |-> NoJob] /\ mu' = Nobody
  /\ gen' = 0 /\ rotor' = 0 /\ doneWaiters' = 0
  /\ inited' = FALSE /\ team' = {}
  /\ UNCHANGED <<mode, stack, seen, started, begun>>
-----------------------------------------------------------------------------
Submit(t) ==
  \/ Call(t) \/ PoolInit(t) \/ NoSlot(t) \/ Fill(t) \/ Post(t)
  \/ Fetch(t) \/ Finish(t) \/ RunNext(t) \/ FinishInline(t)
  \/ Announce(t) \/ Settle(t) \/ AwaitHelpers(t)
Help(w) ==
  \/ Look(w) \/ Scan(w) \/ Pick(w) \/ PickNothing(w) \/ SpinWin(w) \/ Park(w)
  \/ Leave(w) \/ LeaveFast(w) \/ Peek(w) \/ Notify(w)

Next ==
  \/ \E t \in Threads : Submit(t) \/ Nest(t) \/ SpuriousWakeup(t)
  \/ \E w \in Workers : Help(w)
  \/ \E s \in Submitters : Dispatch(s) \/ Fork(s)

Spec == Init /\ [][Next]_vars

\* Threads run; a worker need not, until it has joined a region.
Fairness ==
  /\ \A t \in Threads : WF_vars(Submit(t))
  /\ \A w \in Workers : WF_vars(Leave(w)) /\ WF_vars(LeaveFast(w) \/ Peek(w) \/ Notify(w))

FairSpec == Spec /\ Fairness
-----------------------------------------------------------------------------
Helping(w, k) ==
  w \in alive /\ stack[w][1].slot = k /\ stack[w][1].region # NoRegion
Helpers(k) == {w \in Workers : Helping(w, k)}

(***************************************************************************)
(* A helper is inside a region that is still open, and counted by it: the  *)
(* context it uses is in the frame of a caller that has not returned       *)
(* (threads.c:1354).                                                       *)
(***************************************************************************)
ContextOutlivesHelpers ==
  /\ TypeOK
  /\ \A k \in Slots :
       /\ job[k].refs = Cardinality(Helpers(k))
       /\ \A w \in Helpers(k) :
            /\ job[k].live /\ job[k].region = stack[w][1].region
            /\ LET owner == job[k].region
               IN  owner[2] <= Depth(owner[1]) /\ stack[owner[1]][owner[2]].slot = k

(***************************************************************************)
(* A worker sleeps only when no open region could use it, though it looked *)
(* for one without the mutex (threads.c:802 and 829).                      *)
(***************************************************************************)
NoWorkSleptOn ==
  \A w \in Workers : At(w, "asleep") =>
    \A k \in Slots : HasWork(k) => mu # Nobody /\ job[k].region = Mine(mu)

\* A region returns: no thread waits for a helper that is not coming.
EveryRegionReturns ==
  \A s \in Submitters : At(s, "call") ~> (At(s, "idle") \/ s \notin alive)

Running(t, r) ==
  {stack[t][d].item : d \in {e \in 1..Depth(t) :
     stack[t][e].region = r /\ stack[t][e].place \in {"chunk", "serial"}}}
Within(r) == r[2] <= Depth(r[1]) /\ stack[r[1]][r[2]].n > 0
Doing(r) == [t \in Threads |-> Running(t, r)]
Promise(r) == INSTANCE ParallelRegion WITH
  Items <- UNION {Numbers(n) : n \in Sizes},
  open <- Within(r),
  todo <- IF Within(r)
          THEN Numbers(stack[r[1]][r[2]].n) \ started[r]
          ELSE {},
  doing <- Doing(r)

\* To a caller the pool is a loop, also inside another (threads.h).
ImplementsRegion ==
  /\ \A r \in Regions : Promise(r)!Init
  /\ [][\A r \in Regions : [Promise(r)!Next]_(Promise(r)!vars)]_vars
=============================================================================
