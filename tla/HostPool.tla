------------------------------ MODULE HostPool ------------------------------
(***************************************************************************)
(* The team that runs the serving loop's per-row host loops                *)
(* (src/hostpool.c).  A region is one atomic word -- generation, next      *)
(* unclaimed row, row count, chunk -- and rows are claimed by a            *)
(* compare-and-swap on it; the function of a region is read only after a   *)
(* claim.  Workers spin, then park; the submitter claims rows too and      *)
(* waits only for rows that somebody claimed.                              *)
(*                                                                         *)
(* One action per atomic access or critical section.  The function and the *)
(* data of a region are its number in fn.                                  *)
(***************************************************************************)
EXTENDS Integers, FiniteSets

CONSTANTS
  Workers,     \* the threads of the team
  Submitters,  \* threads that call mynah_hostpool_run()
  MaxRows,     \* HP_MAX_ROWS: a longer loop runs inline
  Sizes,       \* bound: the row counts of the regions submitted
  MinChunk,    \* the least rows claimed at once
  Limit,       \* the values of a row field of the word, 2^16
  Gens,        \* the values of its generation field, 2^16
  MaxRegions   \* bound: how many regions are submitted

Nobody == "nobody"

ASSUME PoolAssumption ==
  /\ Workers \cap Submitters = {} /\ IsFiniteSet(Workers) /\ Nobody \notin Workers
  /\ MaxRows \in Nat /\ Sizes \subseteq 1..MaxRows
  /\ MinChunk \in 1..MaxRows
  /\ Limit \in Nat /\ MaxRows + MaxRows < Limit
  /\ Gens \in Nat \ {0} /\ MaxRegions \in Nat

VARIABLES
  word,     \* the claim word: a generation and three 16-bit fields
  gen,      \* the generation of the last region published
  busy,     \* a region is being submitted
  fn,       \* the region whose function is stored
  done,     \* rows of the open region finished, as the code counts them
  reported, \* which rows those are
  mu,       \* who holds the mutex
  parked,   \* workers waiting on the condition variable, as the code counts them
  pc,       \* where each thread is
  seen,     \* the generation each worker has acted on
  held,     \* the word each thread has read and not yet tried to claim from
  rows,     \* the rows each thread has claimed and not reported
  body      \* the region whose function each thread calls

vars == <<word, gen, busy, fn, done, reported, mu, parked, pc, seen, held, rows, body>>

Threads == Workers \cup Submitters
Field == 0..(Limit - 1)
Word == [gen : 0..(Gens - 1), next : Field, n : Field, chunk : Field]
WorkerPlaces == {"start", "look", "check", "decided", "asleep", "woken"}
SubmitPlaces == {"idle", "open", "publish", "announce", "wake", "broadcast", "wait", "close"}
ClaimPlaces == {"load", "claim"}
RowPlaces == {"call", "body", "report"}
DrainPlaces == ClaimPlaces \cup RowPlaces
Numbers(k) == 0..(k - 1)
NoWord == [gen |-> 0, next |-> 0, n |-> 0, chunk |-> 0]

TypeOK ==
  /\ word \in Word /\ gen \in Nat /\ busy \in BOOLEAN /\ fn \in Nat /\ done \in Nat
  /\ reported \in SUBSET Field
  /\ mu \in Workers \cup {Nobody} /\ parked \in Int
  /\ pc \in [Threads -> WorkerPlaces \cup SubmitPlaces \cup DrainPlaces]
  /\ \A w \in Workers : pc[w] \in WorkerPlaces \cup DrainPlaces
  /\ \A s \in Submitters : pc[s] \in SubmitPlaces \cup DrainPlaces
  /\ seen \in [Workers -> Nat]
  /\ held \in [Threads -> Word]
  /\ rows \in [Threads -> SUBSET Field]
  /\ body \in [Threads -> Nat]

Init ==
  /\ word = NoWord
  /\ gen = 0 /\ busy = FALSE /\ fn = 0 /\ done = 0 /\ reported = {}
  /\ mu = Nobody /\ parked = 0
  /\ pc = [t \in Threads |-> IF t \in Workers THEN "start" ELSE "idle"]
  /\ seen = [w \in Workers |-> 0]
  /\ held = [t \in Threads |-> NoWord]
  /\ rows = [t \in Threads |-> {}]
  /\ body = [t \in Threads |-> 0]

Goto(t, place) == pc' = [pc EXCEPT ![t] = place]
-----------------------------------------------------------------------------
(* mynah_hostpool_run().  A submitter that finds the team busy, or that is *)
(* itself inside a region, runs its rows inline and touches nothing here.  *)

Enter(s) ==
  /\ pc[s] = "idle" /\ ~busy /\ gen < MaxRegions
  /\ busy' = TRUE /\ Goto(s, "open")
  /\ UNCHANGED <<word, gen, fn, done, reported, mu, parked, seen, held, rows, body>>

Open(s) ==
  /\ pc[s] = "open"
  /\ fn' = gen + 1 /\ done' = 0 /\ reported' = {}
  /\ Goto(s, "publish")
  /\ UNCHANGED <<word, gen, busy, mu, parked, seen, held, rows, body>>

\* About four chunks for each thread, and none too short.
Chunk(n) ==
  LET share == n \div (4 * (Cardinality(Workers) + 1))
  IN  IF share < MinChunk THEN MinChunk ELSE share

Publish(s) ==
  /\ pc[s] = "publish"
  /\ \E n \in Sizes :
       word' = [gen |-> (gen + 1) % Gens, next |-> 0, n |-> n, chunk |-> Chunk(n)]
  /\ Goto(s, "announce")
  /\ UNCHANGED <<gen, busy, fn, done, reported, mu, parked, seen, held, rows, body>>

Announce(s) ==
  /\ pc[s] = "announce"
  /\ gen' = gen + 1 /\ Goto(s, "wake")
  /\ UNCHANGED <<word, busy, fn, done, reported, mu, parked, seen, held, rows, body>>

\* Mutant: parked is read without the mutex.
WakeUnlocked(s) ==
  /\ pc[s] = "wake"
  /\ Goto(s, IF parked > 0 THEN "broadcast" ELSE "load")
  /\ UNCHANGED <<word, gen, busy, fn, done, reported, mu, parked, seen, held, rows, body>>

\* The count of parked workers is read under the mutex, the broadcast is not.
Wake(s) ==
  /\ pc[s] = "wake" /\ mu = Nobody
  /\ Goto(s, IF parked > 0 THEN "broadcast" ELSE "load")
  /\ UNCHANGED <<word, gen, busy, fn, done, reported, mu, parked, seen, held, rows, body>>

Broadcast(s) ==
  /\ pc[s] = "broadcast"
  /\ pc' = [t \in Threads |-> IF t = s THEN "load"
                              ELSE IF pc[t] = "asleep" THEN "woken" ELSE pc[t]]
  /\ UNCHANGED <<word, gen, busy, fn, done, reported, mu, parked, seen, held, rows, body>>

\* Mutant: every row claimed is taken for every row run.
WaitForClaims(s) ==
  /\ pc[s] = "wait" /\ word.next >= word.n
  /\ Goto(s, "close")
  /\ UNCHANGED <<word, gen, busy, fn, done, reported, mu, parked, seen, held, rows, body>>

\* Every row is claimed: wait for the rows claimed by workers.
Wait(s) ==
  /\ pc[s] = "wait" /\ done = word.n
  /\ Goto(s, "close")
  /\ UNCHANGED <<word, gen, busy, fn, done, reported, mu, parked, seen, held, rows, body>>

Close(s) ==
  /\ pc[s] = "close"
  /\ busy' = FALSE /\ Goto(s, "idle")
  /\ UNCHANGED <<word, gen, fn, done, reported, mu, parked, seen, held, rows, body>>
-----------------------------------------------------------------------------
(* hp_drain(): load, claim, call, report, until nothing is left to claim.  *)

Load(t) ==
  /\ pc[t] = "load"
  /\ IF word.next < word.n
     THEN held' = [held EXCEPT ![t] = word] /\ Goto(t, "claim")
     ELSE UNCHANGED held /\ Goto(t, IF t \in Workers THEN "look" ELSE "wait")
  /\ UNCHANGED <<word, gen, busy, fn, done, reported, mu, parked, seen, rows, body>>

\* Adding a chunk to the word; a next row of more than 16 bits would carry.
Advanced(w) ==
  [w EXCEPT !.next = (w.next + w.chunk) % Limit,
            !.gen = (w.gen + (w.next + w.chunk) \div Limit) % Gens]

ClaimedRows(w) == w.next..((IF w.next + w.chunk < w.n THEN w.next + w.chunk ELSE w.n) - 1)

\* Mutant: the next row is advanced by an addition instead of a compare-and-swap.
ClaimByAdding(t) ==
  /\ pc[t] = "claim"
  /\ word' = Advanced(word)
  /\ rows' = [rows EXCEPT ![t] = ClaimedRows(held[t])]
  /\ held' = [held EXCEPT ![t] = NoWord]
  /\ Goto(t, "call")
  /\ UNCHANGED <<gen, busy, fn, done, reported, mu, parked, seen, body>>

Claim(t) ==
  /\ pc[t] = "claim" /\ word = held[t]
  /\ word' = Advanced(held[t])
  /\ rows' = [rows EXCEPT ![t] = ClaimedRows(held[t])]
  /\ held' = [held EXCEPT ![t] = NoWord]
  /\ Goto(t, "call")
  /\ UNCHANGED <<gen, busy, fn, done, reported, mu, parked, seen, body>>

\* The word has changed, or the weak compare-and-swap failed by itself.
ClaimFails(t) ==
  /\ pc[t] = "claim"
  /\ held' = [held EXCEPT ![t] = NoWord]
  /\ Goto(t, "load")
  /\ UNCHANGED <<word, gen, busy, fn, done, reported, mu, parked, seen, rows, body>>

Call(t) ==
  /\ pc[t] = "call"
  /\ body' = [body EXCEPT ![t] = fn]
  /\ Goto(t, "body")
  /\ UNCHANGED <<word, gen, busy, fn, done, reported, mu, parked, seen, held, rows>>

RunRows(t) ==
  /\ pc[t] = "body"
  /\ Goto(t, "report")
  /\ UNCHANGED <<word, gen, busy, fn, done, reported, mu, parked, seen, held, rows, body>>

\* Mutant: the last chunk is counted as long as the others.
ReportWholeChunk(t) ==
  /\ pc[t] = "report"
  /\ done' = done + word.chunk
  /\ reported' = reported \cup rows[t]
  /\ rows' = [rows EXCEPT ![t] = {}]
  /\ body' = [body EXCEPT ![t] = 0]
  /\ Goto(t, "load")
  /\ UNCHANGED <<word, gen, busy, fn, mu, parked, seen, held>>

ReportRows(t) ==
  /\ pc[t] = "report"
  /\ done' = done + Cardinality(rows[t])
  /\ reported' = reported \cup rows[t]
  /\ rows' = [rows EXCEPT ![t] = {}]
  /\ body' = [body EXCEPT ![t] = 0]
  /\ Goto(t, "load")
  /\ UNCHANGED <<word, gen, busy, fn, mu, parked, seen, held>>
-----------------------------------------------------------------------------
(* hp_worker(): look for a new generation, spin, park.                     *)

\* A thread that starts late takes the generation it finds for seen.
Begin(w) ==
  /\ pc[w] = "start"
  /\ seen' = [seen EXCEPT ![w] = gen]
  /\ Goto(w, "look")
  /\ UNCHANGED <<word, gen, busy, fn, done, reported, mu, parked, held, rows, body>>

Notice(w) ==
  /\ pc[w] = "look" /\ gen # seen[w]
  /\ seen' = [seen EXCEPT ![w] = gen]
  /\ Goto(w, "load")
  /\ UNCHANGED <<word, gen, busy, fn, done, reported, mu, parked, held, rows, body>>

Park(w) ==
  /\ pc[w] = "look" /\ gen = seen[w] /\ mu = Nobody
  /\ mu' = w /\ parked' = parked + 1
  /\ Goto(w, "check")
  /\ UNCHANGED <<word, gen, busy, fn, done, reported, seen, held, rows, body>>

\* Under the mutex; the submitter does not hold it when it changes gen.
Check(w) ==
  /\ pc[w] = "check" /\ gen = seen[w]
  /\ Goto(w, "decided")
  /\ UNCHANGED <<word, gen, busy, fn, done, reported, mu, parked, seen, held, rows, body>>

Sleep(w) ==
  /\ pc[w] = "decided"
  /\ mu' = Nobody /\ Goto(w, "asleep")
  /\ UNCHANGED <<word, gen, busy, fn, done, reported, parked, seen, held, rows, body>>

SpuriousWakeup(w) ==
  /\ pc[w] = "asleep" /\ Goto(w, "woken")
  /\ UNCHANGED <<word, gen, busy, fn, done, reported, mu, parked, seen, held, rows, body>>

Relock(w) ==
  /\ pc[w] = "woken" /\ mu = Nobody
  /\ mu' = w /\ Goto(w, "check")
  /\ UNCHANGED <<word, gen, busy, fn, done, reported, parked, seen, held, rows, body>>

Unpark(w) ==
  /\ pc[w] = "check" /\ gen # seen[w]
  /\ mu' = Nobody /\ parked' = parked - 1
  /\ seen' = [seen EXCEPT ![w] = gen]
  /\ Goto(w, "load")
  /\ UNCHANGED <<word, gen, busy, fn, done, reported, held, rows, body>>
-----------------------------------------------------------------------------
Drain(t) == Load(t) \/ Claim(t) \/ ClaimFails(t) \/ Call(t) \/ RunRows(t) \/ ReportRows(t)
Submit(s) ==
  Enter(s) \/ Open(s) \/ Publish(s) \/ Announce(s) \/ Wake(s) \/ Broadcast(s) \/ Wait(s) \/ Close(s)
Work(w) ==
  Begin(w) \/ Notice(w) \/ Park(w) \/ Check(w) \/ Sleep(w) \/ Relock(w) \/ Unpark(w)

Next ==
  \/ \E t \in Threads : Drain(t)
  \/ \E s \in Submitters : Submit(s)
  \/ \E w \in Workers : Work(w) \/ SpuriousWakeup(w)

Spec == Init /\ [][Next]_vars

\* Threads run; a compare-and-swap that is retried succeeds in the end, and a
\* mutex that is free again and again is got.
Fairness ==
  /\ \A t \in Threads : WF_vars(Drain(t)) /\ SF_vars(Claim(t))
  /\ \A s \in Submitters : WF_vars(Submit(s)) /\ SF_vars(Wake(s))
  /\ \A w \in Workers : WF_vars(Work(w))

FairSpec == Spec /\ Fairness
-----------------------------------------------------------------------------
Inside(s) == pc[s] \notin {"idle", "open", "publish"}
Draining(s) == Inside(s) /\ pc[s] # "close"
Claimed == Numbers(IF word.next < word.n THEN word.next ELSE word.n)

\* One region at a time.
OneSubmitter ==
  \A s \in Submitters : pc[s] # "idle" =>
    busy /\ \A u \in Submitters \ {s} : pc[u] = "idle"

\* A claim that may still succeed is one of rows that exist, and its addition
\* stays within the row field of the word.
ClaimsAreOfRows ==
  /\ word.n <= MaxRows /\ word.chunk <= MaxRows /\ (word.n > 0 => word.chunk > 0)
  /\ \A t \in Threads : pc[t] = "claim" => held[t].next < held[t].n
  /\ \A t \in Threads : pc[t] \in RowPlaces => rows[t] # {}

\* Outside a region there is nothing to claim, and nothing claimed.
NothingBetween ==
  (\A s \in Submitters : ~Draining(s)) =>
    /\ word.next >= word.n
    /\ \A t \in Threads : rows[t] = {} /\ pc[t] \notin RowPlaces

\* The rows below the next one are each with one thread, or reported, once.
Partition ==
  /\ \A t \in Threads : pc[t] \notin RowPlaces => rows[t] = {}
  /\ \A t, u \in Threads : t # u => rows[t] \cap rows[u] = {}
  /\ \A t \in Threads : rows[t] \cap reported = {}
  /\ \A s \in Submitters :
       /\ pc[s] = "publish" => reported = {}
       /\ Inside(s) => reported \cup UNION {rows[t] : t \in Threads} = Claimed

\* done counts them, and the submitter leaves when it has counted all.
DoneIsExact ==
  /\ done = Cardinality(reported)
  /\ \A s \in Submitters :
       /\ pc[s] \in {"wait", "close"} => word.next >= word.n
       /\ pc[s] = "close" => reported = Numbers(word.n)

\* The function called is that of the open region, whose data still exist.
BodyIsOpen ==
  \A t \in Threads : pc[t] \in {"body", "report"} => body[t] = fn

(***************************************************************************)
(* Each row of a region is run once, by the function of that region, and   *)
(* the call returns when all have been: also with a worker that holds the  *)
(* claim word of an earlier region (hostpool.c:83), and after the          *)
(* generation has wrapped.  The conjuncts are what an inductive proof      *)
(* needs.                                                                  *)
(***************************************************************************)
RowsRunOnce ==
  /\ TypeOK /\ OneSubmitter /\ ClaimsAreOfRows /\ NothingBetween
  /\ Partition /\ DoneIsExact /\ BodyIsOpen

\* The workers the code counts in parked: from their decision to the end of the
\* wait, which they leave with the mutex.
Parked == {w \in Workers : pc[w] \in {"check", "decided", "asleep", "woken"}}

(***************************************************************************)
(* A worker goes to sleep on the condition variable, for a region it has   *)
(* not seen, only while the submitter has yet to wake it: the generation   *)
(* is changed without the mutex and parked is read under it                *)
(* (hostpool.c:112 and 211).                                               *)
(***************************************************************************)
NoneLeftAsleep ==
  /\ parked = Cardinality(Parked)
  /\ \A w \in Workers : mu = w <=> pc[w] \in {"check", "decided"}
  /\ \A w \in Workers : pc[w] = "decided" /\ seen[w] # gen =>
       \E s \in Submitters : pc[s] = "wake"
  /\ \A w \in Workers : pc[w] = "asleep" /\ seen[w] # gen =>
       \E s \in Submitters : pc[s] \in {"wake", "broadcast"}

\* A region returns, whatever became of the workers that were to help.
EveryRegionReturns == \A s \in Submitters : pc[s] = "open" ~> pc[s] = "idle"

Within == \E s \in Submitters : Inside(s)
Promise == INSTANCE ParallelRegion WITH
  Items <- Numbers(MaxRows),
  open <- Within,
  todo <- IF Within THEN Numbers(word.n) \ Claimed ELSE {},
  doing <- [t \in Threads |-> IF pc[t] \in {"call", "body"} THEN rows[t] ELSE {}]

\* To a caller of mynah_hostpool_run() the team is a loop (hostpool.h).
ImplementsRegion == Promise!Spec
=============================================================================
