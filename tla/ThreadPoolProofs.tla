-------------------------- MODULE ThreadPoolProofs --------------------------
(***************************************************************************)
(* Proofs about the thread pool: a region is open for as long as a helper  *)
(* is inside it, no worker sleeps on a region it could help, and to a      *)
(* caller a region is a loop.                                              *)
(***************************************************************************)
EXTENDS ThreadPool, TLAPS, FiniteSetTheorems, SequenceTheorems, WellFoundedInduction

-----------------------------------------------------------------------------
(* The inductive invariant.                                                *)

Frames == [place : Places, region : Regions \cup {NoRegion}, slot : Slots, item : Nat, n : Nat]

HelperPlaces == {"top", "scan", "pick", "spin", "asleep", "woken", "fetch", "chunk", "leave",
                 "peek", "notify"}
Joined == {"fetch", "chunk", "leave"}
Unpublished == {"call", "publish"}
Owned == {"post", "fetch", "chunk", "drained", "settle", "barrier"}
Unshared == {"inline", "serial"}

\* The first frame of a worker: its loop, and the region it helps.
HelperFrame(f) ==
  /\ f.n = 0
  /\ f.place \in {"absent"} \cup HelperPlaces
  /\ f.region # NoRegion <=> f.place \in Joined
  /\ f.place = "scan" => f.item \in Slots
  /\ f.place \notin Joined \cup {"scan"} => f.item = 0

\* Any other frame: a region its thread has submitted at that depth.
RegionFrame(t, d, f) ==
  /\ f.n > 0
  /\ f.place \in Unpublished \cup Owned \cup Unshared
  /\ f.region = IF f.place \in Unpublished THEN NoRegion ELSE <<t, d>>

Fit(t, d, depth, f) ==
  /\ d < depth => f.place \in {"chunk", "serial"}
  /\ t \in Workers /\ d = 1 => HelperFrame(f)
  /\ ~(t \in Workers /\ d = 1) =>
       RegionFrame(t, d, f) \/ (f.place = "idle" /\ f.n = 0 /\ f.region = NoRegion /\ depth = 1)

StacksFit ==
  \A t \in Threads :
    /\ Depth(t) \in 1..MaxDepth
    /\ \A d \in 1..Depth(t) : Fit(t, d, Depth(t), stack[t][d])

WorkersAreBorn ==
  \A w \in Workers :
    /\ w \in alive => stack[w][1].place # "absent"
    /\ stack[w][1].place = "absent" => seen[w] = 0

\* Who holds a slot, and whose slot it is.
Holds(t, d, k) ==
  /\ t \in alive
  /\ stack[t][d].n > 0 /\ stack[t][d].place \in Owned /\ stack[t][d].slot = k
OneHolder ==
  /\ \A t \in Threads : \A d \in 1..Depth(t) : \A k \in Slots :
       Holds(t, d, k) => job[k].live /\ job[k].region = <<t, d>>
  /\ \A k \in Slots : job[k].live =>
       \E t \in Threads : \E d \in 1..Depth(t) : Holds(t, d, k)

HelpersAreInside ==
  \A k \in Slots :
    /\ job[k].refs = Cardinality(Helpers(k))
    /\ \A w \in Helpers(k) : job[k].live /\ job[k].region = stack[w][1].region

MutexIsPosting ==
  /\ mu # Nobody => At(mu, "post") /\ job[Top(mu).slot].refs = 0
  /\ \A t \in Threads : At(t, "post") => mu = t

\* A helper leaves a region whose items have all been taken.
LeavesNothing ==
  \A w \in Workers : w \in alive /\ stack[w][1].place = "leave" =>
    job[stack[w][1].slot].next >= job[stack[w][1].slot].n

Waiters == {t \in Threads : At(t, "settle") \/ At(t, "barrier")}
WaitersAreCounted == mode.fastexit => doneWaiters = Cardinality(Waiters)

\* What a worker that has acted on the last generation has overlooked is
\* only the region being published.
Filling(k) == mu # Nobody /\ job[k].region = Mine(mu)
Overlooked(f, k) ==
  f.place \in {"spin", "asleep", "woken"} \/ (f.place = "scan" /\ k < f.item)
Watchful(f, last) ==
  /\ last <= gen
  /\ f.place = "asleep" => last = gen
  /\ last = gen => \A k \in Slots : Overlooked(f, k) /\ HasWork(k) => Filling(k)
NothingOverlooked == \A w \in Workers : w \in alive => Watchful(stack[w][1], seen[w])

IInv ==
  /\ TypeOK /\ StacksFit /\ WorkersAreBorn
  /\ OneHolder /\ HelpersAreInside /\ MutexIsPosting /\ LeavesNothing
  /\ WaitersAreCounted /\ NothingOverlooked

-----------------------------------------------------------------------------
(* Frames and stacks.                                                      *)

\* Zero is a slot, and a region's name is not the absence of one.
LEMMA Names ==
  /\ 0 \in Slots
  /\ \A t, d : <<t, d>> # NoRegion
  /\ \A t \in Submitters : \A d \in 1..MaxDepth : <<t, d>> \in Regions
  /\ \A t \in Threads : \A d \in 2..MaxDepth : <<t, d>> \in Regions
  /\ Slots \subseteq Nat /\ IsFiniteSet(Workers) /\ Nobody \notin Threads
<1>1. 0 \in Slots BY PoolAssumption DEF Slots
<1>2. \A t, d : <<t, d>> # NoRegion BY DEF NoRegion
<1>3. \A t \in Submitters : \A d \in 1..MaxDepth : <<t, d>> \in Regions BY DEF Regions
<1>4. \A t \in Threads : \A d \in 2..MaxDepth : <<t, d>> \in Regions
  BY PoolAssumption DEF Regions, Threads
<1>5. Slots \subseteq Nat BY PoolAssumption DEF Slots
<1>6. IsFiniteSet(Workers)
  BY PoolAssumption, FS_Subset, Workers \subseteq Threads, Zenon DEF Threads
<1> QED BY <1>1, <1>2, <1>3, <1>4, <1>5, <1>6, PoolAssumption

\* A fresh frame is a frame.
LEMMA FreshFrames ==
  ASSUME NEW place \in Places
  PROVE  Frame(place) \in Frames
BY Names DEF Frame, Frames

\* The stacks of a typed state are sequences of frames.
LEMMA StacksAreSequences ==
  ASSUME TypeOK, NEW t \in Threads
  PROVE  /\ stack[t] \in Seq(Frames)
         /\ Depth(t) \in Nat /\ DOMAIN stack[t] = 1..Depth(t)
         /\ \A d \in 1..Depth(t) : stack[t][d] \in Frames
<1>1. stack[t] \in Seq(Frames) BY DEF TypeOK, Frames
<1> QED BY <1>1 DEF Depth

\* A function over the first numbers is a sequence.
LEMMA Sequences ==
  ASSUME NEW n \in Nat, NEW S, NEW s \in [1..n -> S]
  PROVE  s \in Seq(S) /\ Len(s) = n
<1>1. s \in Seq(S) BY SeqDef
<1>2. DOMAIN s = 1..Len(s) /\ Len(s) \in Nat BY <1>1
<1>3. DOMAIN s = 1..n OBVIOUS
<1> QED BY <1>1, <1>2, <1>3

\* What waking makes of a frame, if anything.
Becomes(f, g) ==
  /\ g.n = f.n /\ g.slot = f.slot /\ g.region = f.region /\ g.item = f.item
  /\ \/ g.place = f.place
     \/ f.place = "barrier" /\ g.place = "settle"
     \/ f.place = "asleep" /\ g.place = "woken"

\* What a step leaves that sets a thread's top frame, and may wake others.
TopSet(t, f) ==
  /\ stack' \in [Threads -> Seq(Frames)]
  /\ \A u \in Threads : Len(stack'[u]) = Len(stack[u])
  /\ \A u \in Threads : \A d \in 1..Len(stack[u]) :
       Becomes(IF u = t /\ d = Len(stack[u]) THEN f ELSE stack[u][d], stack'[u][d])

\* Setting a top frame sets it and nothing else.
LEMMA WithSetsTop ==
  ASSUME TypeOK, NEW t \in Threads, Depth(t) \in Nat \ {0}, NEW f \in Frames
  PROVE  /\ With(t, f) \in [Threads -> Seq(Frames)]
         /\ \A u \in Threads : Len(With(t, f)[u]) = Len(stack[u])
         /\ \A u \in Threads : \A d \in 1..Len(stack[u]) :
              With(t, f)[u][d] = IF u = t /\ d = Len(stack[u]) THEN f ELSE stack[u][d]
<1>1. stack \in [Threads -> Seq(Frames)] BY DEF TypeOK, Frames
<1> DEFINE s == [stack[t] EXCEPT ![Depth(t)] = f]
<1>2. stack[t] \in Seq(Frames) /\ Depth(t) \in 1..Len(stack[t]) BY <1>1 DEF Depth
<1>3. s \in Seq(Frames) /\ Len(s) = Len(stack[t])
      /\ \A d \in 1..Len(stack[t]) : s[d] = IF d = Depth(t) THEN f ELSE stack[t][d]
  BY <1>2, ExceptSeq
<1>4. With(t, f) = [stack EXCEPT ![t] = s] BY DEF With
<1> HIDE DEF s
<1>5. With(t, f) \in [Threads -> Seq(Frames)] BY <1>1, <1>3, <1>4
<1>6. \A u \in Threads : With(t, f)[u] = IF u = t THEN s ELSE stack[u] BY <1>1, <1>4
<1> QED BY <1>3, <1>5, <1>6 DEF Depth

LEMMA TopIsSet ==
  ASSUME TypeOK, NEW t \in Threads, Depth(t) \in Nat \ {0}, NEW f \in Frames,
         stack' = With(t, f)
  PROVE  TopSet(t, f)
BY WithSetsTop DEF TopSet, Becomes

\* Waking changes the place of the frames it finds, and nothing else.
LEMMA WakingKeepsStacks ==
  ASSUME NEW stacks \in [Threads -> Seq(Frames)], NEW from, NEW to,
         <<from, to>> \in {<<"barrier", "settle">>, <<"asleep", "woken">>}
  PROVE  /\ Wake(stacks, from, to) \in [Threads -> Seq(Frames)]
         /\ \A u \in Threads : Len(Wake(stacks, from, to)[u]) = Len(stacks[u])
         /\ \A u \in Threads : \A d \in 1..Len(stacks[u]) :
              Becomes(stacks[u][d], Wake(stacks, from, to)[u][d])
<1> DEFINE g(u, d) == IF u \in alive /\ stacks[u][d].place = from
                      THEN [stacks[u][d] EXCEPT !.place = to] ELSE stacks[u][d]
           woken == Wake(stacks, from, to)
<1>1. ASSUME NEW u \in Threads
      PROVE  /\ woken[u] \in Seq(Frames) /\ Len(woken[u]) = Len(stacks[u])
             /\ \A d \in 1..Len(stacks[u]) : Becomes(stacks[u][d], woken[u][d])
  <2>1. stacks[u] \in Seq(Frames) /\ DOMAIN stacks[u] = 1..Len(stacks[u]) /\ Len(stacks[u]) \in Nat
    OBVIOUS
  <2>2. woken[u] = [d \in 1..Len(stacks[u]) |-> g(u, d)] BY <2>1 DEF Wake
  <2>3. \A d \in 1..Len(stacks[u]) : g(u, d) \in Frames /\ Becomes(stacks[u][d], g(u, d))
    <3> SUFFICES ASSUME NEW d \in 1..Len(stacks[u])
                 PROVE  g(u, d) \in Frames /\ Becomes(stacks[u][d], g(u, d))
      OBVIOUS
    <3>1. stacks[u][d] \in Frames BY <2>1
    <3>2. to \in Places BY DEF Places
    <3> QED BY <3>1, <3>2 DEF Frames, Becomes
  <2> HIDE DEF g, woken
  <2>4. woken[u] \in [1..Len(stacks[u]) -> Frames] BY <2>2, <2>3
  <2>5. woken[u] \in Seq(Frames) /\ Len(woken[u]) = Len(stacks[u])
    BY <2>1, <2>4, Sequences
  <2> QED BY <2>2, <2>3, <2>5
<1>2. woken = [u \in Threads |-> woken[u]] BY DEF Wake
<1> HIDE DEF woken
<1>3. woken \in [Threads -> Seq(Frames)] BY <1>1, <1>2
<1> QED BY <1>1, <1>3 DEF woken

\* Putting a stack in the place of another changes that one only.
LEMMA StackIsSet ==
  ASSUME TypeOK, NEW t \in Threads, NEW s \in Seq(Frames), stack' = [stack EXCEPT ![t] = s]
  PROVE  /\ stack' \in [Threads -> Seq(Frames)]
         /\ \A u \in Threads : stack'[u] = IF u = t THEN s ELSE stack[u]
BY DEF TypeOK, Frames

\* Every thread has a frame, and the top one is a frame of its stack.
LEMMA TopIsAFrame ==
  ASSUME TypeOK, StacksFit, NEW t \in Threads
  PROVE  /\ Depth(t) \in Nat \ {0} /\ Depth(t) \in 1..MaxDepth
         /\ Depth(t) \in 1..Depth(t) /\ 1 \in 1..Depth(t) /\ Depth(t) = Len(stack[t])
         /\ Top(t) = stack[t][Depth(t)] /\ Top(t) \in Frames
         /\ Fit(t, Depth(t), Depth(t), Top(t))
         /\ stack[t][1] \in Frames /\ Fit(t, 1, Depth(t), stack[t][1])
<1>1. Depth(t) \in 1..MaxDepth BY DEF StacksFit
<1>2. Depth(t) \in Nat \ {0} /\ Depth(t) \in 1..Depth(t) /\ 1 \in 1..Depth(t)
  BY <1>1, StacksAreSequences
<1>3. \A d \in 1..Depth(t) : stack[t][d] \in Frames /\ Fit(t, d, Depth(t), stack[t][d])
  BY StacksAreSequences DEF StacksFit
<1> QED BY <1>1, <1>2, <1>3 DEF Top, Depth

-----------------------------------------------------------------------------
(* What a step keeps when it changes only the top frame of a thread, and   *)
(* neither who holds a slot nor who helps it.                              *)

JobsAlike ==
  \A k \in Slots : job'[k].live = job[k].live /\ job'[k].region = job[k].region
                   /\ job'[k].refs = job[k].refs

\* The frame f may stand where the top frame of t does.
Alike(t, f) ==
  /\ f \in Frames /\ f.n = Top(t).n
  /\ Fit(t, Depth(t), Depth(t), f)
  /\ Top(t).place # "post" /\ f.place # "post"
  /\ f.n > 0 => /\ f.place \in Owned <=> Top(t).place \in Owned
                /\ f.place \in Owned => f.slot = Top(t).slot
  /\ f.n = 0 => /\ f.region = Top(t).region
                /\ f.region # NoRegion => f.slot = Top(t).slot

\* Waking a frame does not make it unfit.
LEMMA FitsStill ==
  ASSUME NEW t, NEW d, NEW depth, NEW f, NEW g, Fit(t, d, depth, f), Becomes(f, g)
  PROVE  Fit(t, d, depth, g)
<1>1. d < depth => g.place \in {"chunk", "serial"} BY DEF Fit, Becomes
<1>2. t \in Workers /\ d = 1 => HelperFrame(g)
  BY DEF Fit, Becomes, HelperFrame, HelperPlaces, Joined
<1>3. RegionFrame(t, d, f) => RegionFrame(t, d, g)
  BY DEF Becomes, RegionFrame, Unpublished, Owned, Unshared
<1>4. f.place = "idle" => g.place = "idle" BY DEF Becomes
<1> QED BY <1>1, <1>2, <1>3, <1>4 DEF Fit, Becomes

\* The stacks fit after a step that sets a top frame that does.
LEMMA FitTop ==
  ASSUME TypeOK, StacksFit, NEW t \in Threads, NEW f, TopSet(t, f),
         Fit(t, Depth(t), Depth(t), f)
  PROVE  StacksFit'
<1> SUFFICES ASSUME NEW u \in Threads
             PROVE  Depth(u)' \in 1..MaxDepth
                    /\ \A d \in 1..Depth(u)' : Fit(u, d, Depth(u)', stack'[u][d])
  BY DEF StacksFit, Fit, HelperFrame, RegionFrame
<1>1. Depth(u)' = Depth(u) BY DEF TopSet, Depth
<1>2. Depth(u) \in 1..MaxDepth BY DEF StacksFit
<1>3. ASSUME NEW d \in 1..Depth(u) PROVE Fit(u, d, Depth(u), stack'[u][d])
  <2> DEFINE g == IF u = t /\ d = Depth(u) THEN f ELSE stack[u][d]
  <2>1. Becomes(g, stack'[u][d]) BY DEF TopSet, Depth
  <2>2. Fit(u, d, Depth(u), g) BY DEF StacksFit
  <2> HIDE DEF g
  <2> QED BY <2>1, <2>2, FitsStill
<1> QED BY <1>1, <1>2, <1>3

\* Slots stay with their holders, whichever frames change otherwise.
LEMMA HoldersStay ==
  ASSUME OneHolder, alive' = alive,
         \A k \in Slots : job'[k].live = job[k].live /\ job'[k].region = job[k].region,
         \A u \in Threads : Len(stack'[u]) = Len(stack[u]),
         \A u \in Threads : \A d \in 1..Len(stack[u]) :
           /\ stack'[u][d].n = stack[u][d].n
           /\ stack[u][d].n > 0 =>
                /\ stack'[u][d].place \in Owned <=> stack[u][d].place \in Owned
                /\ stack[u][d].place \in Owned => stack'[u][d].slot = stack[u][d].slot
  PROVE  OneHolder'
<1>1. \A u \in Threads : Depth(u)' = Depth(u) BY DEF Depth
<1>2. \A u \in Threads : \A d \in 1..Depth(u) : \A k \in Slots :
        Holds(u, d, k)' <=> Holds(u, d, k)
  BY DEF Holds, Depth
<1>3. ASSUME NEW u \in Threads, NEW d \in 1..Depth(u)', NEW k \in Slots, Holds(u, d, k)'
      PROVE  job'[k].live /\ job'[k].region = <<u, d>>
  BY <1>1, <1>2, <1>3 DEF OneHolder
<1>4. ASSUME NEW k \in Slots, job'[k].live
      PROVE  \E u \in Threads : \E d \in 1..Depth(u)' : Holds(u, d, k)'
  BY <1>1, <1>2, <1>4 DEF OneHolder
<1> QED BY <1>3, <1>4 DEF OneHolder

\* The helpers of a slot are those it had, if no worker's first frame says
\* otherwise.
LEMMA HelpersStay ==
  ASSUME TypeOK, HelpersAreInside, alive' = alive, JobsAlike,
         \A w \in Workers :
           /\ stack'[w][1].region = stack[w][1].region
           /\ stack[w][1].region # NoRegion => stack'[w][1].slot = stack[w][1].slot
  PROVE  HelpersAreInside' /\ \A k \in Slots : Helpers(k)' = Helpers(k)
<1>1. ASSUME NEW k \in Slots PROVE Helpers(k)' = Helpers(k)
  BY DEF Helpers, Helping
<1>2. ASSUME NEW k \in Slots
      PROVE  /\ job'[k].refs = Cardinality(Helpers(k)')
             /\ \A w \in Helpers(k)' : job'[k].live /\ job'[k].region = stack'[w][1].region
  <2>1. Cardinality(Helpers(k)') = Cardinality(Helpers(k)) BY <1>1, Zenon
  <2>2. Helpers(k) \subseteq Workers BY DEF Helpers
  <2> QED BY <1>1, <2>1, <2>2 DEF HelpersAreInside, JobsAlike
<1> QED BY <1>1, <1>2 DEF HelpersAreInside
\* A frame that may stand at the top may be put there.
LEMMA TopMoves ==
  ASSUME IInv, NEW t \in Threads, t \in alive, NEW f, Alike(t, f), TopSet(t, f),
         alive' = alive, mu' = mu, JobsAlike
  PROVE  /\ StacksFit' /\ OneHolder' /\ HelpersAreInside' /\ MutexIsPosting'
         /\ \A k \in Slots : Helpers(k)' = Helpers(k)
<1> USE DEF IInv
<1>t. Depth(t) \in 1..Depth(t) /\ Top(t) = stack[t][Depth(t)] /\ Depth(t) = Len(stack[t])
      /\ Top(t) \in Frames
  BY TopIsAFrame
<1>1. StacksFit' BY FitTop DEF Alike
<1>2. OneHolder'
  <2>1. \A u \in Threads : Len(stack'[u]) = Len(stack[u]) BY DEF TopSet
  <2>2. ASSUME NEW u \in Threads, NEW d \in 1..Len(stack[u])
        PROVE  /\ stack'[u][d].n = stack[u][d].n
               /\ stack[u][d].n > 0 =>
                    /\ stack'[u][d].place \in Owned <=> stack[u][d].place \in Owned
                    /\ stack[u][d].place \in Owned => stack'[u][d].slot = stack[u][d].slot
    <3>1. CASE u = t /\ d = Depth(t)
      <4>1. Becomes(f, stack'[u][d]) BY <1>t, <3>1 DEF TopSet
      <4> QED BY <1>t, <3>1, <4>1 DEF Alike, Becomes, Owned
    <3>2. CASE ~(u = t /\ d = Depth(t))
      <4>1. Becomes(stack[u][d], stack'[u][d]) BY <1>t, <3>2 DEF TopSet
      <4> QED BY <4>1 DEF Becomes, Owned
    <3> QED BY <3>1, <3>2
  <2> QED BY <2>1, <2>2, HoldersStay DEF JobsAlike
<1>3. HelpersAreInside' /\ \A k \in Slots : Helpers(k)' = Helpers(k)
  <2>1. ASSUME NEW w \in Workers
        PROVE  /\ stack'[w][1].region = stack[w][1].region
               /\ stack[w][1].region # NoRegion => stack'[w][1].slot = stack[w][1].slot
    <3>0. w \in Threads BY DEF Threads
    <3>1. 1 \in 1..Len(stack[w]) /\ Fit(w, 1, Depth(w), stack[w][1])
      BY <3>0, TopIsAFrame
    <3>2. CASE w = t /\ Depth(t) = 1
      <4>1. Becomes(f, stack'[w][1]) BY <1>t, <3>0, <3>1, <3>2 DEF TopSet
      <4>2. f.n = 0 BY <1>t, <3>1, <3>2 DEF Fit, HelperFrame, Alike
      <4> QED BY <1>t, <3>2, <4>1, <4>2 DEF Alike, Becomes
    <3>3. CASE ~(w = t /\ Depth(t) = 1)
      <4>1. ~(w = t /\ 1 = Len(stack[w])) BY <1>t, <3>3
      <4>2. Becomes(stack[w][1], stack'[w][1]) BY <3>0, <3>1, <4>1 DEF TopSet
      <4> QED BY <4>2 DEF Becomes
    <3> QED BY <3>2, <3>3
  <2> QED BY <2>1, HelpersStay
<1>4. MutexIsPosting'
  <2>1. ASSUME NEW u \in Threads
        PROVE  /\ u # t => Top(u)'.slot = Top(u).slot
               /\ At(u, "post")' <=> At(u, "post")
    <3>1. Depth(u) \in 1..Len(stack[u]) /\ Depth(u) = Len(stack[u]) BY TopIsAFrame
    <3>2. Depth(u)' = Depth(u) BY DEF TopSet, Depth
    <3>3. Top(u)' = stack'[u][Depth(u)] BY <3>2 DEF Top
    <3>4. Becomes(IF u = t THEN f ELSE Top(u), Top(u)') BY <3>1, <3>3 DEF TopSet, Top
    <3> QED BY <3>4 DEF At, Alike, Becomes
  <2>2. ASSUME mu' # Nobody PROVE At(mu, "post")' /\ job'[Top(mu)'.slot].refs = 0
    <3>1. mu \in Threads /\ At(mu, "post") /\ job[Top(mu).slot].refs = 0
      BY <2>2 DEF TypeOK, MutexIsPosting
    <3>2. mu # t BY <3>1 DEF At, Alike
    <3>3. Top(mu).slot \in Slots BY <3>1, TopIsAFrame DEF Frames
    <3> QED BY <2>1, <3>1, <3>2, <3>3 DEF JobsAlike
  <2>3. ASSUME NEW u \in Threads, At(u, "post")' PROVE mu' = u
    BY <2>1, <2>3 DEF MutexIsPosting
  <2> QED BY <2>2, <2>3 DEF MutexIsPosting
<1> QED BY <1>1, <1>2, <1>3, <1>4

\* Nothing is overlooked after such a step either, if it leaves no more work
\* than there was and its own worker overlooks none.
LEMMA StillWatchful ==
  ASSUME IInv, NEW t \in Threads, t \in alive, NEW f, TopSet(t, f),
         Top(t).place # "post", alive' = alive, mu' = mu, gen' = gen,
         \A k \in Slots : job'[k].region = job[k].region /\ (HasWork(k)' => HasWork(k)),
         \A w \in Workers : w # t => seen'[w] = seen[w],
         t \in Workers => IF Depth(t) = 1 THEN Watchful(f, seen'[t]) ELSE seen'[t] = seen[t]
  PROVE  NothingOverlooked'
<1> USE DEF IInv
<1>1. ASSUME NEW k \in Slots, Filling(k) PROVE Filling(k)'
  <2>1. mu \in Threads BY <1>1 DEF Filling, TypeOK
  <2>2. Depth(mu)' = Depth(mu) BY <2>1 DEF TopSet, Depth
  <2> QED BY <1>1, <2>2 DEF Filling, Mine
<1>2. ASSUME NEW w \in Workers, w \in alive PROVE Watchful(stack[w][1], seen[w])
  BY <1>2 DEF NothingOverlooked
<1>3. ASSUME NEW w \in Workers, w \in alive PROVE Watchful(stack'[w][1], seen'[w])
  <2>0. w \in Threads BY DEF Threads
  <2>1. 1 \in 1..Len(stack[w]) /\ Depth(w) = Len(stack[w]) BY <2>0, TopIsAFrame
  <2>2. CASE w = t /\ Depth(t) = 1
    <3>1. Becomes(f, stack'[w][1]) BY <2>0, <2>1, <2>2 DEF TopSet
    <3>2. Watchful(f, seen'[w]) BY <2>2
    <3> QED BY <3>1, <3>2 DEF Becomes, Watchful, Overlooked
  <2>3. CASE ~(w = t /\ Depth(t) = 1)
    <3>1. Becomes(stack[w][1], stack'[w][1]) BY <2>0, <2>1, <2>3 DEF TopSet
    <3>2. seen'[w] = seen[w] BY <2>3
    <3>3. Watchful(stack[w][1], seen'[w]) BY <1>2, <1>3, <3>2
    <3> QED BY <3>1, <3>3 DEF Becomes, Watchful, Overlooked
  <2> QED BY <2>2, <2>3
<1>4. ASSUME NEW w \in Workers, w \in alive' PROVE Watchful(stack[w][1], seen[w])'
  <2>1. Watchful(stack'[w][1], seen'[w]) BY <1>3, <1>4
  <2>2. ASSUME NEW k \in Slots, seen'[w] = gen', Overlooked(stack[w][1], k)', HasWork(k)'
        PROVE  Filling(k)'
    BY <1>1, <2>1, <2>2 DEF Watchful, Overlooked
  <2> QED BY <2>1, <2>2 DEF Watchful
<1> QED BY <1>4 DEF NothingOverlooked
\* A step in which a thread moves: its top frame changes for one that may
\* stand there, and a job at most hands out items.
Moves(t, f) ==
  /\ t \in alive /\ Alike(t, f) /\ f.place # "absent" /\ TopSet(t, f)
  /\ alive' = alive /\ mu' = mu /\ mode' = mode /\ gen' = gen
  /\ JobsAlike
  /\ \A k \in Slots : job'[k].n = job[k].n /\ job'[k].cap = job[k].cap
                      /\ job'[k].next >= job[k].next
  /\ f.place = "leave" => job'[f.slot].next >= job'[f.slot].n
  /\ \A w \in Workers : w # t => seen'[w] = seen[w]
  /\ t \in Workers => IF Depth(t) = 1 THEN Watchful(f, seen'[t]) ELSE seen'[t] = seen[t]

\* The first frame of a worker after such a step.
LEMMA FirstAfter ==
  ASSUME IInv, NEW t \in Threads, NEW f, TopSet(t, f), NEW w \in Workers
  PROVE  Becomes(IF w = t /\ Depth(t) = 1 THEN f ELSE stack[w][1], stack'[w][1])
<1>0. w \in Threads BY DEF Threads
<1>1. 1 \in 1..Len(stack[w]) /\ Depth(w) = Len(stack[w]) BY <1>0, TopIsAFrame DEF IInv
<1>2. Becomes(IF w = t /\ 1 = Len(stack[w]) THEN f ELSE stack[w][1], stack'[w][1])
  BY <1>0, <1>1 DEF TopSet
<1>3. CASE w = t
  BY <1>1, <1>2, <1>3
<1>4. CASE w # t
  BY <1>2, <1>4
<1> QED BY <1>3, <1>4

\* A worker that lives has been born, and one that has not has seen nothing.
LEMMA BornStay ==
  ASSUME IInv, NEW t \in Threads, t \in alive, NEW f, TopSet(t, f), f.place # "absent",
         alive' = alive, \A w \in Workers : w # t => seen'[w] = seen[w],
         t \in Workers /\ Depth(t) # 1 => seen'[t] = seen[t]
  PROVE  WorkersAreBorn'
<1> SUFFICES ASSUME NEW w \in Workers
             PROVE  /\ w \in alive => stack'[w][1].place # "absent"
                    /\ stack'[w][1].place = "absent" => seen'[w] = 0
  BY DEF WorkersAreBorn
<1>1. /\ w \in alive => stack[w][1].place # "absent"
      /\ stack[w][1].place = "absent" => seen[w] = 0
  BY DEF IInv, WorkersAreBorn
<1>2. Becomes(IF w = t /\ Depth(t) = 1 THEN f ELSE stack[w][1], stack'[w][1]) BY FirstAfter
<1>3. CASE w = t /\ Depth(t) = 1
  BY <1>2, <1>3 DEF Becomes
<1>4. CASE ~(w = t /\ Depth(t) = 1)
  <2>1. seen'[w] = seen[w] BY <1>4
  <2> QED BY <1>1, <1>2, <1>4, <2>1 DEF Becomes
<1> QED BY <1>3, <1>4

\* Those who leave still leave nothing, if no item is put back.
LEMMA LeavesStay ==
  ASSUME IInv, TypeOK', NEW t \in Threads, NEW f, TopSet(t, f), alive' = alive,
         f.place = "leave" => job'[f.slot].next >= job'[f.slot].n,
         \A w \in Workers : w \in alive /\ stack[w][1].place = "leave" =>
           LET k == stack[w][1].slot
           IN  job'[k].n = job[k].n /\ job'[k].next >= job[k].next
  PROVE  LeavesNothing'
<1> SUFFICES ASSUME NEW w \in Workers, w \in alive, stack'[w][1].place = "leave"
             PROVE  job'[stack'[w][1].slot].next >= job'[stack'[w][1].slot].n
  BY DEF LeavesNothing
<1>0. w \in Threads BY DEF Threads
<1>1. Becomes(IF w = t /\ Depth(t) = 1 THEN f ELSE stack[w][1], stack'[w][1]) BY FirstAfter
<1>2. CASE w = t /\ Depth(t) = 1
  BY <1>1, <1>2 DEF Becomes
<1>3. CASE ~(w = t /\ Depth(t) = 1)
  <2>1. stack[w][1].place = "leave" /\ stack'[w][1].slot = stack[w][1].slot
    BY <1>1, <1>3 DEF Becomes
  <2>2. stack[w][1] \in Frames BY <1>0, TopIsAFrame DEF IInv
  <2> DEFINE k == stack[w][1].slot
  <2>3. k \in Slots BY <2>2 DEF Frames
  <2>4. job[k].next >= job[k].n BY <2>1 DEF IInv, LeavesNothing
  <2>5. job'[k].n = job[k].n /\ job'[k].next >= job[k].next BY <2>1
  <2> HIDE DEF k
  <2>6. {job[k].n, job[k].next, job'[k].n, job'[k].next} \subseteq Nat
    BY <2>3 DEF IInv, TypeOK
  <2>7. job'[k].next >= job'[k].n BY <2>4, <2>5, <2>6
  <2> QED BY <2>1, <2>7 DEF k
<1> QED BY <1>2, <1>3

\* All but the types and the count of the waiters survives such a step.
LEMMA MovesAreSafe ==
  ASSUME IInv, NEW t \in Threads, NEW f, Moves(t, f), TypeOK'
  PROVE  /\ StacksFit' /\ OneHolder' /\ HelpersAreInside' /\ MutexIsPosting'
         /\ WorkersAreBorn' /\ LeavesNothing' /\ NothingOverlooked'
<1> USE DEF Moves
<1>1. StacksFit' /\ OneHolder' /\ HelpersAreInside' /\ MutexIsPosting' BY TopMoves
<1>2. WorkersAreBorn' BY BornStay
<1>3. LeavesNothing'
  <2>1. ASSUME NEW w \in Workers
        PROVE  job'[stack[w][1].slot].n = job[stack[w][1].slot].n
               /\ job'[stack[w][1].slot].next >= job[stack[w][1].slot].next
    <3>1. w \in Threads BY DEF Threads
    <3>2. stack[w][1].slot \in Slots BY <3>1, TopIsAFrame DEF IInv, Frames
    <3> QED BY <3>2
  <2> QED BY <2>1, LeavesStay
<1>4. NothingOverlooked'
  <2>1. ASSUME NEW k \in Slots PROVE job'[k].region = job[k].region /\ (HasWork(k)' => HasWork(k))
    <3>1. job[k] \in [live : BOOLEAN, n : Nat, next : Nat, refs : Nat, cap : Nat,
                      low : BOOLEAN, region : Regions \cup {NoRegion}]
          /\ job'[k] \in [live : BOOLEAN, n : Nat, next : Nat, refs : Nat, cap : Nat,
                          low : BOOLEAN, region : Regions \cup {NoRegion}]
      BY DEF IInv, TypeOK
    <3>2. job'[k].live = job[k].live /\ job'[k].region = job[k].region
          /\ job'[k].refs = job[k].refs /\ job'[k].n = job[k].n /\ job'[k].cap = job[k].cap
          /\ job'[k].next >= job[k].next
      BY DEF JobsAlike
    <3> QED BY <3>1, <3>2 DEF HasWork
  <2> QED BY <2>1, StillWatchful DEF Alike
<1> QED BY <1>1, <1>2, <1>3, <1>4

\* Whether a frame waits for helpers.
Waits(f) == f.place \in {"settle", "barrier"}

\* Who is at the top of its stack after the top frame of one is set.
LEMMA TopAfter ==
  ASSUME IInv, NEW t \in Threads, NEW f, TopSet(t, f), NEW u \in Threads
  PROVE  Depth(u)' = Depth(u) /\ Becomes(IF u = t THEN f ELSE Top(u), Top(u)')
<1>1. Depth(u) \in 1..Len(stack[u]) /\ Depth(u) = Len(stack[u]) BY TopIsAFrame DEF IInv
<1>2. Depth(u)' = Depth(u) BY DEF TopSet, Depth
<1>3. Top(u)' = stack'[u][Depth(u)] BY <1>2 DEF Top
<1> QED BY <1>1, <1>2, <1>3 DEF TopSet, Top

LEMMA WaitersStay ==
  ASSUME IInv, NEW t \in Threads, NEW f, TopSet(t, f), alive' = alive, mode' = mode,
         doneWaiters' = doneWaiters, Waits(f) <=> Waits(Top(t))
  PROVE  WaitersAreCounted'
<1>1. ASSUME NEW u \in Threads
      PROVE  (At(u, "settle") \/ At(u, "barrier"))' <=> (At(u, "settle") \/ At(u, "barrier"))
  <2>1. Becomes(IF u = t THEN f ELSE Top(u), Top(u)') BY TopAfter
  <2> QED BY <2>1 DEF At, Waits, Becomes
<1>2. Waiters' = Waiters BY <1>1 DEF Waiters
<1>3. Cardinality(Waiters') = Cardinality(Waiters) BY <1>2, Zenon
<1> QED BY <1>3 DEF IInv, WaitersAreCounted

\* The top frame of a thread is a region's, a worker's loop, or idle, and its
\* place tells which.
LEMMA TopTells ==
  ASSUME IInv, NEW t \in Threads
  PROVE  /\ Top(t).n > 0 => /\ ~(t \in Workers /\ Depth(t) = 1)
                            /\ RegionFrame(t, Depth(t), Top(t))
                            /\ Mine(t) \in Regions
         /\ Top(t).n = 0 /\ Top(t).place # "idle" =>
              t \in Workers /\ Depth(t) = 1 /\ HelperFrame(Top(t))
         /\ Top(t).place \in Unpublished \cup Unshared \cup {"post", "drained", "settle", "barrier"}
              => Top(t).n > 0
         /\ Top(t).place \in {"top", "scan", "pick", "spin", "asleep", "woken", "leave", "peek", "notify"}
              => Top(t).n = 0
         /\ Top(t).place = "idle" => Depth(t) = 1 /\ t \in Submitters /\ Top(t).n = 0
         /\ Top(t).n \in Nat
<1>1. Fit(t, Depth(t), Depth(t), Top(t)) /\ Depth(t) \in 1..MaxDepth /\ Top(t) \in Frames
      /\ Depth(t) \in Nat \ {0}
  BY TopIsAFrame DEF IInv
<1>2. CASE t \in Workers /\ Depth(t) = 1
  BY <1>1, <1>2 DEF Fit, HelperFrame, HelperPlaces, Unpublished, Unshared, Frames
<1>3. CASE ~(t \in Workers /\ Depth(t) = 1)
  <2>1. RegionFrame(t, Depth(t), Top(t))
        \/ (Top(t).place = "idle" /\ Top(t).n = 0 /\ Depth(t) = 1)
    BY <1>1, <1>3 DEF Fit
  <2>2. Mine(t) \in Regions
    <3>1. CASE t \in Submitters BY <1>1, <3>1, Names DEF Mine
    <3>2. CASE t \notin Submitters
      <4>1. Depth(t) \in 2..MaxDepth BY <1>1, <1>3, <3>2 DEF Threads
      <4> QED BY <4>1, Names DEF Mine
    <3> QED BY <3>1, <3>2
  <2>3. Top(t).place = "idle" => Depth(t) = 1 /\ t \in Submitters /\ Top(t).n = 0
    BY <1>3, <2>1 DEF RegionFrame, Unpublished, Owned, Unshared, Threads
  <2>4. Top(t).n \in Nat BY <1>1 DEF Frames
  <2> QED BY <1>3, <2>1, <2>2, <2>3, <2>4 DEF RegionFrame, Unpublished, Owned, Unshared
<1> QED BY <1>2, <1>3

\* A step that changes nothing but the top frame of a thread, and at most what
\* its own worker has seen.
Quiet(t, f) ==
  /\ t \in alive /\ Alike(t, f) /\ f.place \notin {"absent", "leave"}
  /\ Waits(f) <=> Waits(Top(t))
  /\ stack' = With(t, f)
  /\ UNCHANGED <<mode, pool, mu, inited, team, alive, forks>>
  /\ started' \in [Regions -> SUBSET Nat] /\ begun' \in Nat
  /\ seen' \in [Workers -> Nat] /\ (\A w \in Workers : w # t => seen'[w] = seen[w])
  /\ t \in Workers => IF Depth(t) = 1 THEN Watchful(f, seen'[t]) ELSE seen'[t] = seen[t]

LEMMA QuietIsSafe ==
  ASSUME IInv, NEW t \in Threads, NEW f, Quiet(t, f)
  PROVE  IInv'
<1> USE DEF Quiet
<1>1. TopSet(t, f)
  <2>1. Depth(t) \in Nat \ {0} BY TopIsAFrame DEF IInv
  <2> QED BY <2>1, TopIsSet DEF IInv, Alike
<1>2. TypeOK'
  BY <1>1 DEF IInv, TypeOK, TopSet, Frames, pool
<1>3. Moves(t, f)
  <2>1. \A k \in Slots : job'[k].next >= job[k].next
    BY DEF IInv, TypeOK, pool
  <2>2. JobsAlike BY DEF JobsAlike, pool
  <2> QED BY <1>1, <2>1, <2>2 DEF Moves, pool
<1>4. WaitersAreCounted' BY <1>1, WaitersStay DEF pool
<1> QED BY <1>2, <1>3, <1>4, MovesAreSafe DEF IInv
-----------------------------------------------------------------------------
(* The steps of a submitter that only move it.                             *)

\* A region's frame may stand where another of the same region does.
LEMMA RegionMoves ==
  ASSUME IInv, NEW t \in Threads, Top(t).n > 0, NEW f \in Frames, f.n = Top(t).n,
         RegionFrame(t, Depth(t), f), Top(t).place # "post", f.place # "post",
         f.place \in Owned <=> Top(t).place \in Owned,
         f.place \in Owned => f.slot = Top(t).slot
  PROVE  Alike(t, f) /\ f.place \notin {"absent", "leave"}
<1>1. ~(t \in Workers /\ Depth(t) = 1) /\ Depth(t) \in Nat
  BY TopTells, TopIsAFrame DEF IInv
<1>2. Fit(t, Depth(t), Depth(t), f) BY <1>1 DEF Fit
<1> QED BY <1>2 DEF Alike, RegionFrame, Unpublished, Owned, Unshared, Frames

\* So it is for its thread, when it stays as it was otherwise.
LEMMA RegionStep ==
  ASSUME IInv, NEW t \in Threads, t \in alive, Top(t).n > 0, NEW f \in Frames, f.n = Top(t).n,
         RegionFrame(t, Depth(t), f), Top(t).place # "post", f.place # "post",
         f.place \in Owned <=> Top(t).place \in Owned,
         f.place \in Owned => f.slot = Top(t).slot,
         Waits(f) <=> Waits(Top(t)), stack' = With(t, f),
         UNCHANGED <<mode, pool, mu, inited, team, alive, seen, forks>>,
         started' \in [Regions -> SUBSET Nat], begun' = begun
  PROVE  IInv'
<1>1. Alike(t, f) /\ f.place \notin {"absent", "leave"} BY RegionMoves
<1>2. ~(t \in Workers /\ Depth(t) = 1) BY TopTells
<1>3. Quiet(t, f) BY <1>1, <1>2 DEF Quiet, IInv, TypeOK
<1> QED BY <1>3, QuietIsSafe

LEMMA CallIsSafe ==
  ASSUME IInv, NEW t \in Threads, Call(t)
  PROVE  IInv'
<1>1. t \in alive /\ Top(t).place = "call" BY DEF Call, At
<1>2. Top(t).n > 0 /\ RegionFrame(t, Depth(t), Top(t)) /\ Mine(t) \in Regions /\ Top(t) \in Frames
  BY <1>1, TopTells, TopIsAFrame DEF IInv, Unpublished
<1> DEFINE f == IF Serial(t) THEN [Top(t) EXCEPT !.place = "inline", !.region = Mine(t)]
                ELSE [Top(t) EXCEPT !.place = "publish"]
<1>3. stack' = With(t, f) BY DEF Call, RunInline
<1>4. f \in Frames /\ f.n = Top(t).n /\ RegionFrame(t, Depth(t), f)
      /\ f.place \in {"inline", "publish"}
  BY <1>1, <1>2 DEF RegionFrame, Frames, Places, Unpublished, Unshared, Owned, Mine
<1>5. started' \in [Regions -> SUBSET Nat] /\ begun' = begun
      /\ UNCHANGED <<mode, pool, mu, inited, team, alive, seen, forks>>
  BY DEF Call, IInv, TypeOK
<1> HIDE DEF f
<1>6. f.place \notin Owned /\ Top(t).place \notin Owned /\ ~Waits(f) /\ ~Waits(Top(t))
  BY <1>1, <1>4 DEF Owned, Waits
<1> QED BY <1>1, <1>2, <1>3, <1>4, <1>5, <1>6, RegionStep

LEMMA NoSlotIsSafe ==
  ASSUME IInv, NEW t \in Threads, NoSlot(t)
  PROVE  IInv'
<1>1. t \in alive /\ Top(t).place = "publish" BY DEF NoSlot, At
<1>2. Top(t).n > 0 /\ RegionFrame(t, Depth(t), Top(t)) /\ Mine(t) \in Regions /\ Top(t) \in Frames
  BY <1>1, TopTells, TopIsAFrame DEF IInv, Unpublished
<1> DEFINE f == [Top(t) EXCEPT !.place = "inline", !.region = Mine(t)]
<1>3. stack' = With(t, f) BY DEF NoSlot, RunInline
<1>4. f \in Frames /\ f.n = Top(t).n /\ RegionFrame(t, Depth(t), f) /\ f.place = "inline"
  BY <1>1, <1>2 DEF RegionFrame, Frames, Places, Unpublished, Unshared, Owned, Mine
<1>5. started' \in [Regions -> SUBSET Nat] /\ begun' = begun
      /\ UNCHANGED <<mode, pool, mu, inited, team, alive, seen, forks>>
  BY DEF NoSlot, IInv, TypeOK
<1> HIDE DEF f
<1>6. f.place \notin Owned /\ Top(t).place \notin Owned /\ ~Waits(f) /\ ~Waits(Top(t))
  BY <1>1, <1>4 DEF Owned, Waits
<1> QED BY <1>1, <1>2, <1>3, <1>4, <1>5, <1>6, RegionStep

LEMMA AwaitHelpersIsSafe ==
  ASSUME IInv, NEW t \in Threads, AwaitHelpers(t)
  PROVE  IInv'
<1>1. t \in alive /\ Top(t).place = "settle" BY DEF AwaitHelpers, At
<1>2. Top(t).n > 0 /\ RegionFrame(t, Depth(t), Top(t)) /\ Top(t) \in Frames
  BY <1>1, TopTells, TopIsAFrame DEF IInv
<1> DEFINE f == [Top(t) EXCEPT !.place = "barrier"]
<1>3. stack' = With(t, f) BY DEF AwaitHelpers, Goto
<1>4. f \in Frames /\ f.n = Top(t).n /\ RegionFrame(t, Depth(t), f) /\ f.place = "barrier"
      /\ f.slot = Top(t).slot
  BY <1>1, <1>2 DEF RegionFrame, Frames, Places, Unpublished, Unshared, Owned
<1>5. started' \in [Regions -> SUBSET Nat] /\ begun' = begun
      /\ UNCHANGED <<mode, pool, mu, inited, team, alive, seen, forks>>
  BY DEF AwaitHelpers, IInv, TypeOK
<1> HIDE DEF f
<1>6. f.place \in Owned /\ Top(t).place \in Owned /\ Waits(f) /\ Waits(Top(t))
  BY <1>1, <1>4 DEF Owned, Waits
<1> QED BY <1>1, <1>2, <1>3, <1>4, <1>5, <1>6, RegionStep

LEMMA FinishInlineIsSafe ==
  ASSUME IInv, NEW t \in Threads, FinishInline(t)
  PROVE  IInv'
<1>1. t \in alive /\ Top(t).place = "serial" BY DEF FinishInline, At
<1>2. Top(t).n > 0 /\ RegionFrame(t, Depth(t), Top(t)) /\ Top(t) \in Frames
  BY <1>1, TopTells, TopIsAFrame DEF IInv, Unshared
<1> DEFINE f == [Top(t) EXCEPT !.place = "inline", !.item = @ + 1]
<1>3. stack' = With(t, f) BY DEF FinishInline
<1>4. f \in Frames /\ f.n = Top(t).n /\ RegionFrame(t, Depth(t), f) /\ f.place = "inline"
  <2>1. f \in Frames /\ f.n = Top(t).n /\ f.region = Top(t).region /\ f.place = "inline"
    <3>1. Top(t).item + 1 \in Nat BY <1>2 DEF Frames
    <3>2. f = [[Top(t) EXCEPT !.place = "inline"] EXCEPT !.item = Top(t).item + 1]
      BY <1>2 DEF Frames
    <3>3. [Top(t) EXCEPT !.place = "inline"] \in Frames BY <1>2 DEF Frames, Places
    <3> QED BY <1>2, <3>1, <3>2, <3>3 DEF Frames
  <2> HIDE DEF f
  <2> QED BY <1>1, <1>2, <2>1 DEF RegionFrame, Unpublished, Unshared, Owned
<1>5. started' \in [Regions -> SUBSET Nat] /\ begun' = begun
      /\ UNCHANGED <<mode, pool, mu, inited, team, alive, seen, forks>>
  BY DEF FinishInline, IInv, TypeOK
<1> HIDE DEF f
<1>6. f.place \notin Owned /\ Top(t).place \notin Owned /\ ~Waits(f) /\ ~Waits(Top(t))
  BY <1>1, <1>4 DEF Owned, Waits
<1> QED BY <1>1, <1>2, <1>3, <1>4, <1>5, <1>6, RegionStep
-----------------------------------------------------------------------------
(* The steps of a worker that only move it.                                *)

\* A worker in its loop, or in a region it helps.
LEMMA HelperOnTop ==
  ASSUME IInv, NEW t \in Threads, t \in alive, Top(t).n = 0, Top(t).place # "idle"
  PROVE  /\ t \in Workers /\ Depth(t) = 1 /\ Top(t) = stack[t][1] /\ Top(t) \in Frames
         /\ HelperFrame(Top(t)) /\ Watchful(Top(t), seen[t])
         /\ seen[t] \in Nat /\ gen \in Nat /\ seen[t] <= gen
<1>1. t \in Workers /\ Depth(t) = 1 /\ HelperFrame(Top(t)) BY TopTells
<1>2. Top(t) = stack[t][1] /\ Top(t) \in Frames BY <1>1, TopIsAFrame DEF IInv
<1>3. Watchful(Top(t), seen[t]) BY <1>1, <1>2 DEF IInv, NothingOverlooked
<1> QED BY <1>1, <1>2, <1>3 DEF IInv, TypeOK, Watchful

LEMMA HelperStep ==
  ASSUME IInv, NEW t \in Threads, t \in alive, Top(t).n = 0, Top(t).place # "idle",
         NEW f \in Frames, HelperFrame(f), f.place \notin {"absent", "leave"},
         f.region = Top(t).region, f.region # NoRegion => f.slot = Top(t).slot,
         stack' = With(t, f), UNCHANGED <<mode, pool, mu, inited, team, alive, forks>>,
         UNCHANGED <<started, begun>>,
         seen' \in [Workers -> Nat], \A w \in Workers : w # t => seen'[w] = seen[w],
         Watchful(f, seen'[t])
  PROVE  IInv'
<1>1. t \in Workers /\ Depth(t) = 1 /\ HelperFrame(Top(t)) BY HelperOnTop
<1>2. Fit(t, Depth(t), Depth(t), f) BY <1>1 DEF Fit
<1>3. Alike(t, f) /\ ~Waits(f) /\ ~Waits(Top(t))
  BY <1>1, <1>2 DEF Alike, HelperFrame, HelperPlaces, Waits
<1>4. Quiet(t, f) BY <1>1, <1>3 DEF Quiet, IInv, TypeOK
<1> QED BY <1>4, QuietIsSafe

LEMMA FinishIsSafe ==
  ASSUME IInv, NEW t \in Threads, Finish(t)
  PROVE  IInv'
<1>1. t \in alive /\ Top(t).place = "chunk" BY DEF Finish, At
<1>2. Top(t) \in Frames BY TopIsAFrame DEF IInv
<1> DEFINE f == [Top(t) EXCEPT !.place = "fetch", !.item = 0]
<1>3. stack' = With(t, f) BY DEF Finish
<1>4. f \in Frames /\ f.n = Top(t).n /\ f.region = Top(t).region /\ f.slot = Top(t).slot
      /\ f.place = "fetch" /\ f.item = 0
  BY <1>2 DEF Frames, Places
<1> HIDE DEF f
<1>5. CASE Top(t).n > 0
  <2>1. RegionFrame(t, Depth(t), f)
    BY <1>1, <1>4, <1>5, TopTells DEF RegionFrame, Unpublished, Owned
  <2>2. f.place \in Owned /\ Top(t).place \in Owned /\ ~Waits(f) /\ ~Waits(Top(t))
    BY <1>1, <1>4 DEF Owned, Waits
  <2>3. started' \in [Regions -> SUBSET Nat] /\ begun' = begun
        /\ UNCHANGED <<mode, pool, mu, inited, team, alive, seen, forks>>
    BY DEF Finish, IInv, TypeOK
  <2> QED BY <1>1, <1>3, <1>4, <1>5, <2>1, <2>2, <2>3, RegionStep
<1>6. CASE Top(t).n = 0
  <2>1. HelperFrame(Top(t)) /\ seen[t] <= gen BY <1>1, <1>6, HelperOnTop
  <2>2. HelperFrame(f) BY <1>1, <1>4, <1>6, <2>1 DEF HelperFrame, HelperPlaces, Joined
  <2>3. Watchful(f, seen'[t]) BY <1>4, <2>1 DEF Watchful, Overlooked, Finish
  <2> QED BY <1>1, <1>3, <1>4, <1>6, <2>2, <2>3, HelperStep DEF Finish, IInv, TypeOK
<1> QED BY <1>2, <1>5, <1>6 DEF Frames

LEMMA LookIsSafe ==
  ASSUME IInv, NEW w \in Workers, Look(w)
  PROVE  IInv'
<1>1. w \in alive /\ Top(w).place = "top" /\ w \in Threads BY DEF Look, At, Threads
<1>2. Top(w).n = 0 BY <1>1, TopTells
<1>3. HelperFrame(Top(w)) /\ Top(w) \in Frames /\ seen[w] <= gen /\ gen \in Nat
  BY <1>1, <1>2, HelperOnTop
<1> DEFINE f == [Top(w) EXCEPT !.place = IF mode.precheck THEN "scan" ELSE "pick"]
<1>4. stack' = With(w, f) BY DEF Look, Goto
<1>5. f \in Frames /\ f.region = Top(w).region /\ f.slot = Top(w).slot /\ f.n = Top(w).n
      /\ f.item = Top(w).item /\ f.place = IF mode.precheck THEN "scan" ELSE "pick"
  BY <1>3 DEF Frames, Places
<1> HIDE DEF f
<1>6. Top(w).item = 0 BY <1>1, <1>3 DEF HelperFrame, Joined
<1>7. HelperFrame(f)
  BY <1>1, <1>2, <1>3, <1>5, <1>6, Names DEF HelperFrame, HelperPlaces, Joined
<1>8. seen' = IF mode.precheck THEN [seen EXCEPT ![w] = gen] ELSE seen BY DEF Look
<1>9. seen' \in [Workers -> Nat] /\ (\A u \in Workers : u # w => seen'[u] = seen[u])
      /\ seen'[w] <= gen
  BY <1>3, <1>8 DEF IInv, TypeOK
<1>10. Watchful(f, seen'[w])
  BY <1>5, <1>6, <1>9, Names DEF Watchful, Overlooked
<1> QED
  BY <1>1, <1>2, <1>4, <1>5, <1>7, <1>9, <1>10, HelperStep DEF Look

LEMMA ScanIsSafe ==
  ASSUME IInv, NEW w \in Workers, Scan(w)
  PROVE  IInv'
<1>1. w \in alive /\ Top(w).place = "scan" /\ w \in Threads BY DEF Scan, At, Threads
<1>2. Top(w).n = 0 BY <1>1, TopTells
<1>3. HelperFrame(Top(w)) /\ Top(w) \in Frames /\ seen[w] <= gen /\ Watchful(Top(w), seen[w])
  BY <1>1, <1>2, HelperOnTop
<1> DEFINE k == Top(w).item
           f == IF HasWork(k) THEN Frame("pick")
                ELSE IF k + 1 < MaxJobs THEN [Top(w) EXCEPT !.item = k + 1] ELSE Frame("spin")
<1>4. stack' = With(w, f) BY DEF Scan
<1>5. k \in Slots /\ Top(w).region = NoRegion
  BY <1>1, <1>3 DEF HelperFrame, Joined
<1>6. k \in Nat /\ MaxJobs \in Nat /\ k < MaxJobs BY <1>5, PoolAssumption DEF Slots
<1>7. seen' = seen /\ seen' \in [Workers -> Nat] BY DEF Scan, IInv, TypeOK
<1>8. f \in Frames /\ HelperFrame(f) /\ f.place \in {"pick", "scan", "spin"} /\ f.region = NoRegion
      /\ Watchful(f, seen[w])
  <2>1. CASE HasWork(k)
    <3>1. f = Frame("pick") BY <2>1
    <3> HIDE DEF f
    <3> QED BY <1>3, <3>1, FreshFrames
          DEF HelperFrame, HelperPlaces, Joined, Frame, Places, Watchful, Overlooked
  <2>2. CASE ~HasWork(k) /\ k + 1 < MaxJobs
    <3>1. f = [Top(w) EXCEPT !.item = k + 1] BY <2>2
    <3>2. k + 1 \in Slots /\ k + 1 \in Nat BY <1>6, <2>2 DEF Slots
    <3> HIDE DEF k, f
    <3>3. f \in Frames /\ f.item = k + 1 /\ f.place = "scan" /\ f.region = NoRegion /\ f.n = 0
      BY <1>1, <1>2, <1>3, <1>5, <3>1, <3>2 DEF Frames
    <3>4. HelperFrame(f) BY <3>2, <3>3 DEF HelperFrame, HelperPlaces, Joined
    <3>5. \A j \in Slots : j < k + 1 => j < k \/ j = k BY <1>6, Names
    <3>6. Watchful(f, seen[w])
      BY <1>1, <1>3, <2>2, <3>3, <3>5 DEF Watchful, Overlooked, k
    <3> QED BY <3>3, <3>4, <3>6
  <2>3. CASE ~HasWork(k) /\ ~(k + 1 < MaxJobs)
    <3>1. f = Frame("spin") BY <2>3
    <3>2. \A j \in Slots : j < k \/ j = k BY <1>6, <2>3 DEF Slots
    <3> HIDE DEF f
    <3>3. f \in Frames /\ HelperFrame(f) /\ f.place = "spin" /\ f.region = NoRegion
      BY <3>1, FreshFrames DEF HelperFrame, HelperPlaces, Joined, Frame, Places
    <3>4. Watchful(f, seen[w])
      BY <1>1, <1>3, <2>3, <3>2, <3>3 DEF Watchful, Overlooked
    <3> QED BY <3>3, <3>4
  <2> QED BY <2>1, <2>2, <2>3
<1> HIDE DEF f
<1> QED BY <1>1, <1>2, <1>4, <1>5, <1>7, <1>8, HelperStep DEF Scan

\* A worker that goes on to a place of its loop, empty-handed.
LEMMA LoopStep ==
  ASSUME IInv, NEW t \in Threads, t \in alive, Top(t).n = 0,
         Top(t).place \notin Joined \cup {"scan", "idle"},
         NEW place \in HelperPlaces \ (Joined \cup {"scan"}), Goto(t, place),
         UNCHANGED <<mode, pool, mu, inited, team, alive, forks>>, UNCHANGED <<started, begun>>,
         seen' \in [Workers -> Nat], \A w \in Workers : w # t => seen'[w] = seen[w],
         seen'[t] <= gen, place = "asleep" => seen'[t] = gen,
         place \in {"spin", "asleep", "woken"} =>
           (seen'[t] = gen => \A k \in Slots : HasWork(k) => Filling(k))
  PROVE  IInv'
<1>1. t \in Workers /\ HelperFrame(Top(t)) /\ Top(t) \in Frames BY HelperOnTop
<1> DEFINE f == [Top(t) EXCEPT !.place = place]
<1>2. stack' = With(t, f) BY DEF Goto
<1>3. f \in Frames /\ f.region = Top(t).region /\ f.slot = Top(t).slot /\ f.n = Top(t).n
      /\ f.item = Top(t).item /\ f.place = place
  BY <1>1 DEF Frames, Places, HelperPlaces
<1> HIDE DEF f
<1>4. HelperFrame(f) BY <1>1, <1>3 DEF HelperFrame, Joined
<1>5. f.place \notin {"absent", "leave"} BY <1>3 DEF Joined, HelperPlaces
<1>6. Watchful(f, seen'[t]) BY <1>3 DEF Watchful, Overlooked
<1> QED BY <1>2, <1>3, <1>4, <1>5, <1>6, HelperStep

LEMMA PickNothingIsSafe ==
  ASSUME IInv, NEW w \in Workers, PickNothing(w)
  PROVE  IInv'
<1>1. w \in alive /\ Top(w).place = "pick" /\ w \in Threads BY DEF PickNothing, At, Threads
<1>2. Top(w).n = 0 BY <1>1, TopTells
<1>3. \A k \in Slots : ~HasWork(k) BY DEF PickNothing, Candidates
<1>4. gen \in Nat /\ seen' = [seen EXCEPT ![w] = gen] /\ seen \in [Workers -> Nat]
  BY DEF PickNothing, IInv, TypeOK
<1>5. "spin" \in HelperPlaces \ (Joined \cup {"scan"}) /\ Goto(w, "spin")
      /\ Top(w).place \notin Joined \cup {"scan", "idle"}
  BY <1>1 DEF HelperPlaces, Joined, PickNothing
<1> QED BY <1>1, <1>2, <1>3, <1>4, <1>5, LoopStep DEF PickNothing

LEMMA SpinWinIsSafe ==
  ASSUME IInv, NEW w \in Workers, SpinWin(w)
  PROVE  IInv'
<1>1. w \in alive /\ Top(w).place = "spin" /\ w \in Threads BY DEF SpinWin, At, Threads
<1>2. Top(w).n = 0 BY <1>1, TopTells
<1>3. seen[w] <= gen BY <1>1, <1>2, HelperOnTop
<1>4. seen' = seen /\ seen \in [Workers -> Nat] BY DEF SpinWin, IInv, TypeOK
<1>5. "top" \in HelperPlaces \ (Joined \cup {"scan"}) /\ Goto(w, "top")
      /\ Top(w).place \notin Joined \cup {"scan", "idle"}
  BY <1>1 DEF HelperPlaces, Joined, SpinWin
<1> QED BY <1>1, <1>2, <1>3, <1>4, <1>5, LoopStep DEF SpinWin

LEMMA ParkIsSafe ==
  ASSUME IInv, NEW w \in Workers, Park(w)
  PROVE  IInv'
<1>1. w \in alive /\ Top(w).place \in {"spin", "woken"} /\ w \in Threads
  BY DEF Park, At, Threads
<1>2. Top(w).n = 0 BY <1>1, TopTells
<1>3. seen[w] <= gen /\ Watchful(Top(w), seen[w]) BY <1>1, <1>2, HelperOnTop
<1>4. seen' = seen /\ seen \in [Workers -> Nat] BY DEF Park, IInv, TypeOK
<1> DEFINE place == IF gen = seen[w] THEN "asleep" ELSE "top"
<1>5. place \in HelperPlaces \ (Joined \cup {"scan"}) /\ Goto(w, place)
      /\ Top(w).place \notin Joined \cup {"scan", "idle"}
  BY <1>1 DEF HelperPlaces, Joined, Park
<1>6. place = "asleep" => seen'[w] = gen BY <1>4
<1>7. seen'[w] = gen => \A k \in Slots : HasWork(k) => Filling(k)
  BY <1>1, <1>3, <1>4 DEF Watchful, Overlooked
<1>8. UNCHANGED <<mode, pool, mu, inited, team, alive, forks>> /\ UNCHANGED <<started, begun>>
  BY DEF Park
<1> HIDE DEF place
<1> QED BY <1>1, <1>2, <1>3, <1>4, <1>5, <1>6, <1>7, <1>8, LoopStep

LEMMA PeekIsSafe ==
  ASSUME IInv, NEW w \in Workers, Peek(w)
  PROVE  IInv'
<1>1. w \in alive /\ Top(w).place = "peek" /\ w \in Threads BY DEF Peek, At, Threads
<1>2. Top(w).n = 0 BY <1>1, TopTells
<1>3. seen[w] <= gen BY <1>1, <1>2, HelperOnTop
<1>4. seen' = seen /\ seen \in [Workers -> Nat] BY DEF Peek, IInv, TypeOK
<1> DEFINE place == IF doneWaiters = 0 THEN "top" ELSE "notify"
<1>5. place \in HelperPlaces \ (Joined \cup {"scan"}) /\ Goto(w, place)
      /\ Top(w).place \notin Joined \cup {"scan", "idle"} /\ place \in {"top", "notify"}
  BY <1>1 DEF HelperPlaces, Joined, Peek
<1>6. UNCHANGED <<mode, pool, mu, inited, team, alive, forks>> /\ UNCHANGED <<started, begun>>
  BY DEF Peek
<1> HIDE DEF place
<1> QED BY <1>1, <1>2, <1>3, <1>4, <1>5, <1>6, LoopStep

LEMMA SpuriousWakeupIsSafe ==
  ASSUME IInv, NEW t \in Threads, SpuriousWakeup(t)
  PROVE  IInv'
<1>0. seen' = seen /\ seen \in [Workers -> Nat] BY DEF SpuriousWakeup, IInv, TypeOK
<1>1. CASE At(t, "asleep") /\ Goto(t, "woken")
  <2>1. t \in alive /\ Top(t).place = "asleep" BY <1>1 DEF At
  <2>2. Top(t).n = 0 BY <2>1, TopTells
  <2>3. seen[t] <= gen /\ Watchful(Top(t), seen[t]) BY <2>1, <2>2, HelperOnTop
  <2>4. "woken" \in HelperPlaces \ (Joined \cup {"scan"})
        /\ Top(t).place \notin Joined \cup {"scan", "idle"}
    BY <2>1 DEF HelperPlaces, Joined
  <2>5. seen'[t] = gen => \A k \in Slots : HasWork(k) => Filling(k)
    BY <1>0, <2>1, <2>3 DEF Watchful, Overlooked
  <2>6. UNCHANGED <<mode, pool, mu, inited, team, alive, forks>> /\ UNCHANGED <<started, begun>>
    BY DEF SpuriousWakeup
  <2> QED BY <1>0, <1>1, <2>1, <2>2, <2>3, <2>4, <2>5, <2>6, LoopStep
<1>2. CASE At(t, "barrier") /\ Goto(t, "settle")
  <2>1. t \in alive /\ Top(t).place = "barrier" BY <1>2 DEF At
  <2>2. Top(t).n > 0 /\ RegionFrame(t, Depth(t), Top(t)) /\ Top(t) \in Frames
    BY <2>1, TopTells, TopIsAFrame DEF IInv
  <2> DEFINE f == [Top(t) EXCEPT !.place = "settle"]
  <2>3. stack' = With(t, f) BY <1>2 DEF Goto
  <2>4. f \in Frames /\ f.n = Top(t).n /\ RegionFrame(t, Depth(t), f) /\ f.place = "settle"
        /\ f.slot = Top(t).slot
    BY <2>1, <2>2 DEF RegionFrame, Frames, Places, Unpublished, Unshared, Owned
  <2>5. started' \in [Regions -> SUBSET Nat] /\ begun' = begun
        /\ UNCHANGED <<mode, pool, mu, inited, team, alive, seen, forks>>
    BY DEF SpuriousWakeup, IInv, TypeOK
  <2> HIDE DEF f
  <2>6. f.place \in Owned /\ Top(t).place \in Owned /\ Waits(f) /\ Waits(Top(t))
    BY <2>1, <2>4 DEF Owned, Waits
  <2> QED BY <2>1, <2>2, <2>3, <2>4, <2>5, <2>6, RegionStep
<1> QED BY <1>1, <1>2 DEF SpuriousWakeup
-----------------------------------------------------------------------------
(* Taking items, and announcing oneself.                                   *)

LEMMA FetchIsSafe ==
  ASSUME IInv, NEW t \in Threads, Fetch(t)
  PROVE  IInv'
<1> DEFINE k == Top(t).slot
           some == job[k].next < job[k].n
           f == [Top(t) EXCEPT !.item = job[k].next,
                               !.place = IF some THEN "chunk"
                                         ELSE IF Top(t).n > 0 THEN "drained" ELSE "leave"]
<1>1. t \in alive /\ Top(t).place = "fetch" BY DEF Fetch, At
<1>2. Top(t) \in Frames /\ k \in Slots /\ Depth(t) \in Nat \ {0}
  BY TopIsAFrame DEF IInv, Frames
<1>3. stack' = With(t, f) /\ job' = [job EXCEPT ![k].next = @ + 1] BY DEF Fetch
<1>4. /\ job \in [Slots -> [live : BOOLEAN, n : Nat, next : Nat, refs : Nat, cap : Nat,
                            low : BOOLEAN, region : Regions \cup {NoRegion}]]
      /\ job[k].next \in Nat /\ job[k].n \in Nat
  BY <1>2 DEF IInv, TypeOK
<1>5. f \in Frames /\ f.n = Top(t).n /\ f.region = Top(t).region /\ f.slot = Top(t).slot
      /\ f.place = (IF some THEN "chunk" ELSE IF Top(t).n > 0 THEN "drained" ELSE "leave")
  BY <1>2, <1>4 DEF Frames, Places
<1> HIDE DEF f
<1>6. TopSet(t, f) BY <1>2, <1>3, <1>5, TopIsSet DEF IInv
<1>7. \A j \in Slots :
        /\ job'[j].live = job[j].live /\ job'[j].region = job[j].region
        /\ job'[j].refs = job[j].refs /\ job'[j].n = job[j].n /\ job'[j].cap = job[j].cap
        /\ job'[j].next = IF j = k THEN job[j].next + 1 ELSE job[j].next
  BY <1>2, <1>3, <1>4
<1>8. job' \in [Slots -> [live : BOOLEAN, n : Nat, next : Nat, refs : Nat, cap : Nat,
                          low : BOOLEAN, region : Regions \cup {NoRegion}]]
  BY <1>2, <1>3, <1>4
<1>9. Alike(t, f) /\ f.place # "absent" /\ ~Waits(f) /\ ~Waits(Top(t))
  <2>1. CASE Top(t).n > 0
    <3>1. RegionFrame(t, Depth(t), f)
      BY <1>1, <1>5, <2>1, TopTells DEF RegionFrame, Unpublished, Owned
    <3>2. f.place \in Owned /\ Top(t).place \in Owned /\ f.place # "post"
      BY <1>1, <1>5, <2>1 DEF Owned
    <3> QED BY <1>1, <1>5, <2>1, <3>1, <3>2, RegionMoves DEF Waits
  <2>2. CASE Top(t).n = 0
    <3>1. t \in Workers /\ Depth(t) = 1 /\ HelperFrame(Top(t)) BY <1>1, <2>2, TopTells
    <3>2. HelperFrame(f) BY <1>1, <1>5, <2>2, <3>1 DEF HelperFrame, HelperPlaces, Joined
    <3>3. Fit(t, Depth(t), Depth(t), f) BY <3>1, <3>2 DEF Fit
    <3> QED BY <1>1, <1>5, <2>2, <3>3 DEF Alike, Waits
  <2> QED BY <1>2, <2>1, <2>2 DEF Frames
<1>10. t \in Workers => IF Depth(t) = 1 THEN Watchful(f, seen'[t]) ELSE seen'[t] = seen[t]
  <2>1. ASSUME t \in Workers, Depth(t) = 1 PROVE Watchful(f, seen'[t])
    <3>1. Top(t).n = 0 BY <2>1, <1>2, TopTells DEF Frames
    <3>2. seen[t] <= gen BY <1>1, <3>1, HelperOnTop
    <3> QED BY <1>5, <3>2 DEF Watchful, Overlooked, Fetch
  <2> QED BY <2>1 DEF Fetch
<1>11. Moves(t, f)
  <2>1. f.place = "leave" => job'[f.slot].next >= job'[f.slot].n
    BY <1>2, <1>4, <1>5, <1>7
  <2>2. \A j \in Slots : job'[j].next >= job[j].next
    BY <1>4, <1>7
  <2>3. JobsAlike BY <1>7 DEF JobsAlike
  <2> QED BY <1>1, <1>6, <1>7, <1>9, <1>10, <2>1, <2>2, <2>3 DEF Moves, Fetch
<1>12. TypeOK'
  <2>1. started' \in [Regions -> SUBSET Nat]
    BY <1>4 DEF Fetch, IInv, TypeOK
  <2>2. stack' \in [Threads -> Seq(Frames)] BY <1>6 DEF TopSet
  <2> QED BY <1>8, <2>1, <2>2 DEF Fetch, IInv, TypeOK, Frames
<1>13. WaitersAreCounted' BY <1>6, <1>9, WaitersStay DEF Fetch
<1> QED BY <1>11, <1>12, <1>13, MovesAreSafe DEF IInv

LEMMA AnnounceIsSafe ==
  ASSUME IInv, NEW t \in Threads, Announce(t)
  PROVE  IInv'
<1>1. t \in alive /\ Top(t).place = "drained" BY DEF Announce, At
<1>2. Top(t).n > 0 /\ RegionFrame(t, Depth(t), Top(t)) /\ Top(t) \in Frames
      /\ Depth(t) \in Nat \ {0} /\ ~(t \in Workers /\ Depth(t) = 1)
  BY <1>1, TopTells, TopIsAFrame DEF IInv
<1> DEFINE f == [Top(t) EXCEPT !.place = "settle"]
<1>3. stack' = With(t, f) BY DEF Announce, Goto
<1>4. f \in Frames /\ f.n = Top(t).n /\ RegionFrame(t, Depth(t), f) /\ f.place = "settle"
      /\ f.slot = Top(t).slot
  BY <1>1, <1>2 DEF RegionFrame, Frames, Places, Unpublished, Unshared, Owned
<1> HIDE DEF f
<1>5. TopSet(t, f) BY <1>2, <1>3, <1>4, TopIsSet DEF IInv
<1>6. Alike(t, f)
  BY <1>1, <1>2, <1>4, RegionMoves DEF Owned
<1>7. TypeOK'
  <2>1. doneWaiters' \in Nat BY DEF Announce, IInv, TypeOK
  <2>2. stack' \in [Threads -> Seq(Frames)] BY <1>5 DEF TopSet
  <2> QED BY <2>1, <2>2 DEF Announce, IInv, TypeOK, Frames
<1>8. Moves(t, f)
  <2>1. \A k \in Slots : job'[k].next >= job[k].next BY DEF Announce, IInv, TypeOK
  <2>2. JobsAlike BY DEF JobsAlike, Announce
  <2> QED BY <1>1, <1>2, <1>4, <1>5, <1>6, <2>1, <2>2 DEF Moves, Announce
<1>9. WaitersAreCounted'
  <2>1. ASSUME NEW u \in Threads
        PROVE  (At(u, "settle") \/ At(u, "barrier"))'
               <=> (At(u, "settle") \/ At(u, "barrier") \/ u = t)
    <3>1. Becomes(IF u = t THEN f ELSE Top(u), Top(u)') BY <1>5, TopAfter
    <3> QED BY <1>1, <1>4, <3>1 DEF At, Announce, Becomes
  <2>2. Waiters' = Waiters \cup {t} BY <2>1 DEF Waiters
  <2>3. t \notin Waiters BY <1>1 DEF Waiters, At
  <2>4. IsFiniteSet(Waiters)
    BY PoolAssumption, FS_Subset, Waiters \subseteq Threads, Zenon DEF Waiters
  <2>5. Cardinality(Waiters \cup {t}) = Cardinality(Waiters) + 1
    BY <2>3, <2>4, FS_AddElement
  <2>6. Cardinality(Waiters') = Cardinality(Waiters \cup {t}) BY <2>2, Zenon
  <2> QED BY <2>5, <2>6 DEF WaitersAreCounted, Announce, IInv
<1> QED BY <1>7, <1>8, <1>9, MovesAreSafe DEF IInv
-----------------------------------------------------------------------------
(* Joining a region, and leaving it.                                       *)

\* A step that wakes waiters, or sleepers, besides.
LEMMA TopIsSetWaking ==
  ASSUME TypeOK, NEW t \in Threads, Depth(t) \in Nat \ {0}, NEW f \in Frames, NEW from, NEW to,
         <<from, to>> \in {<<"barrier", "settle">>, <<"asleep", "woken">>},
         stack' = Wake(With(t, f), from, to)
  PROVE  TopSet(t, f)
<1> DEFINE stacks == With(t, f)
<1>1. /\ stacks \in [Threads -> Seq(Frames)]
      /\ \A u \in Threads : Len(stacks[u]) = Len(stack[u])
      /\ \A u \in Threads : \A d \in 1..Len(stack[u]) :
           stacks[u][d] = IF u = t /\ d = Len(stack[u]) THEN f ELSE stack[u][d]
  BY WithSetsTop
<1>2. stack' = Wake(stacks, from, to) OBVIOUS
<1> HIDE DEF stacks
<1>3. /\ Wake(stacks, from, to) \in [Threads -> Seq(Frames)]
      /\ \A u \in Threads : Len(Wake(stacks, from, to)[u]) = Len(stacks[u])
      /\ \A u \in Threads : \A d \in 1..Len(stacks[u]) :
           Becomes(stacks[u][d], Wake(stacks, from, to)[u][d])
  BY <1>1, WakingKeepsStacks
<1> QED BY <1>1, <1>2, <1>3 DEF TopSet

LEMMA NotifyIsSafe ==
  ASSUME IInv, NEW w \in Workers, Notify(w)
  PROVE  IInv'
<1>1. w \in alive /\ Top(w).place = "notify" /\ w \in Threads BY DEF Notify, At, Threads
<1>2. Top(w).n = 0 BY <1>1, TopTells
<1>3. HelperFrame(Top(w)) /\ Depth(w) = 1 /\ seen[w] <= gen BY <1>1, <1>2, HelperOnTop
<1> DEFINE f == Frame("top")
<1>4. f \in Frames /\ f.place = "top" /\ f.n = 0 /\ f.region = NoRegion /\ f.item = 0
  BY FreshFrames DEF Frame, Places
<1>5. stack' = Wake(With(w, f), "barrier", "settle") BY DEF Notify
<1> HIDE DEF f
<1>6. TopSet(w, f) BY <1>1, <1>3, <1>4, <1>5, TopIsSetWaking DEF IInv
<1>7. Alike(w, f) /\ ~Waits(f) /\ ~Waits(Top(w))
  <2>1. HelperFrame(f) BY <1>4 DEF HelperFrame, HelperPlaces, Joined
  <2>2. Top(w).region = NoRegion BY <1>1, <1>3 DEF HelperFrame, Joined
  <2> QED BY <1>1, <1>2, <1>3, <1>4, <2>1, <2>2 DEF Alike, Fit, Waits
<1>8. Watchful(f, seen[w]) BY <1>3, <1>4 DEF Watchful, Overlooked
<1>9. Moves(w, f)
  <2>1. \A k \in Slots : job'[k].next >= job[k].next BY DEF Notify, pool, IInv, TypeOK
  <2>2. JobsAlike BY DEF JobsAlike, Notify, pool
  <2> QED BY <1>1, <1>3, <1>4, <1>6, <1>7, <1>8, <2>1, <2>2 DEF Moves, Notify, pool
<1>10. TypeOK' BY <1>6 DEF Notify, pool, IInv, TypeOK, TopSet, Frames
<1>11. WaitersAreCounted' BY <1>1, <1>6, <1>7, WaitersStay DEF Notify, pool
<1> QED BY <1>1, <1>9, <1>10, <1>11, MovesAreSafe DEF IInv
\* The mutex is left with whoever posts by a thread that does not.
LEMMA MutexStays ==
  ASSUME IInv, NEW t \in Threads, NEW f, TopSet(t, f), alive' = alive, mu' = mu,
         Top(t).place # "post", f.place # "post",
         mu # Nobody => job'[Top(mu).slot].refs = job[Top(mu).slot].refs
  PROVE  MutexIsPosting'
<1>1. ASSUME NEW u \in Threads
      PROVE  /\ u # t => Top(u)'.slot = Top(u).slot
             /\ At(u, "post")' <=> At(u, "post")
  <2>1. Becomes(IF u = t THEN f ELSE Top(u), Top(u)') BY TopAfter
  <2> QED BY <2>1 DEF At, Becomes
<1>2. ASSUME mu # Nobody PROVE At(mu, "post")' /\ job'[Top(mu)'.slot].refs = 0
  <2>1. mu \in Threads /\ At(mu, "post") /\ job[Top(mu).slot].refs = 0
    BY <1>2 DEF IInv, TypeOK, MutexIsPosting
  <2>2. mu # t BY <2>1 DEF At
  <2> QED BY <1>1, <1>2, <2>1, <2>2
<1>3. ASSUME NEW u \in Threads, At(u, "post")' PROVE mu' = u
  BY <1>1, <1>3 DEF IInv, MutexIsPosting
<1> QED BY <1>2, <1>3 DEF MutexIsPosting

\* The helpers of a slot are finitely many, and a worker in a region is one.
LEMMA HelpersAreWorkers ==
  ASSUME IInv, NEW k \in Slots
  PROVE  /\ IsFiniteSet(Helpers(k)) /\ Helpers(k) \subseteq Workers
         /\ job[k].refs = Cardinality(Helpers(k)) /\ job[k].refs \in Nat
         /\ job[k].refs = 0 => Helpers(k) = {}
         /\ ~job[k].live => Helpers(k) = {}
<1>1. Helpers(k) \subseteq Workers BY DEF Helpers
<1>2. IsFiniteSet(Helpers(k)) BY <1>1, FS_Subset, Names
<1>3. job[k].refs = Cardinality(Helpers(k)) /\ \A w \in Helpers(k) : job[k].live
  BY DEF IInv, HelpersAreInside
<1>4. job[k].refs \in Nat BY <1>2, <1>3, FS_CardinalityType
<1> QED BY <1>1, <1>2, <1>3, <1>4, FS_EmptySet

\* A helper leaves the region it was in.
LEMMA DepartureIsSafe ==
  ASSUME IInv, NEW w \in Workers, w \in alive, Top(w).place = "leave",
         NEW place \in {"top", "peek"}, NEW f, f = Frame(place), TopSet(w, f),
         job' = [job EXCEPT ![Top(w).slot].refs = @ - 1],
         UNCHANGED <<mode, mu, gen, rotor, doneWaiters, inited, team, alive, seen, started, begun, forks>>
  PROVE  IInv'
<1> DEFINE k == Top(w).slot
<1>0. w \in Threads BY DEF Threads
<1>1. Top(w).n = 0 BY <1>0, TopTells
<1>2. /\ Top(w) = stack[w][1] /\ Depth(w) = 1 /\ k \in Slots /\ HelperFrame(Top(w))
      /\ seen[w] <= gen
  BY <1>0, <1>1, HelperOnTop DEF Frames
<1>3. f \in Frames /\ f.place = place /\ f.n = 0 /\ f.region = NoRegion /\ f.item = 0
  BY FreshFrames DEF Frame, Places
<1>4. w \in Helpers(k)
  BY <1>2 DEF Helpers, Helping, HelperFrame, Joined
<1> HIDE DEF k
<1>5. /\ job \in [Slots -> [live : BOOLEAN, n : Nat, next : Nat, refs : Nat, cap : Nat,
                            low : BOOLEAN, region : Regions \cup {NoRegion}]]
      /\ job' = [job EXCEPT ![k].refs = @ - 1]
  BY DEF IInv, TypeOK, k
<1>6. /\ IsFiniteSet(Helpers(k)) /\ job[k].refs = Cardinality(Helpers(k))
      /\ Helpers(k) # {} /\ job[k].refs \in Nat /\ job[k].refs # 0
  BY <1>2, <1>4, HelpersAreWorkers
<1>7. \A j \in Slots :
        /\ job'[j].live = job[j].live /\ job'[j].region = job[j].region
        /\ job'[j].n = job[j].n /\ job'[j].cap = job[j].cap /\ job'[j].next = job[j].next
        /\ job'[j].refs = IF j = k THEN job[j].refs - 1 ELSE job[j].refs
  BY <1>2, <1>5
<1>8. job' \in [Slots -> [live : BOOLEAN, n : Nat, next : Nat, refs : Nat, cap : Nat,
                          low : BOOLEAN, region : Regions \cup {NoRegion}]]
  <2>1. job[k].refs - 1 \in Nat BY <1>6
  <2> QED BY <1>2, <1>5, <2>1
<1>9. TypeOK'
  BY <1>8 DEF IInv, TypeOK, TopSet, Frames
<1>10. StacksFit'
  <2>1. HelperFrame(f) BY <1>3 DEF HelperFrame, HelperPlaces, Joined
  <2>2. Fit(w, Depth(w), Depth(w), f) BY <1>2, <2>1 DEF Fit
  <2> QED BY <1>0, <2>2, FitTop DEF IInv
<1>11. OneHolder'
  <2>1. \A u \in Threads : Len(stack'[u]) = Len(stack[u]) BY DEF TopSet
  <2>2. ASSUME NEW u \in Threads, NEW d \in 1..Len(stack[u])
        PROVE  /\ stack'[u][d].n = stack[u][d].n
               /\ stack[u][d].n > 0 =>
                    /\ stack'[u][d].place \in Owned <=> stack[u][d].place \in Owned
                    /\ stack[u][d].place \in Owned => stack'[u][d].slot = stack[u][d].slot
    <3>1. CASE u = w /\ d = 1
      <4>1. Becomes(f, stack'[u][d]) BY <1>2, <2>2, <3>1 DEF TopSet, Depth
      <4> QED BY <1>1, <1>2, <1>3, <3>1, <4>1 DEF Becomes
    <3>2. CASE ~(u = w /\ d = 1)
      <4>1. ~(u = w /\ d = Len(stack[u])) BY <1>2, <3>2 DEF Depth
      <4>2. Becomes(stack[u][d], stack'[u][d]) BY <4>1 DEF TopSet
      <4> QED BY <4>2 DEF Becomes, Owned
    <3> QED BY <3>1, <3>2
  <2> QED BY <1>7, <2>1, <2>2, HoldersStay DEF IInv
<1>12. HelpersAreInside'
  <2>1. ASSUME NEW j \in Slots PROVE Helpers(j)' = IF j = k THEN Helpers(k) \ {w} ELSE Helpers(j)
    <3>1. ASSUME NEW v \in Workers PROVE Helping(v, j)' <=> Helping(v, j) /\ v # w
      <4>1. Becomes(IF v = w THEN f ELSE stack[v][1], stack'[v][1]) BY <1>0, <1>2, FirstAfter
      <4> QED BY <1>3, <4>1 DEF Helping, Becomes
    <3>2. Helpers(j)' = Helpers(j) \ {w} BY <3>1 DEF Helpers
    <3>3. j # k => w \notin Helpers(j) BY <1>2 DEF Helpers, Helping, k
    <3> QED BY <3>2, <3>3
  <2>2. ASSUME NEW j \in Slots
        PROVE  /\ job'[j].refs = Cardinality(Helpers(j)')
               /\ \A v \in Helpers(j)' : job'[j].live /\ job'[j].region = stack'[v][1].region
    <3>1. job'[j].refs = Cardinality(Helpers(j)')
      <4>1. CASE j = k
        <5>1. Cardinality(Helpers(k) \ {w}) = Cardinality(Helpers(k)) - 1
          BY <1>4, <1>6, FS_RemoveElement
        <5>2. Helpers(j)' = Helpers(k) \ {w} BY <2>1, <4>1
        <5>3. Cardinality(Helpers(j)') = Cardinality(Helpers(k) \ {w}) BY <5>2, Zenon
        <5> QED BY <1>6, <1>7, <4>1, <5>1, <5>3
      <4>2. CASE j # k
        <5>1. Cardinality(Helpers(j)') = Cardinality(Helpers(j)) BY <2>1, <4>2, Zenon
        <5> QED BY <1>7, <4>2, <5>1, HelpersAreWorkers
      <4> QED BY <4>1, <4>2
    <3>2. ASSUME NEW v \in Helpers(j)' PROVE job'[j].live /\ job'[j].region = stack'[v][1].region
      <4>1. v \in Helpers(j) /\ v # w /\ v \in Workers
        BY <2>1, <1>2 DEF Helpers, Helping, k
      <4>2. Becomes(stack[v][1], stack'[v][1]) BY <1>0, <4>1, FirstAfter
      <4> QED BY <1>7, <4>1, <4>2 DEF IInv, HelpersAreInside, Becomes
    <3> QED BY <3>1, <3>2
  <2> QED BY <2>2 DEF HelpersAreInside
<1>13. MutexIsPosting'
  <2>1. mu # Nobody => job'[Top(mu).slot].refs = job[Top(mu).slot].refs
    <3>1. ASSUME mu # Nobody PROVE Top(mu).slot \in Slots /\ job[Top(mu).slot].refs = 0
      <4>1. mu \in Threads BY <3>1 DEF IInv, TypeOK
      <4> QED BY <3>1, <4>1, TopIsAFrame DEF IInv, MutexIsPosting, Frames
    <3> QED BY <1>6, <1>7, <3>1
  <2> QED BY <1>0, <1>3, <2>1, MutexStays
<1>14. WorkersAreBorn' BY <1>0, <1>2, <1>3, BornStay
<1>15. LeavesNothing'
  <2>1. ASSUME NEW v \in Workers
        PROVE  job'[stack[v][1].slot].n = job[stack[v][1].slot].n
               /\ job'[stack[v][1].slot].next >= job[stack[v][1].slot].next
    <3>1. v \in Threads BY DEF Threads
    <3>2. stack[v][1].slot \in Slots BY <3>1, TopIsAFrame DEF IInv, Frames
    <3> QED BY <1>5, <1>7, <3>2
  <2> QED BY <1>0, <1>3, <1>9, <2>1, LeavesStay
<1>16. WaitersAreCounted'
  <2>1. ~Waits(f) /\ ~Waits(Top(w)) BY <1>3 DEF Waits
  <2> QED BY <1>0, <2>1, WaitersStay
<1>17. NothingOverlooked'
  <2>1. ASSUME NEW j \in Slots PROVE HasWork(j)' => HasWork(j)
    <3>1. CASE j = k
      <4>1. job[k].next >= job[k].n BY <1>2 DEF IInv, LeavesNothing, k
      <4> QED BY <1>2, <1>5, <1>7, <3>1, <4>1 DEF HasWork
    <3>2. CASE j # k
      BY <1>7, <3>2 DEF HasWork
    <3> QED BY <3>1, <3>2
  <2>2. Watchful(f, seen'[w]) BY <1>2, <1>3 DEF Watchful, Overlooked
  <2> QED BY <1>0, <1>2, <1>7, <2>1, <2>2, StillWatchful
<1> QED BY <1>9, <1>10, <1>11, <1>12, <1>13, <1>14, <1>15, <1>16, <1>17 DEF IInv
LEMMA LeaveIsSafe ==
  ASSUME IInv, NEW w \in Workers, Leave(w)
  PROVE  IInv'
<1>1. w \in alive /\ Top(w).place = "leave" /\ w \in Threads BY DEF Leave, At, Threads
<1>2. Depth(w) \in Nat \ {0} BY <1>1, TopIsAFrame DEF IInv
<1> DEFINE f == Frame("top")
<1>3. f \in Frames BY FreshFrames DEF Places
<1>4. stack' = With(w, f) \/ stack' = Wake(With(w, f), "barrier", "settle") BY DEF Leave
<1> HIDE DEF f
<1>5. TopSet(w, f) BY <1>1, <1>2, <1>3, <1>4, TopIsSet, TopIsSetWaking DEF IInv
<1>6. f = Frame("top") BY DEF f
<1> QED BY <1>1, <1>5, <1>6, DepartureIsSafe DEF Leave

LEMMA LeaveFastIsSafe ==
  ASSUME IInv, NEW w \in Workers, LeaveFast(w)
  PROVE  IInv'
<1>1. w \in alive /\ Top(w).place = "leave" /\ w \in Threads BY DEF LeaveFast, At, Threads
<1>2. Depth(w) \in Nat \ {0} BY <1>1, TopIsAFrame DEF IInv
<1> DEFINE place == IF job[Top(w).slot].refs = 1 THEN "peek" ELSE "top"
<1>3. place \in {"top", "peek"} /\ Frame(place) \in Frames BY FreshFrames DEF Places
<1>4. stack' = With(w, Frame(place)) BY DEF LeaveFast
<1> HIDE DEF place
<1>5. TopSet(w, Frame(place)) BY <1>1, <1>2, <1>3, <1>4, TopIsSet DEF IInv
<1> QED BY <1>1, <1>3, <1>5, DepartureIsSafe DEF LeaveFast

\* A set of numbers that is not empty has a least one.
LEMMA LeastNumber ==
  ASSUME NEW S \in SUBSET Nat, S # {}
  PROVE  \E m \in S : \A n \in S : m <= n
<1> DEFINE R == OpToRel(<, Nat)
<1>1. IsWellFoundedOn(R, Nat) BY NatLessThanWellFounded
<1>2. \A m, n \in Nat : m < n => <<m, n>> \in R BY DEF OpToRel
<1> HIDE DEF R
<1>3. PICK m \in S : \A n \in S : ~(<<n, m>> \in R) BY <1>1, WFMin, S \subseteq Nat
<1>4. \A n \in S : ~(n < m) BY <1>2, <1>3
<1> QED BY <1>3, <1>4

\* The worker's choice is among the regions that could use it.
LEMMA BestIsACandidate ==
  ASSUME TypeOK, Candidates # {}
  PROVE  Best \in Candidates /\ Best \in Slots /\ HasWork(Best)
<1>1. \A k \in Candidates : k \in Slots /\ HasWork(k) /\ job[k].refs \in Nat
  BY DEF Candidates, TypeOK
<1>2. \A k \in Slots : Turn(k) \in Nat
  BY PoolAssumption DEF Turn, Slots, TypeOK
<1> DEFINE counts == {job[k].refs : k \in Candidates}
<1>3. PICK least \in counts : \A n \in counts : least <= n
  <2>1. counts \in SUBSET Nat /\ counts # {} BY <1>1
  <2> QED BY <2>1, LeastNumber
<1> DEFINE idlest == {k \in Candidates : job[k].refs = least}
           turns == {Turn(k) : k \in idlest}
<1>4. PICK first \in turns : \A n \in turns : first <= n
  <2>1. turns \in SUBSET Nat BY <1>1, <1>2
  <2>2. turns # {} BY <1>3
  <2> HIDE DEF turns
  <2> QED BY <2>1, <2>2, LeastNumber
<1>5. PICK k \in idlest : Turn(k) = first BY <1>4
<1>6. \A j \in Candidates :
        job[k].refs < job[j].refs \/ (job[k].refs = job[j].refs /\ Turn(k) <= Turn(j))
  <2> SUFFICES ASSUME NEW j \in Candidates
               PROVE  job[k].refs < job[j].refs
                      \/ (job[k].refs = job[j].refs /\ Turn(k) <= Turn(j))
    OBVIOUS
  <2>1. job[k].refs = least /\ least <= job[j].refs /\ least \in Nat /\ job[j].refs \in Nat
    BY <1>1, <1>3, <1>5
  <2>2. job[j].refs = least => Turn(k) <= Turn(j) BY <1>4, <1>5
  <2> QED BY <2>1, <2>2
<1>7. k \in Candidates BY <1>5
<1>8. Best \in Candidates BY <1>6, <1>7 DEF Best
<1> QED BY <1>1, <1>8
\* An open slot has a holder, and its region is the holder's.
LEMMA OpenIsHeld ==
  ASSUME IInv, NEW k \in Slots, job[k].live
  PROVE  job[k].region # NoRegion
<1>1. PICK t \in Threads : \E d \in 1..Depth(t) : Holds(t, d, k) BY DEF IInv, OneHolder
<1>2. PICK d \in 1..Depth(t) : Holds(t, d, k) BY <1>1
<1>3. job[k].region = <<t, d>> BY <1>2 DEF IInv, OneHolder
<1> QED BY <1>3, Names

LEMMA PickIsSafe ==
  ASSUME IInv, NEW w \in Workers, Pick(w)
  PROVE  IInv'
<1> DEFINE k == Best
           f == [Frame("fetch") EXCEPT !.slot = k, !.region = job[k].region]
<1>0. w \in Threads BY DEF Threads
<1>1. w \in alive /\ Top(w).place = "pick" /\ mu = Nobody /\ Candidates # {}
  BY DEF Pick, At
<1>2. Top(w).n = 0 BY <1>0, <1>1, TopTells
<1>3. /\ Top(w) = stack[w][1] /\ Depth(w) = 1 /\ HelperFrame(Top(w))
      /\ gen \in Nat /\ Top(w).region = NoRegion
  BY <1>0, <1>1, <1>2, HelperOnTop DEF HelperFrame, Joined
<1>4. k \in Slots /\ HasWork(k) BY <1>1, BestIsACandidate DEF IInv
<1>5. job[k].live /\ job[k].region # NoRegion /\ job[k].region \in Regions \cup {NoRegion}
  BY <1>4, OpenIsHeld DEF HasWork, IInv, TypeOK
<1>6. stack' = With(w, f) /\ job' = [job EXCEPT ![k].refs = @ + 1] BY DEF Pick
<1> HIDE DEF k
<1>7. f \in Frames /\ f.place = "fetch" /\ f.n = 0 /\ f.slot = k /\ f.region = job[k].region
  <2>1. Frame("fetch") \in Frames BY FreshFrames DEF Places
  <2>2. Frame("fetch").place = "fetch" /\ Frame("fetch").n = 0 BY DEF Frame
  <2> QED BY <1>4, <1>5, <2>1, <2>2 DEF Frames
<1> HIDE DEF f
<1>8. TopSet(w, f) BY <1>0, <1>3, <1>6, <1>7, TopIsSet DEF IInv
<1>9. /\ job \in [Slots -> [live : BOOLEAN, n : Nat, next : Nat, refs : Nat, cap : Nat,
                            low : BOOLEAN, region : Regions \cup {NoRegion}]]
  BY DEF IInv, TypeOK
<1>10. \A j \in Slots :
         /\ job'[j].live = job[j].live /\ job'[j].region = job[j].region
         /\ job'[j].n = job[j].n /\ job'[j].cap = job[j].cap /\ job'[j].next = job[j].next
         /\ job'[j].refs = IF j = k THEN job[j].refs + 1 ELSE job[j].refs
  BY <1>4, <1>6, <1>9
<1>11. job' \in [Slots -> [live : BOOLEAN, n : Nat, next : Nat, refs : Nat, cap : Nat,
                           low : BOOLEAN, region : Regions \cup {NoRegion}]]
  BY <1>4, <1>6, <1>9
<1>12. /\ seen' = [seen EXCEPT ![w] = gen] /\ seen' \in [Workers -> Nat] /\ seen'[w] = gen
       /\ \A v \in Workers : v # w => seen'[v] = seen[v]
  BY <1>3 DEF Pick, IInv, TypeOK
<1>13. TypeOK'
  <2>1. rotor' \in Slots
    <3>1. rotor' = (rotor + 1) % MaxJobs /\ rotor \in 0..(MaxJobs - 1)
      BY DEF Pick, IInv, TypeOK, Slots
    <3>2. PICK i \in Nat : i = rotor + 1 BY <3>1, PoolAssumption
    <3>3. i % MaxJobs \in 0..(MaxJobs - 1) BY PoolAssumption
    <3> QED BY <3>1, <3>2, <3>3 DEF Slots
  <2>2. stack' \in [Threads -> Seq(Frames)] BY <1>8 DEF TopSet
  <2> QED BY <1>11, <1>12, <2>1, <2>2 DEF Pick, IInv, TypeOK, Frames
<1>14. StacksFit'
  <2>1. HelperFrame(f) BY <1>5, <1>7 DEF HelperFrame, HelperPlaces, Joined
  <2>2. Fit(w, Depth(w), Depth(w), f) BY <1>3, <2>1 DEF Fit
  <2> QED BY <1>0, <1>8, <2>2, FitTop DEF IInv
<1>15. OneHolder'
  <2>1. \A u \in Threads : Len(stack'[u]) = Len(stack[u]) BY <1>8 DEF TopSet
  <2>2. ASSUME NEW u \in Threads, NEW d \in 1..Len(stack[u])
        PROVE  /\ stack'[u][d].n = stack[u][d].n
               /\ stack[u][d].n > 0 =>
                    /\ stack'[u][d].place \in Owned <=> stack[u][d].place \in Owned
                    /\ stack[u][d].place \in Owned => stack'[u][d].slot = stack[u][d].slot
    <3>1. CASE u = w /\ d = 1
      <4>1. Becomes(f, stack'[u][d]) BY <1>3, <1>8, <2>2, <3>1 DEF TopSet, Depth
      <4> QED BY <1>2, <1>3, <1>7, <3>1, <4>1 DEF Becomes
    <3>2. CASE ~(u = w /\ d = 1)
      <4>1. ~(u = w /\ d = Len(stack[u])) BY <1>3, <3>2 DEF Depth
      <4>2. Becomes(stack[u][d], stack'[u][d]) BY <1>8, <4>1 DEF TopSet
      <4> QED BY <4>2 DEF Becomes, Owned
    <3> QED BY <3>1, <3>2
  <2> QED BY <1>10, <2>1, <2>2, HoldersStay DEF IInv, Pick
<1>16. HelpersAreInside'
  <2>1. ASSUME NEW v \in Workers
        PROVE  Becomes(IF v = w THEN f ELSE stack[v][1], stack'[v][1])
    BY <1>0, <1>3, <1>8, FirstAfter
  <2>2. ASSUME NEW j \in Slots PROVE Helpers(j)' = IF j = k THEN Helpers(k) \cup {w} ELSE Helpers(j)
    <3>1. ASSUME NEW v \in Workers
          PROVE  Helping(v, j)' <=> (Helping(v, j) /\ v # w) \/ (v = w /\ j = k)
      BY <1>1, <1>5, <1>7, <2>1 DEF Helping, Becomes, Pick
    <3>2. Helpers(j)' = (Helpers(j) \ {w}) \cup (IF j = k THEN {w} ELSE {})
      BY <3>1 DEF Helpers
    <3>3. w \notin Helpers(j) BY <1>3 DEF Helpers, Helping
    <3> QED BY <3>2, <3>3
  <2>3. ASSUME NEW j \in Slots
        PROVE  /\ job'[j].refs = Cardinality(Helpers(j)')
               /\ \A v \in Helpers(j)' : job'[j].live /\ job'[j].region = stack'[v][1].region
    <3>1. job'[j].refs = Cardinality(Helpers(j)')
      <4>1. CASE j = k
        <5>0. w \notin Helpers(k) BY <1>3 DEF Helpers, Helping
        <5>1. Cardinality(Helpers(k) \cup {w}) = Cardinality(Helpers(k)) + 1
          BY <1>4, <5>0, HelpersAreWorkers, FS_AddElement
        <5>2. Helpers(j)' = Helpers(k) \cup {w} BY <2>2, <4>1
        <5>3. Cardinality(Helpers(j)') = Cardinality(Helpers(k) \cup {w}) BY <5>2, Zenon
        <5> QED BY <1>10, <4>1, <5>1, <5>3, HelpersAreWorkers
      <4>2. CASE j # k
        <5>1. Cardinality(Helpers(j)') = Cardinality(Helpers(j)) BY <2>2, <4>2, Zenon
        <5> QED BY <1>10, <4>2, <5>1, HelpersAreWorkers
      <4> QED BY <4>1, <4>2
    <3>2. ASSUME NEW v \in Helpers(j)' PROVE job'[j].live /\ job'[j].region = stack'[v][1].region
      <4>1. v \in Workers BY <3>2 DEF Helpers
      <4>2. CASE v = w
        <5>1. j = k BY <2>2, <1>3, <4>2 DEF Helpers, Helping
        <5> QED BY <1>5, <1>7, <1>10, <2>1, <4>2, <5>1 DEF Becomes
      <4>3. CASE v # w
        <5>1. v \in Helpers(j) BY <2>2, <4>3
        <5>2. Becomes(stack[v][1], stack'[v][1]) BY <2>1, <4>1, <4>3
        <5> QED BY <1>10, <5>1, <5>2 DEF IInv, HelpersAreInside, Becomes
      <4> QED BY <4>2, <4>3
    <3> QED BY <3>1, <3>2
  <2> QED BY <2>3 DEF HelpersAreInside
<1>17. MutexIsPosting' BY <1>0, <1>1, <1>7, <1>8, MutexStays DEF Pick
<1>18. WorkersAreBorn' BY <1>0, <1>1, <1>3, <1>7, <1>8, <1>12, BornStay DEF Pick
<1>19. LeavesNothing'
  <2>1. ASSUME NEW v \in Workers
        PROVE  job'[stack[v][1].slot].n = job[stack[v][1].slot].n
               /\ job'[stack[v][1].slot].next >= job[stack[v][1].slot].next
    <3>1. v \in Threads BY DEF Threads
    <3>2. stack[v][1].slot \in Slots BY <3>1, TopIsAFrame DEF IInv, Frames
    <3> QED BY <1>9, <1>10, <3>2
  <2> QED BY <1>0, <1>7, <1>8, <1>13, <2>1, LeavesStay DEF Pick
<1>20. WaitersAreCounted'
  <2>1. ~Waits(f) /\ ~Waits(Top(w)) BY <1>1, <1>7 DEF Waits
  <2> QED BY <1>0, <1>8, <2>1, WaitersStay DEF Pick
<1>21. NothingOverlooked'
  <2>1. ASSUME NEW j \in Slots PROVE HasWork(j)' => HasWork(j)
    BY <1>9, <1>10 DEF HasWork, Pick
  <2>2. Watchful(f, seen'[w]) BY <1>3, <1>7, <1>12 DEF Watchful, Overlooked
  <2> QED BY <1>0, <1>1, <1>3, <1>8, <1>10, <1>12, <2>1, <2>2, StillWatchful DEF Pick
<1> QED BY <1>13, <1>14, <1>15, <1>16, <1>17, <1>18, <1>19, <1>20, <1>21 DEF IInv
-----------------------------------------------------------------------------
(* Publishing a region.                                                    *)

\* The slot a publisher takes is free.
LEMMA LeastIsFree ==
  ASSUME FreeSlots # {}
  PROVE  Least(FreeSlots) \in FreeSlots
<1>1. FreeSlots \in SUBSET Nat BY Names DEF FreeSlots
<1>2. \E k \in FreeSlots : \A j \in FreeSlots : k <= j BY <1>1, LeastNumber
<1> QED BY <1>2 DEF Least

\* Whose top frame is a region's has a first frame that stays.
LEMMA FirstsStay ==
  ASSUME IInv, NEW t \in Threads, Top(t).n > 0, NEW f, TopSet(t, f), NEW w \in Workers
  PROVE  Becomes(stack[w][1], stack'[w][1])
<1>1. ~(w = t /\ Depth(t) = 1) BY TopTells
<1> QED BY <1>1, FirstAfter

LEMMA FillIsSafe ==
  ASSUME IInv, NEW t \in Threads, Fill(t)
  PROVE  IInv'
<1> DEFINE k == Least(FreeSlots)
           n == Top(t).n
           helpers == (IF n < Width THEN n ELSE Width) - 1
           cap == IF helpers > 0 THEN helpers ELSE 1
           f == [Top(t) EXCEPT !.place = "post", !.slot = k, !.region = Mine(t)]
<1>1. t \in alive /\ Top(t).place = "publish" /\ mu = Nobody /\ FreeSlots # {} /\ mu' = t
  BY DEF Fill, At
<1>2. /\ Top(t).n > 0 /\ RegionFrame(t, Depth(t), Top(t)) /\ Mine(t) \in Regions
      /\ Top(t) \in Frames /\ Depth(t) \in Nat \ {0} /\ ~(t \in Workers /\ Depth(t) = 1)
      /\ Depth(t) = Len(stack[t]) /\ Top(t) = stack[t][Depth(t)] /\ n \in Nat
  BY <1>1, TopTells, TopIsAFrame DEF IInv, Unpublished, Frames
<1>3. k \in Slots /\ ~job[k].live BY <1>1, LeastIsFree DEF FreeSlots
<1>4. cap \in Nat BY <1>2, PoolAssumption
<1>5. stack' = With(t, f) BY DEF Fill
<1>6. PICK low \in mode.lows :
        job' = [job EXCEPT ![k] = [@ EXCEPT !.live = TRUE, !.n = n, !.refs = 0, !.low = low,
                                          !.cap = cap, !.region = Mine(t)]]
  BY DEF Fill
<1>7. low \in BOOLEAN BY PoolAssumption DEF IInv, TypeOK
<1> HIDE DEF k, n, cap
<1>8. f \in Frames /\ f.n = Top(t).n /\ f.place = "post" /\ f.slot = k /\ f.region = Mine(t)
  BY <1>2, <1>3 DEF Frames, Places
<1> HIDE DEF f
<1>9. TopSet(t, f) BY <1>2, <1>5, <1>8, TopIsSet DEF IInv
<1>10. job \in [Slots -> [live : BOOLEAN, n : Nat, next : Nat, refs : Nat, cap : Nat,
                          low : BOOLEAN, region : Regions \cup {NoRegion}]]
  BY DEF IInv, TypeOK
<1>11. /\ \A j \in Slots : j # k => job'[j] = job[j]
       /\ job'[k].live /\ job'[k].refs = 0 /\ job'[k].region = Mine(t)
       /\ job'[k].next = job[k].next
  BY <1>3, <1>6, <1>10
<1>12. job' \in [Slots -> [live : BOOLEAN, n : Nat, next : Nat, refs : Nat, cap : Nat,
                           low : BOOLEAN, region : Regions \cup {NoRegion}]]
  BY <1>2, <1>3, <1>4, <1>6, <1>7, <1>10
<1>13. TypeOK'
  <2>1. stack' \in [Threads -> Seq(Frames)] BY <1>9 DEF TopSet
  <2> QED BY <1>1, <1>12, <2>1 DEF Fill, IInv, TypeOK, Frames
<1>14. StacksFit'
  <2>1. RegionFrame(t, Depth(t), f)
    BY <1>2, <1>8 DEF RegionFrame, Unpublished, Owned, Mine
  <2>2. Fit(t, Depth(t), Depth(t), f) BY <1>2, <2>1 DEF Fit
  <2> QED BY <1>9, <2>2, FitTop DEF IInv
<1>15. ASSUME NEW u \in Threads, NEW d \in 1..Depth(u), NEW j \in Slots
       PROVE  Holds(u, d, j)' <=> Holds(u, d, j) \/ (u = t /\ d = Depth(t) /\ j = k)
  <2>1. CASE u = t /\ d = Depth(t)
    <3>1. Becomes(f, stack'[u][d]) BY <1>2, <1>9, <2>1 DEF TopSet, Depth
    <3> QED BY <1>1, <1>2, <1>8, <2>1, <3>1 DEF Holds, Owned, Becomes, Fill
  <2>2. CASE ~(u = t /\ d = Depth(t))
    <3>1. Becomes(stack[u][d], stack'[u][d]) BY <1>2, <1>9, <2>2 DEF TopSet, Depth
    <3> QED BY <2>2, <3>1 DEF Holds, Owned, Becomes, Fill
  <2> QED BY <2>1, <2>2
<1>16. \A u \in Threads : Depth(u)' = Depth(u) BY <1>9 DEF TopSet, Depth
<1>17. OneHolder'
  <2>1. ASSUME NEW u \in Threads, NEW d \in 1..Depth(u), NEW j \in Slots, Holds(u, d, j)'
        PROVE  job'[j].live /\ job'[j].region = <<u, d>>
    <3>1. CASE Holds(u, d, j)
      <4>1. job[j].live /\ job[j].region = <<u, d>> BY <3>1 DEF IInv, OneHolder
      <4> QED BY <1>3, <1>11, <4>1
    <3>2. CASE u = t /\ d = Depth(t) /\ j = k
      BY <1>11, <3>2 DEF Mine
    <3> QED BY <1>15, <2>1, <3>1, <3>2
  <2>2. ASSUME NEW j \in Slots, job'[j].live
        PROVE  \E u \in Threads : \E d \in 1..Depth(u) : Holds(u, d, j)'
    <3>1. CASE j = k
      <4>1. Depth(t) \in 1..Depth(t) BY <1>2
      <4> QED BY <1>15, <3>1, <4>1
    <3>2. CASE j # k
      <4>1. PICK u \in Threads : \E d \in 1..Depth(u) : Holds(u, d, j)
        BY <1>11, <2>2, <3>2 DEF IInv, OneHolder
      <4> QED BY <1>15, <4>1
    <3> QED BY <3>1, <3>2
  <2> QED BY <1>16, <2>1, <2>2 DEF OneHolder
<1>18. HelpersAreInside'
  <2>1. ASSUME NEW w \in Workers PROVE Becomes(stack[w][1], stack'[w][1])
    BY <1>2, <1>9, FirstsStay
  <2>2. ASSUME NEW j \in Slots PROVE Helpers(j)' = Helpers(j)
    <3>1. ASSUME NEW w \in Workers PROVE Helping(w, j)' <=> Helping(w, j)
      BY <2>1 DEF Helping, Becomes, Fill
    <3> QED BY <3>1 DEF Helpers
  <2>3. ASSUME NEW j \in Slots
        PROVE  /\ job'[j].refs = Cardinality(Helpers(j)')
               /\ \A w \in Helpers(j)' : job'[j].live /\ job'[j].region = stack'[w][1].region
    <3>1. CASE j = k
      <4>1. Helpers(j)' = {} BY <1>3, <2>2, <3>1, HelpersAreWorkers
      <4>2. Cardinality(Helpers(j)') = 0 BY <4>1, FS_EmptySet
      <4> QED BY <1>11, <3>1, <4>1, <4>2
    <3>2. CASE j # k
      <4>1. Cardinality(Helpers(j)') = Cardinality(Helpers(j)) BY <2>2, Zenon
      <4>2. job'[j] = job[j] BY <1>11, <3>2
      <4>3. ASSUME NEW w \in Helpers(j)' PROVE job'[j].live /\ job'[j].region = stack'[w][1].region
        <5>1. w \in Helpers(j) /\ w \in Workers BY <2>2 DEF Helpers
        <5> QED BY <2>1, <4>2, <5>1 DEF IInv, HelpersAreInside, Becomes
      <4> QED BY <4>1, <4>2, <4>3, HelpersAreWorkers
    <3> QED BY <3>1, <3>2
  <2> QED BY <2>3 DEF HelpersAreInside
<1>19. MutexIsPosting'
  <2>1. Becomes(f, Top(t)') BY <1>9, TopAfter
  <2>2. At(t, "post")' /\ Top(t)'.slot = k BY <1>1, <1>8, <2>1 DEF At, Becomes, Fill
  <2>3. ASSUME NEW u \in Threads, At(u, "post")' PROVE u = t
    <3>1. SUFFICES ASSUME u # t PROVE FALSE OBVIOUS
    <3>2. Becomes(Top(u), Top(u)') BY <1>9, <3>1, TopAfter
    <3>3. At(u, "post") BY <2>3, <3>2 DEF At, Becomes, Fill
    <3> QED BY <1>1, <3>3, Names DEF IInv, MutexIsPosting
  <2> QED BY <1>1, <1>11, <2>2, <2>3 DEF MutexIsPosting
<1>20. WorkersAreBorn' BY <1>1, <1>2, <1>8, <1>9, BornStay DEF Fill
<1>21. LeavesNothing'
  <2>1. ASSUME NEW w \in Workers, w \in alive, stack[w][1].place = "leave"
        PROVE  job'[stack[w][1].slot].n = job[stack[w][1].slot].n
               /\ job'[stack[w][1].slot].next >= job[stack[w][1].slot].next
    <3>1. w \in Threads BY DEF Threads
    <3>2. stack[w][1].slot \in Slots /\ Fit(w, 1, Depth(w), stack[w][1])
      BY <3>1, TopIsAFrame DEF IInv, Frames
    <3>3. w \in Helpers(stack[w][1].slot)
      BY <2>1, <3>2 DEF Helpers, Helping, Fit, HelperFrame, Joined
    <3>4. stack[w][1].slot # k BY <1>3, <3>3, HelpersAreWorkers
    <3>5. job'[stack[w][1].slot] = job[stack[w][1].slot] BY <1>11, <3>2, <3>4
    <3>6. job[stack[w][1].slot].next \in Nat BY <1>10, <3>2
    <3> QED BY <3>5, <3>6
  <2> QED BY <1>8, <1>9, <1>13, <2>1, LeavesStay DEF Fill
<1>22. WaitersAreCounted'
  <2>1. ~Waits(f) /\ ~Waits(Top(t)) BY <1>1, <1>8 DEF Waits
  <2> QED BY <1>9, <2>1, WaitersStay DEF Fill
<1>23. NothingOverlooked'
  <2>1. mu' # Nobody /\ job'[k].region = Mine(mu)'
    <3>1. Len(stack'[t]) = Len(stack[t]) BY <1>9 DEF TopSet
    <3>2. Mine(mu)' = Mine(t) BY <1>1, <3>1 DEF Mine, Depth
    <3>3. t # Nobody BY Names
    <3> QED BY <1>1, <1>11, <3>2, <3>3
  <2>2. ASSUME NEW j \in Slots, j # k, HasWork(j)' PROVE HasWork(j)
    BY <1>11, <2>2 DEF HasWork, Fill
  <2>3. ASSUME NEW w \in Workers, w \in alive PROVE Watchful(stack[w][1], seen[w])'
    <3>1. Becomes(stack[w][1], stack'[w][1]) BY <1>2, <1>9, FirstsStay
    <3>2. Watchful(stack[w][1], seen[w]) BY <2>3 DEF IInv, NothingOverlooked
    <3>3. ASSUME NEW j \in Slots, seen'[w] = gen', Overlooked(stack[w][1], j)', HasWork(j)'
          PROVE  Filling(j)'
      <4>1. CASE j = k
        BY <2>1, <4>1 DEF Filling
      <4>2. CASE j # k
        <5>1. HasWork(j) /\ Overlooked(stack[w][1], j)
          BY <2>2, <3>1, <3>3, <4>2 DEF Overlooked, Becomes
        <5>2. Filling(j) BY <3>2, <3>3, <5>1 DEF Watchful, Fill
        <5> QED BY <1>1, <5>2 DEF Filling
      <4> QED BY <4>1, <4>2
    <3> QED BY <3>1, <3>2, <3>3 DEF Watchful, Becomes, Fill
  <2> QED BY <2>3 DEF NothingOverlooked, Fill
<1> QED BY <1>13, <1>14, <1>17, <1>18, <1>19, <1>20, <1>21, <1>22, <1>23 DEF IInv
\* Nobody is left asleep who lives in this process.
LEMMA WakingWakes ==
  ASSUME NEW stacks \in [Threads -> Seq(Frames)], NEW u \in Threads, u \in alive,
         NEW d \in 1..Len(stacks[u])
  PROVE  Wake(stacks, "asleep", "woken")[u][d].place # "asleep"
<1>1. stacks[u] \in Seq(Frames) /\ DOMAIN stacks[u] = 1..Len(stacks[u]) OBVIOUS
<1>2. stacks[u][d] \in Frames BY <1>1
<1>3. Wake(stacks, "asleep", "woken")[u][d] =
        IF stacks[u][d].place = "asleep" THEN [stacks[u][d] EXCEPT !.place = "woken"]
                                         ELSE stacks[u][d]
  BY <1>1 DEF Wake
<1> QED BY <1>2, <1>3 DEF Frames

LEMMA PostIsSafe ==
  ASSUME IInv, NEW t \in Threads, Post(t)
  PROVE  IInv'
<1> DEFINE k == Top(t).slot
           f == [Top(t) EXCEPT !.place = "fetch"]
<1>1. t \in alive /\ Top(t).place = "post" /\ mu' = Nobody /\ gen' = gen + 1 /\ alive' = alive
  BY DEF Post, At
<1>2. /\ Top(t).n > 0 /\ RegionFrame(t, Depth(t), Top(t)) /\ Top(t) \in Frames
      /\ Depth(t) \in Nat \ {0} /\ ~(t \in Workers /\ Depth(t) = 1)
      /\ Depth(t) = Len(stack[t]) /\ Top(t) = stack[t][Depth(t)] /\ k \in Slots
  BY <1>1, TopTells, TopIsAFrame DEF IInv, Frames
<1>3. mu = t /\ job[k].refs = 0 /\ Helpers(k) = {}
  <2>1. mu = t BY <1>1 DEF At, IInv, MutexIsPosting
  <2>2. job[k].refs = 0 BY <2>1, Names DEF IInv, MutexIsPosting
  <2> QED BY <1>2, <2>1, <2>2, HelpersAreWorkers
<1>4. stack' = Wake(With(t, f), "asleep", "woken") /\ job' = [job EXCEPT ![k].next = 0]
  BY DEF Post
<1> HIDE DEF k
<1>5. f \in Frames /\ f.n = Top(t).n /\ f.place = "fetch" /\ f.slot = k /\ f.region = Top(t).region
  BY <1>2 DEF Frames, Places, k
<1> HIDE DEF f
<1>6. TopSet(t, f)
  BY <1>2, <1>4, <1>5, TopIsSetWaking DEF IInv
<1>7. job \in [Slots -> [live : BOOLEAN, n : Nat, next : Nat, refs : Nat, cap : Nat,
                         low : BOOLEAN, region : Regions \cup {NoRegion}]]
  BY DEF IInv, TypeOK
<1>8. \A j \in Slots :
        /\ job'[j].live = job[j].live /\ job'[j].region = job[j].region
        /\ job'[j].refs = job[j].refs /\ (j # k => job'[j] = job[j])
  BY <1>2, <1>4, <1>7
<1>9. job' \in [Slots -> [live : BOOLEAN, n : Nat, next : Nat, refs : Nat, cap : Nat,
                          low : BOOLEAN, region : Regions \cup {NoRegion}]]
  BY <1>2, <1>4, <1>7
<1>10. TypeOK'
  <2>1. stack' \in [Threads -> Seq(Frames)] BY <1>6 DEF TopSet
  <2>2. gen' \in Nat BY <1>1 DEF IInv, TypeOK
  <2> QED BY <1>1, <1>9, <2>1, <2>2 DEF Post, IInv, TypeOK, Frames
<1>11. StacksFit'
  <2>1. RegionFrame(t, Depth(t), f)
    BY <1>1, <1>2, <1>5 DEF RegionFrame, Unpublished, Owned
  <2>2. Fit(t, Depth(t), Depth(t), f) BY <1>2, <2>1 DEF Fit
  <2> QED BY <1>6, <2>2, FitTop DEF IInv
<1>12. OneHolder'
  <2>1. \A u \in Threads : Len(stack'[u]) = Len(stack[u]) BY <1>6 DEF TopSet
  <2>2. ASSUME NEW u \in Threads, NEW d \in 1..Len(stack[u])
        PROVE  /\ stack'[u][d].n = stack[u][d].n
               /\ stack[u][d].n > 0 =>
                    /\ stack'[u][d].place \in Owned <=> stack[u][d].place \in Owned
                    /\ stack[u][d].place \in Owned => stack'[u][d].slot = stack[u][d].slot
    <3>1. CASE u = t /\ d = Depth(t)
      <4>1. Becomes(f, stack'[u][d]) BY <1>2, <1>6, <2>2, <3>1 DEF TopSet
      <4>2. stack[u][d].slot = k /\ stack[u][d].place = "post" BY <1>1, <1>2, <3>1 DEF k
      <4> QED BY <1>2, <1>5, <3>1, <4>1, <4>2 DEF Becomes, Owned
    <3>2. CASE ~(u = t /\ d = Depth(t))
      <4>1. Becomes(stack[u][d], stack'[u][d]) BY <1>2, <1>6, <3>2 DEF TopSet
      <4> QED BY <4>1 DEF Becomes, Owned
    <3> QED BY <3>1, <3>2
  <2> QED BY <1>1, <1>8, <2>1, <2>2, HoldersStay DEF IInv
<1>13. \A w \in Workers : Becomes(stack[w][1], stack'[w][1]) BY <1>2, <1>6, FirstsStay
<1>14. HelpersAreInside'
  <2>1. JobsAlike BY <1>8 DEF JobsAlike
  <2> QED BY <1>1, <1>13, <2>1, HelpersStay DEF IInv, Becomes
<1>15. MutexIsPosting'
  <2>1. ASSUME NEW u \in Threads, At(u, "post")' PROVE FALSE
    <3>1. Becomes(IF u = t THEN f ELSE Top(u), Top(u)') BY <1>6, TopAfter
    <3>2. u # t BY <1>5, <2>1, <3>1 DEF At, Becomes
    <3>3. At(u, "post") BY <1>1, <2>1, <3>1, <3>2 DEF At, Becomes
    <3> QED BY <1>3, <3>2, <3>3 DEF IInv, MutexIsPosting
  <2> QED BY <1>1, <2>1 DEF MutexIsPosting
<1>16. WorkersAreBorn' BY <1>1, <1>2, <1>5, <1>6, BornStay DEF Post
<1>17. LeavesNothing'
  <2>1. ASSUME NEW w \in Workers, w \in alive, stack[w][1].place = "leave"
        PROVE  job'[stack[w][1].slot].n = job[stack[w][1].slot].n
               /\ job'[stack[w][1].slot].next >= job[stack[w][1].slot].next
    <3>1. w \in Threads BY DEF Threads
    <3>2. stack[w][1].slot \in Slots /\ Fit(w, 1, Depth(w), stack[w][1])
      BY <3>1, TopIsAFrame DEF IInv, Frames
    <3>3. w \in Helpers(stack[w][1].slot)
      BY <2>1, <3>2 DEF Helpers, Helping, Fit, HelperFrame, Joined
    <3>4. job'[stack[w][1].slot] = job[stack[w][1].slot] BY <1>3, <1>8, <3>2, <3>3
    <3>5. job[stack[w][1].slot].next \in Nat BY <1>7, <3>2
    <3> QED BY <3>4, <3>5
  <2> QED BY <1>1, <1>5, <1>6, <1>10, <2>1, LeavesStay
<1>18. WaitersAreCounted'
  <2>1. ~Waits(f) /\ ~Waits(Top(t)) BY <1>1, <1>5 DEF Waits
  <2> QED BY <1>6, <2>1, WaitersStay DEF Post
<1>19. NothingOverlooked'
  <2>1. ASSUME NEW w \in Workers, w \in alive PROVE Watchful(stack[w][1], seen[w])'
    <3>0. w \in Threads BY DEF Threads
    <3>1. With(t, f) \in [Threads -> Seq(Frames)] /\ Len(With(t, f)[w]) = Len(stack[w])
      BY <1>2, <1>5, <3>0, WithSetsTop DEF IInv
    <3>2. 1 \in 1..Len(With(t, f)[w]) BY <3>0, <3>1, TopIsAFrame DEF IInv
    <3>3. stack'[w][1].place # "asleep" BY <1>4, <2>1, <3>0, <3>1, <3>2, WakingWakes
    <3>4. seen[w] <= gen /\ seen[w] \in Nat /\ gen \in Nat
      BY <2>1 DEF IInv, TypeOK, NothingOverlooked, Watchful
    <3>5. seen'[w] = seen[w] BY DEF Post
    <3> QED BY <1>1, <3>3, <3>4, <3>5 DEF Watchful
  <2> QED BY <1>1, <2>1 DEF NothingOverlooked
<1> QED BY <1>10, <1>11, <1>12, <1>14, <1>15, <1>16, <1>17, <1>18, <1>19 DEF IInv
-----------------------------------------------------------------------------
(* Regions that begin and regions that return.                             *)

\* A step that puts a frame on a stack or takes one off it, of a thread that
\* is not publishing, and closes no slot that has a helper.
Restacks(t) ==
  /\ t \in alive /\ Top(t).place # "post" /\ Top(t)'.place # "post"
  /\ stack' \in [Threads -> Seq(Frames)]
  /\ \A u \in Threads : u # t => stack'[u] = stack[u]
  /\ Depth(t)' \in 1..MaxDepth
  /\ \A d \in 1..Depth(t)' : Fit(t, d, Depth(t)', stack'[t][d])
  /\ t \in Workers => stack'[t][1] = stack[t][1]
  /\ UNCHANGED <<mode, mu, gen, rotor, inited, team, alive, seen, forks>>
  /\ \A j \in Slots :
       /\ job'[j].region = job[j].region /\ job'[j].refs = job[j].refs
       /\ job'[j].n = job[j].n /\ job'[j].next = job[j].next /\ job'[j].cap = job[j].cap
       /\ job'[j].live => job[j].live
       /\ ~job'[j].live /\ job[j].live => job[j].refs = 0
  /\ \A u \in Threads : \A d \in 1..Depth(u) : \A j \in Slots :
       Holds(u, d, j) /\ ~job'[j].live => u = t /\ d = Depth(t)
  /\ \A d \in 1..Depth(t)' : \A j \in Slots :
       Holds(t, d, j)' => d \in 1..Depth(t) /\ Holds(t, d, j) /\ job'[j].live
  /\ \A d \in 1..Depth(t) : \A j \in Slots :
       Holds(t, d, j) /\ job'[j].live => d \in 1..Depth(t)' /\ Holds(t, d, j)'

LEMMA RestackingIsSafe ==
  ASSUME IInv, NEW t \in Threads, Restacks(t), TypeOK'
  PROVE  /\ StacksFit' /\ OneHolder' /\ HelpersAreInside' /\ MutexIsPosting'
         /\ WorkersAreBorn' /\ LeavesNothing' /\ NothingOverlooked'
<1>1. /\ \A u \in Threads : u # t => stack'[u] = stack[u]
      /\ UNCHANGED <<mode, mu, gen, alive, seen>>
      /\ Top(t).place # "post" /\ Top(t)'.place # "post"
  BY DEF Restacks
<1>2. \A u \in Threads : u # t => Depth(u)' = Depth(u) /\ Top(u)' = Top(u)
  BY <1>1 DEF Depth, Top
<1>3. \A w \in Workers : stack'[w][1] = stack[w][1]
  BY <1>1 DEF Restacks, Threads
<1>4. \A j \in Slots :
        /\ job'[j].region = job[j].region /\ job'[j].refs = job[j].refs
        /\ job'[j].n = job[j].n /\ job'[j].next = job[j].next /\ job'[j].cap = job[j].cap
        /\ job'[j].live => job[j].live
        /\ ~job'[j].live /\ job[j].live => job[j].refs = 0
  BY DEF Restacks
<1>5. StacksFit'
  <2> SUFFICES ASSUME NEW u \in Threads
               PROVE  Depth(u)' \in 1..MaxDepth
                      /\ \A d \in 1..Depth(u)' : Fit(u, d, Depth(u)', stack'[u][d])
    BY DEF StacksFit, Fit, HelperFrame, RegionFrame
  <2>1. CASE u = t
    BY <2>1 DEF Restacks
  <2>2. CASE u # t
    BY <1>1, <1>2, <2>2 DEF IInv, StacksFit
  <2> QED BY <2>1, <2>2
<1>6. OneHolder'
  <2>1. ASSUME NEW u \in Threads, u # t, NEW d \in 1..Depth(u), NEW j \in Slots
        PROVE  Holds(u, d, j)' <=> Holds(u, d, j)
    BY <1>1, <2>1 DEF Holds
  <2>2. ASSUME NEW u \in Threads, NEW d \in 1..Depth(u)', NEW j \in Slots, Holds(u, d, j)'
        PROVE  job'[j].live /\ job'[j].region = <<u, d>>
    <3>1. d \in 1..Depth(u) /\ Holds(u, d, j) /\ job'[j].live
      <4>1. CASE u = t
        BY <2>2, <4>1 DEF Restacks
      <4>2. CASE u # t
        <5>1. d \in 1..Depth(u) /\ Holds(u, d, j) BY <1>2, <2>1, <2>2, <4>2
        <5> QED BY <4>2, <5>1 DEF Restacks
      <4> QED BY <4>1, <4>2
    <3>2. job[j].region = <<u, d>> BY <3>1 DEF IInv, OneHolder
    <3> QED BY <1>4, <3>1, <3>2
  <2>3. ASSUME NEW j \in Slots, job'[j].live
        PROVE  \E u \in Threads : \E d \in 1..Depth(u)' : Holds(u, d, j)'
    <3>1. job[j].live BY <1>4, <2>3
    <3>2. PICK u \in Threads : \E d \in 1..Depth(u) : Holds(u, d, j)
      BY <3>1 DEF IInv, OneHolder
    <3>3. PICK d \in 1..Depth(u) : Holds(u, d, j) BY <3>2
    <3>4. CASE u = t
      <4>1. d \in 1..Depth(t)' /\ Holds(t, d, j)' BY <2>3, <3>3, <3>4 DEF Restacks
      <4> QED BY <4>1
    <3>5. CASE u # t
      <4>1. d \in 1..Depth(u)' /\ Holds(u, d, j)' BY <1>2, <2>1, <3>3, <3>5
      <4> QED BY <4>1
    <3> QED BY <3>4, <3>5
  <2> QED BY <2>2, <2>3 DEF OneHolder
<1>7. \A j \in Slots : Helpers(j)' = Helpers(j)
  BY <1>1, <1>3 DEF Helpers, Helping
<1>8. HelpersAreInside'
  <2>1. ASSUME NEW j \in Slots
        PROVE  /\ job'[j].refs = Cardinality(Helpers(j)')
               /\ \A w \in Helpers(j)' : job'[j].live /\ job'[j].region = stack'[w][1].region
    <3>1. Cardinality(Helpers(j)') = Cardinality(Helpers(j)) BY <1>7, Zenon
    <3>2. ASSUME NEW w \in Helpers(j)' PROVE job'[j].live /\ job'[j].region = stack'[w][1].region
      <4>1. w \in Helpers(j) /\ w \in Workers BY <1>7 DEF Helpers
      <4>2. job[j].live /\ job[j].region = stack[w][1].region
        BY <4>1 DEF IInv, HelpersAreInside
      <4>3. job[j].refs # 0 BY <4>1, HelpersAreWorkers
      <4> QED BY <1>3, <1>4, <4>1, <4>2, <4>3
    <3> QED BY <1>4, <3>1, <3>2, HelpersAreWorkers
  <2> QED BY <2>1 DEF HelpersAreInside
<1>9. MutexIsPosting'
  <2>1. ASSUME NEW u \in Threads PROVE At(u, "post")' <=> At(u, "post")
    BY <1>1, <1>2 DEF At
  <2>2. ASSUME mu # Nobody PROVE At(mu, "post")' /\ job'[Top(mu)'.slot].refs = 0
    <3>1. mu \in Threads /\ At(mu, "post") /\ job[Top(mu).slot].refs = 0
      BY <2>2 DEF IInv, TypeOK, MutexIsPosting
    <3>2. mu # t BY <1>1, <3>1 DEF At
    <3>3. Top(mu).slot \in Slots BY <3>1, TopIsAFrame DEF IInv, Frames
    <3>4. stack'[mu'] = stack[mu] /\ mu' = mu /\ alive' = alive BY <1>1, <3>1, <3>2
    <3>5. At(mu, "post")' /\ Top(mu)'.slot = Top(mu).slot BY <3>1, <3>4 DEF At, Top, Depth
    <3> QED BY <1>4, <3>1, <3>3, <3>5
  <2>3. ASSUME NEW u \in Threads, At(u, "post")' PROVE mu = u
    BY <2>1, <2>3 DEF IInv, MutexIsPosting
  <2> QED BY <1>1, <2>2, <2>3 DEF MutexIsPosting
<1>10. WorkersAreBorn' BY <1>1, <1>3 DEF IInv, WorkersAreBorn
<1>11. LeavesNothing'
  <2> SUFFICES ASSUME NEW w \in Workers, w \in alive, stack[w][1].place = "leave"
               PROVE  job'[stack[w][1].slot].next >= job'[stack[w][1].slot].n
    BY <1>1, <1>3 DEF LeavesNothing
  <2>1. w \in Threads BY DEF Threads
  <2>2. stack[w][1].slot \in Slots BY <2>1, TopIsAFrame DEF IInv, Frames
  <2> QED BY <1>4, <2>2 DEF IInv, LeavesNothing
<1>12. NothingOverlooked'
  <2>1. ASSUME NEW j \in Slots, HasWork(j)' PROVE HasWork(j)
    BY <1>1, <1>4, <2>1 DEF HasWork
  <2>2. ASSUME NEW j \in Slots, Filling(j) PROVE Filling(j)'
    <3>1. mu \in Threads /\ At(mu, "post")
      BY <2>2 DEF Filling, IInv, TypeOK, MutexIsPosting
    <3>2. mu # t BY <1>1, <3>1 DEF At
    <3>3. Depth(mu)' = Depth(mu) BY <1>1, <3>1, <3>2 DEF Depth
    <3> QED BY <1>1, <1>4, <2>2, <3>3 DEF Filling, Mine
  <2>3. ASSUME NEW w \in Workers, w \in alive PROVE Watchful(stack[w][1], seen[w])'
    <3>1. Watchful(stack[w][1], seen[w]) BY <2>3 DEF IInv, NothingOverlooked
    <3>2. ASSUME NEW j \in Slots, seen'[w] = gen', Overlooked(stack[w][1], j)', HasWork(j)'
          PROVE  Filling(j)'
      <4>1. HasWork(j) BY <2>1, <3>2
      <4>2. Overlooked(stack[w][1], j) BY <1>3, <3>2 DEF Overlooked
      <4>3. Filling(j) BY <1>1, <3>1, <3>2, <4>1, <4>2 DEF Watchful
      <4> QED BY <2>2, <4>3
    <3> QED BY <1>1, <1>3, <3>1, <3>2 DEF Watchful
  <2> QED BY <1>1, <2>3 DEF NothingOverlooked
<1> QED BY <1>5, <1>6, <1>8, <1>9, <1>10, <1>11, <1>12
\* A slot has one holder.
LEMMA OneHolders ==
  ASSUME IInv, NEW t \in Threads, NEW d \in 1..Depth(t), NEW u \in Threads,
         NEW e \in 1..Depth(u), NEW k \in Slots, Holds(t, d, k), Holds(u, e, k)
  PROVE  t = u /\ d = e
<1>1. job[k].region = <<t, d>> /\ job[k].region = <<u, e>> BY DEF IInv, OneHolder
<1> QED BY <1>1
\* What is left of a stack when its top region returns.
LEMMA StackAfterReturn ==
  ASSUME IInv, NEW t \in Threads, Top(t).n > 0, stack' = Returned(t)
  PROVE  /\ stack' \in [Threads -> Seq(Frames)]
         /\ \A u \in Threads : u # t => stack'[u] = stack[u]
         /\ Depth(t) = 1 => /\ t \notin Workers
                            /\ Depth(t)' = 1 /\ stack'[t][1] = Frame("idle")
         /\ Depth(t) # 1 =>
              /\ Depth(t)' = Depth(t) - 1 /\ Depth(t)' \in 1..MaxDepth
              /\ \A d \in 1..Depth(t)' : stack'[t][d] = stack[t][d]
<1>1. Depth(t) \in Nat \ {0} /\ Depth(t) \in 1..MaxDepth /\ stack[t] \in Seq(Frames)
      /\ Depth(t) = Len(stack[t]) /\ stack \in [Threads -> Seq(Frames)]
  BY TopIsAFrame, StacksAreSequences DEF IInv, TypeOK, Frames
<1>2. CASE Depth(t) = 1
  <2>1. stack' = [stack EXCEPT ![t] = <<Frame("idle")>>] BY <1>2 DEF Returned
  <2>2. <<Frame("idle")>> \in Seq(Frames) BY FreshFrames DEF Places
  <2>3. t \notin Workers BY <1>2, TopTells
  <2> QED BY <1>1, <1>2, <2>1, <2>2, <2>3 DEF Depth
<1>3. CASE Depth(t) # 1
  <2> DEFINE s == SubSeq(stack[t], 1, Len(stack[t]) - 1)
  <2>1. stack' = [stack EXCEPT ![t] = s] BY <1>1, <1>3 DEF Returned
  <2>2. s \in Seq(Frames) /\ Len(s) = Len(stack[t]) - 1
        /\ \A d \in 1..(Len(stack[t]) - 1) : s[d] = stack[t][d]
    BY <1>1, <1>3
  <2> HIDE DEF s
  <2>3. stack'[t] = s /\ stack' \in [Threads -> Seq(Frames)]
        /\ \A u \in Threads : u # t => stack'[u] = stack[u]
    BY <1>1, <2>1, <2>2
  <2>4. Depth(t)' = Depth(t) - 1 BY <1>1, <2>2, <2>3 DEF Depth
  <2>5. MaxDepth \in Nat BY PoolAssumption
  <2>6. Depth(t) - 1 \in 1..MaxDepth BY <1>1, <1>3, <2>5
  <2>7. \A d \in 1..(Depth(t) - 1) : stack'[t][d] = stack[t][d] BY <1>1, <2>2, <2>3
  <2> QED BY <1>3, <2>3, <2>4, <2>6, <2>7
<1> QED BY <1>2, <1>3

\* A return restacks, when the slot of the region, if it has one, is closed
\* with it.
LEMMA ReturnRestacks ==
  ASSUME IInv, NEW t \in Threads, t \in alive, Top(t).n > 0, Top(t).place # "post",
         stack' = Returned(t),
         UNCHANGED <<mode, mu, gen, rotor, inited, team, alive, seen, forks>>,
         \A j \in Slots :
           /\ job'[j].region = job[j].region /\ job'[j].refs = job[j].refs
           /\ job'[j].n = job[j].n /\ job'[j].next = job[j].next /\ job'[j].cap = job[j].cap
           /\ job'[j].live <=> job[j].live /\ ~Holds(t, Depth(t), j)
           /\ Holds(t, Depth(t), j) => job[j].refs = 0
  PROVE  Restacks(t) /\ ~Waits(Top(t)')
         /\ \A u \in Threads : u # t => Top(u)' = Top(u)
<1>1. /\ stack' \in [Threads -> Seq(Frames)]
      /\ \A u \in Threads : u # t => stack'[u] = stack[u]
      /\ Depth(t) = 1 => /\ t \notin Workers
                         /\ Depth(t)' = 1 /\ stack'[t][1] = Frame("idle")
      /\ Depth(t) # 1 =>
           /\ Depth(t)' = Depth(t) - 1 /\ Depth(t)' \in 1..MaxDepth
           /\ \A d \in 1..Depth(t)' : stack'[t][d] = stack[t][d]
  BY StackAfterReturn
<1>2. Depth(t) \in Nat \ {0} /\ Depth(t) \in 1..MaxDepth /\ MaxDepth \in Nat
      /\ Depth(t) \in 1..Depth(t)
  BY TopIsAFrame, PoolAssumption DEF IInv
<1>3. \A d \in 1..Depth(t) : Fit(t, d, Depth(t), stack[t][d]) BY DEF IInv, StacksFit
<1>4. Top(t)' = stack'[t][Depth(t)'] BY DEF Top
<1>5. Depth(t)' \in 1..MaxDepth BY <1>1, <1>2
<1>6. \A u \in Threads : u # t => Top(u)' = Top(u) BY <1>1 DEF Top, Depth
<1>7. ASSUME NEW j \in Slots
      PROVE  /\ job'[j].live => job[j].live
             /\ ~job'[j].live /\ job[j].live => job[j].refs = 0 /\ Holds(t, Depth(t), j)
  OBVIOUS
<1>8. ASSUME NEW u \in Threads, NEW d \in 1..Depth(u), NEW j \in Slots, Holds(u, d, j),
             ~job'[j].live
      PROVE  u = t /\ d = Depth(t)
  <2>1. job[j].live BY <1>8 DEF IInv, OneHolder
  <2>2. Holds(t, Depth(t), j) BY <1>7, <1>8, <2>1
  <2> QED BY <1>2, <1>8, <2>2, OneHolders
\* What remains is about the stack of t.
<1>9. /\ Top(t)'.place # "post" /\ ~Waits(Top(t)')
      /\ \A d \in 1..Depth(t)' : Fit(t, d, Depth(t)', stack'[t][d])
      /\ t \in Workers => stack'[t][1] = stack[t][1]
      /\ \A d \in 1..Depth(t)' : \A j \in Slots :
           Holds(t, d, j)' => d \in 1..Depth(t) /\ Holds(t, d, j) /\ job'[j].live
      /\ \A d \in 1..Depth(t) : \A j \in Slots :
           Holds(t, d, j) /\ job'[j].live => d \in 1..Depth(t)' /\ Holds(t, d, j)'
  <2>1. CASE Depth(t) = 1
    <3>1. /\ stack'[t][1].place = "idle" /\ stack'[t][1].n = 0
          /\ stack'[t][1].region = NoRegion
      BY <1>1, <2>1 DEF Frame
    <3>2. \A d \in 1..Depth(t)' : Fit(t, d, Depth(t)', stack'[t][d])
      BY <1>1, <2>1, <3>1 DEF Fit
    <3>3. \A d \in 1..Depth(t)' : \A j \in Slots : ~Holds(t, d, j)'
      BY <1>1, <2>1, <3>1 DEF Holds
    <3>4. \A d \in 1..Depth(t) : d = Depth(t) BY <2>1
    <3>5. \A d \in 1..Depth(t) : \A j \in Slots : ~(Holds(t, d, j) /\ job'[j].live)
      BY <3>4
    <3>6. Top(t)'.place = "idle" BY <1>1, <1>4, <2>1, <3>1
    <3>7. Top(t)'.place # "post" /\ ~Waits(Top(t)') BY <3>6 DEF Waits
    <3> QED BY <1>1, <2>1, <3>2, <3>3, <3>5, <3>7
  <2>2. CASE Depth(t) # 1
    <3>1. /\ Depth(t)' = Depth(t) - 1 /\ \A d \in 1..Depth(t)' : stack'[t][d] = stack[t][d]
          /\ Depth(t)' \in 1..Depth(t)' /\ 1 \in 1..Depth(t)' /\ Depth(t)' < Depth(t)
          /\ \A d \in 1..Depth(t)' : d \in 1..Depth(t) /\ d < Depth(t)
          /\ \A d \in 1..Depth(t) : d = Depth(t) \/ d \in 1..Depth(t)'
      BY <1>1, <1>2, <2>2
    <3>2. ASSUME NEW d \in 1..Depth(t)'
          PROVE  Fit(t, d, Depth(t)', stack'[t][d]) /\ stack[t][d].place \in {"chunk", "serial"}
      <4>1. Fit(t, d, Depth(t), stack[t][d]) /\ d < Depth(t) BY <1>3, <3>1
      <4>2. stack'[t][d] = stack[t][d] BY <3>1
      <4>3. stack[t][d].place \in {"chunk", "serial"} BY <4>1 DEF Fit
      <4> QED BY <4>1, <4>2, <4>3 DEF Fit
    <3>3. \A d \in 1..Depth(t)' : \A j \in Slots : Holds(t, d, j)' <=> Holds(t, d, j)
      BY <3>1 DEF Holds
    <3>4. Top(t)'.place \in {"chunk", "serial"}
      <4>1. Top(t)' = stack[t][Depth(t)'] BY <1>4, <3>1
      <4> QED BY <3>1, <3>2, <4>1
    <3>5. Top(t)'.place # "post" /\ ~Waits(Top(t)') BY <3>4 DEF Waits
    <3>6. stack'[t][1] = stack[t][1] BY <3>1
    <3>7. ASSUME NEW d \in 1..Depth(t)', NEW j \in Slots, Holds(t, d, j)'
          PROVE  d \in 1..Depth(t) /\ Holds(t, d, j) /\ job'[j].live
      <4>1. d \in 1..Depth(t) /\ d # Depth(t) /\ Holds(t, d, j)
        BY <1>2, <3>1, <3>3, <3>7
      <4> QED BY <1>8, <4>1
    <3>8. ASSUME NEW d \in 1..Depth(t), NEW j \in Slots, Holds(t, d, j), job'[j].live
          PROVE  d \in 1..Depth(t)' /\ Holds(t, d, j)'
      <4>1. d # Depth(t) BY <3>8
      <4>2. d \in 1..Depth(t)' BY <3>1, <4>1
      <4> QED BY <3>3, <3>8, <4>2
    <3> QED BY <3>2, <3>5, <3>6, <3>7, <3>8
  <2> QED BY <2>1, <2>2
<1>10. Restacks(t) BY <1>1, <1>5, <1>7, <1>8, <1>9 DEF Restacks
<1> QED BY <1>6, <1>9, <1>10

\* The count of the waiters stays with the waiters.
LEMMA SameWaiters ==
  ASSUME IInv, NEW t \in Threads, alive' = alive, mode' = mode, doneWaiters' = doneWaiters,
         \A u \in Threads : u # t => Top(u)' = Top(u), ~Waits(Top(t)), ~Waits(Top(t)')
  PROVE  WaitersAreCounted'
<1>1. ASSUME NEW u \in Threads
      PROVE  (At(u, "settle") \/ At(u, "barrier"))' <=> (At(u, "settle") \/ At(u, "barrier"))
  <2>1. CASE u = t
    BY <2>1 DEF At, Waits
  <2>2. CASE u # t
    BY <2>2 DEF At
  <2> QED BY <2>1, <2>2
<1>2. Waiters' = Waiters BY <1>1 DEF Waiters
<1>3. Cardinality(Waiters') = Cardinality(Waiters) BY <1>2, Zenon
<1> QED BY <1>3 DEF IInv, WaitersAreCounted

\* An inline region starts its next item, or returns.
LEMMA RunNextIsSafe ==
  ASSUME IInv, NEW t \in Threads, RunNext(t)
  PROVE  IInv'
<1>1. t \in alive /\ Top(t).place = "inline" BY DEF RunNext, At
<1>2. /\ Top(t).n > 0 /\ RegionFrame(t, Depth(t), Top(t)) /\ Mine(t) \in Regions
      /\ Top(t) \in Frames
  BY <1>1, TopTells, TopIsAFrame DEF IInv, Unshared
<1>3. UNCHANGED <<mode, pool, mu, inited, team, alive, seen, begun, forks>> BY DEF RunNext
<1>4. started \in [Regions -> SUBSET Nat] BY DEF IInv, TypeOK
<1>5. CASE Top(t).item < Top(t).n
  <2> DEFINE f == [Top(t) EXCEPT !.place = "serial"]
  <2>1. stack' = With(t, f) /\ started' = [started EXCEPT ![Mine(t)] = @ \cup {Top(t).item}]
    BY <1>5 DEF RunNext, Goto
  <2>2. Top(t).item \in Nat BY <1>2 DEF Frames
  <2>3. started' \in [Regions -> SUBSET Nat] BY <1>2, <1>4, <2>1, <2>2
  <2>4. f \in Frames /\ f.n = Top(t).n /\ RegionFrame(t, Depth(t), f) /\ f.place = "serial"
    BY <1>1, <1>2 DEF Frames, Places, RegionFrame, Unpublished, Owned, Unshared
  <2> HIDE DEF f
  <2>5. f.place \notin Owned /\ Top(t).place \notin Owned /\ ~Waits(f) /\ ~Waits(Top(t))
    BY <1>1, <2>4 DEF Owned, Waits
  <2> QED BY <1>1, <1>2, <1>3, <2>1, <2>3, <2>4, <2>5, RegionStep
<1>6. CASE ~(Top(t).item < Top(t).n)
  <2>1. stack' = Returned(t) /\ started' = started BY <1>6 DEF RunNext
  <2>2. \A j \in Slots : ~Holds(t, Depth(t), j)
    <3>1. stack[t][Depth(t)].place = "inline" BY <1>1 DEF Top
    <3> QED BY <3>1 DEF Holds, Owned
  <2>3. /\ Restacks(t) /\ ~Waits(Top(t)')
        /\ \A u \in Threads : u # t => Top(u)' = Top(u)
    BY <1>1, <1>2, <1>3, <2>1, <2>2, ReturnRestacks DEF pool
  <2>4. TypeOK' BY <1>3, <2>1, <2>3 DEF IInv, TypeOK, Restacks, Frames, pool
  <2>5. WaitersAreCounted'
    <3>1. ~Waits(Top(t)) BY <1>1 DEF Waits
    <3> QED BY <1>3, <2>3, <3>1, SameWaiters DEF pool
  <2> QED BY <2>3, <2>4, <2>5, RestackingIsSafe DEF IInv
<1> QED BY <1>5, <1>6

\* A region whose helpers have left returns.
LEMMA SettleIsSafe ==
  ASSUME IInv, NEW t \in Threads, Settle(t)
  PROVE  IInv'
<1> DEFINE k == Top(t).slot
<1>1. /\ t \in alive /\ Top(t).place = "settle" /\ stack' = Returned(t)
      /\ UNCHANGED <<mode, mu, gen, rotor, inited, team, alive, seen, started, begun, forks>>
      /\ job' = [job EXCEPT ![k].live = FALSE] /\ job[k].refs = 0
      /\ doneWaiters' = IF mode.fastexit THEN doneWaiters - 1 ELSE doneWaiters
  BY DEF Settle, At, HelpersLeft
<1>2. /\ Top(t).n > 0 /\ Top(t) \in Frames /\ k \in Slots
      /\ Depth(t) \in 1..Depth(t) /\ Top(t) = stack[t][Depth(t)]
  BY <1>1, TopTells, TopIsAFrame DEF IInv, Frames
<1>3. /\ job \in [Slots -> [live : BOOLEAN, n : Nat, next : Nat, refs : Nat, cap : Nat,
                            low : BOOLEAN, region : Regions \cup {NoRegion}]]
      /\ doneWaiters \in Nat
  BY DEF IInv, TypeOK
<1>4. \A j \in Slots : Holds(t, Depth(t), j) <=> j = k
  BY <1>1, <1>2 DEF Holds, Owned
<1> HIDE DEF k
<1>5. \A j \in Slots :
        /\ job'[j].region = job[j].region /\ job'[j].refs = job[j].refs
        /\ job'[j].n = job[j].n /\ job'[j].next = job[j].next /\ job'[j].cap = job[j].cap
        /\ job'[j].live = IF j = k THEN FALSE ELSE job[j].live
  BY <1>1, <1>2, <1>3
<1>6. job' \in [Slots -> [live : BOOLEAN, n : Nat, next : Nat, refs : Nat, cap : Nat,
                          low : BOOLEAN, region : Regions \cup {NoRegion}]]
  BY <1>1, <1>2, <1>3
<1>7. \A j \in Slots :
        /\ job'[j].live <=> job[j].live /\ ~Holds(t, Depth(t), j)
        /\ Holds(t, Depth(t), j) => job[j].refs = 0
  BY <1>1, <1>3, <1>4, <1>5
<1>8. /\ Restacks(t) /\ ~Waits(Top(t)')
      /\ \A u \in Threads : u # t => Top(u)' = Top(u)
  <2>1. Top(t).place # "post" BY <1>1
  <2> QED BY <1>1, <1>2, <1>5, <1>7, <2>1, ReturnRestacks
<1>9. Waiters' = Waiters \ {t} /\ t \in Waiters
  <2>1. ASSUME NEW u \in Threads
        PROVE  (At(u, "settle") \/ At(u, "barrier"))'
               <=> (At(u, "settle") \/ At(u, "barrier")) /\ u # t
    <3>1. CASE u = t
      BY <1>8, <3>1 DEF At, Waits
    <3>2. CASE u # t
      BY <1>1, <1>8, <3>2 DEF At
    <3> QED BY <3>1, <3>2
  <2> QED BY <1>1, <2>1 DEF Waiters, At
<1>10. IsFiniteSet(Waiters)
  <2>1. Waiters \subseteq Threads BY DEF Waiters
  <2> QED BY <2>1, FS_Subset, PoolAssumption
<1>11. Cardinality(Waiters \ {t}) = Cardinality(Waiters) - 1 /\ Cardinality(Waiters) \in Nat
       /\ Cardinality(Waiters) # 0
  <2>1. Waiters # {} BY <1>9
  <2> QED BY <1>9, <1>10, <2>1, FS_RemoveElement, FS_CardinalityType, FS_EmptySet
<1>12. Cardinality(Waiters') = Cardinality(Waiters \ {t}) BY <1>9, Zenon
<1>13. mode.fastexit => doneWaiters = Cardinality(Waiters) BY DEF IInv, WaitersAreCounted
<1>14. WaitersAreCounted' BY <1>1, <1>11, <1>12, <1>13 DEF WaitersAreCounted
<1>15. doneWaiters' \in Nat BY <1>1, <1>3, <1>11, <1>13
<1>16. TypeOK'
  <2>1. stack' \in [Threads -> Seq(Frames)] BY <1>8 DEF Restacks
  <2>2. TypeOK BY DEF IInv
  <2>3. UNCHANGED <<mode, mu, gen, rotor, inited, team, alive, seen, started, begun, forks>>
    BY <1>1
  <2> QED BY <1>6, <1>15, <2>1, <2>2, <2>3 DEF TypeOK, Frames
<1> QED BY <1>8, <1>14, <1>16, RestackingIsSafe DEF IInv

\* The frame of a region that begins.
LEMMA CallFrames ==
  ASSUME NEW n \in Sizes
  PROVE  LET g == [Frame("call") EXCEPT !.n = n]
         IN  g \in Frames /\ g.place = "call" /\ g.n = n /\ n > 0 /\ g.region = NoRegion
<1>1. n \in Nat \ {0} BY PoolAssumption
<1>2. Frame("call") \in Frames BY FreshFrames DEF Places
<1>3. Frame("call").place = "call" /\ Frame("call").region = NoRegion BY DEF Frame
<1> QED BY <1>1, <1>2, <1>3 DEF Frames

LEMMA NothingStarted ==
  ASSUME NEW s \in [Regions -> SUBSET Nat], NEW r
  PROVE  [s EXCEPT ![r] = {}] \in [Regions -> SUBSET Nat]
<1>1. {} \in SUBSET Nat OBVIOUS
<1> QED BY <1>1, Zenon

\* A region begins on an empty stack.
LEMMA DispatchIsSafe ==
  ASSUME IInv, NEW s \in Submitters, Dispatch(s)
  PROVE  IInv'
<1>0. s \in Threads BY DEF Threads
<1>1. /\ s \in alive /\ Top(s).place = "idle"
      /\ UNCHANGED <<mode, pool, mu, inited, team, alive, seen, forks>>
      /\ started' = [started EXCEPT ![<<s, 1>>] = {}]
      /\ Begin(s, <<>>)
  BY DEF Dispatch, At
<1>2. begun' = begun + 1 BY <1>1 DEF Begin
<1>3. PICK n \in Sizes :
        stack' = [stack EXCEPT ![s] = Append(<<>>, [Frame("call") EXCEPT !.n = n])]
  BY <1>1 DEF Begin
<1> DEFINE g == [Frame("call") EXCEPT !.n = n]
<1>4. g \in Frames /\ g.place = "call" /\ g.n > 0 /\ g.region = NoRegion BY CallFrames
<1>5. stack' = [stack EXCEPT ![s] = Append(<<>>, g)] BY <1>3
<1> HIDE DEF g
<1>6. Depth(s) = 1 /\ Top(s).n = 0 /\ s \notin Workers
  BY <1>0, <1>1, TopTells, PoolAssumption
<1>7. Append(<<>>, g) = <<g>> /\ <<g>> \in Seq(Frames) BY <1>4
<1>8. /\ stack' \in [Threads -> Seq(Frames)]
      /\ \A u \in Threads : stack'[u] = IF u = s THEN <<g>> ELSE stack[u]
  BY <1>0, <1>5, <1>7, StackIsSet DEF IInv
<1>9. /\ stack'[s] = <<g>> /\ Depth(s)' = 1 /\ stack'[s][1] = g /\ Top(s)' = g
  BY <1>0, <1>8 DEF Depth, Top
<1>10. \A u \in Threads : u # s => stack'[u] = stack[u] BY <1>8
<1>11. \A u \in Threads : u # s => Top(u)' = Top(u) BY <1>10 DEF Top, Depth
<1>12. \A d \in 1..Depth(s)' : Fit(s, d, Depth(s)', stack'[s][d])
  BY <1>4, <1>6, <1>9 DEF Fit, RegionFrame, Unpublished
<1>13. \A d \in 1..Depth(s)' : \A j \in Slots : ~Holds(s, d, j)'
  BY <1>4, <1>9 DEF Holds, Owned
<1>14. \A d \in 1..Depth(s) : \A j \in Slots : ~Holds(s, d, j)
  <2>1. stack[s][1].n = 0 BY <1>6 DEF Top
  <2> QED BY <1>6, <2>1 DEF Holds
<1>15. 1 \in 1..MaxDepth BY PoolAssumption
<1>16. \A u \in Threads : \A d \in 1..Depth(u) : \A j \in Slots : Holds(u, d, j) => job'[j].live
  BY <1>1 DEF IInv, OneHolder, pool
<1>17. Restacks(s)
  BY <1>1, <1>4, <1>6, <1>8, <1>9, <1>10, <1>12, <1>13, <1>14, <1>15, <1>16 DEF Restacks, pool
<1>18. WaitersAreCounted'
  <2>1. ~Waits(Top(s)) /\ ~Waits(Top(s)') BY <1>1, <1>4, <1>9 DEF Waits
  <2> QED BY <1>0, <1>1, <1>11, <2>1, SameWaiters DEF pool
<1>19. TypeOK'
  <2>1. started' \in [Regions -> SUBSET Nat] BY <1>1, NothingStarted DEF IInv, TypeOK
  <2>2. begun' \in Nat BY <1>2 DEF IInv, TypeOK
  <2> QED BY <1>1, <1>8, <2>1, <2>2 DEF IInv, TypeOK, Frames, pool
<1> QED BY <1>0, <1>17, <1>18, <1>19, RestackingIsSafe DEF IInv

\* A region begins inside an item of another.
LEMMA NestIsSafe ==
  ASSUME IInv, NEW t \in Threads, Nest(t)
  PROVE  IInv'
<1>1. /\ t \in alive /\ Top(t).place \in {"chunk", "serial"} /\ Depth(t) < MaxDepth
      /\ UNCHANGED <<mode, pool, mu, inited, team, alive, seen, forks>>
      /\ started' = [started EXCEPT ![<<t, Depth(t) + 1>>] = {}]
      /\ Begin(t, stack[t])
  BY DEF Nest, At
<1>2. begun' = begun + 1 BY <1>1 DEF Begin
<1>3. PICK n \in Sizes :
        stack' = [stack EXCEPT ![t] = Append(stack[t], [Frame("call") EXCEPT !.n = n])]
  BY <1>1 DEF Begin
<1> DEFINE g == [Frame("call") EXCEPT !.n = n]
           s == Append(stack[t], g)
<1>4. g \in Frames /\ g.place = "call" /\ g.n > 0 /\ g.region = NoRegion BY CallFrames
<1>5. stack' = [stack EXCEPT ![t] = s] BY <1>3
<1> HIDE DEF g
<1>6. /\ Depth(t) \in Nat \ {0} /\ Depth(t) \in 1..Depth(t) /\ 1 \in 1..Depth(t)
      /\ Depth(t) = Len(stack[t]) /\ Top(t) = stack[t][Depth(t)] /\ stack[t] \in Seq(Frames)
      /\ MaxDepth \in Nat
  BY TopIsAFrame, StacksAreSequences, PoolAssumption DEF IInv
<1>7. /\ s \in Seq(Frames) /\ Len(s) = Depth(t) + 1 /\ s[Depth(t) + 1] = g
      /\ \A d \in 1..Depth(t) : s[d] = stack[t][d]
  BY <1>4, <1>6
<1> HIDE DEF s
<1>8. /\ stack' \in [Threads -> Seq(Frames)]
      /\ \A u \in Threads : stack'[u] = IF u = t THEN s ELSE stack[u]
  BY <1>5, <1>7, StackIsSet DEF IInv
<1>9. /\ stack'[t] = s /\ Depth(t)' = Depth(t) + 1 /\ Top(t)' = g
  BY <1>7, <1>8 DEF Depth, Top
<1>10. /\ Depth(t)' \in 1..MaxDepth
       /\ \A d \in 1..Depth(t)' : d \in 1..Depth(t) \/ d = Depth(t) + 1
       /\ \A d \in 1..Depth(t) : d \in 1..Depth(t)' /\ d < Depth(t)'
                                 /\ (d < Depth(t) \/ d = Depth(t))
       /\ Depth(t) + 1 # 1
  BY <1>1, <1>6, <1>9
<1>11. \A u \in Threads : u # t => stack'[u] = stack[u] BY <1>8
<1>12. \A u \in Threads : u # t => Top(u)' = Top(u) BY <1>11 DEF Top, Depth
<1>13. ASSUME NEW d \in 1..Depth(t)' PROVE Fit(t, d, Depth(t)', stack'[t][d])
  <2>1. CASE d \in 1..Depth(t)
    <3>1. Fit(t, d, Depth(t), stack[t][d]) BY <2>1 DEF IInv, StacksFit
    <3>2. stack[t][d].place \in {"chunk", "serial"}
      <4>1. CASE d < Depth(t)
        BY <3>1, <4>1 DEF Fit
      <4>2. CASE d = Depth(t)
        BY <1>1, <1>6, <4>2
      <4> QED BY <1>10, <2>1, <4>1, <4>2
    <3>3. stack'[t][d] = stack[t][d] BY <1>7, <1>9, <2>1
    <3> QED BY <3>1, <3>2, <3>3 DEF Fit
  <2>2. CASE d = Depth(t) + 1
    <3>1. stack'[t][d] = g /\ d # 1 /\ ~(d < Depth(t)')
      BY <1>6, <1>7, <1>9, <1>10, <2>2
    <3> QED BY <1>4, <3>1 DEF Fit, RegionFrame, Unpublished
  <2> QED BY <1>10, <2>1, <2>2
<1>14. \A d \in 1..Depth(t) : \A j \in Slots : Holds(t, d, j)' <=> Holds(t, d, j)
  BY <1>1, <1>7, <1>9 DEF Holds
<1>15. \A u \in Threads : \A d \in 1..Depth(u) : \A j \in Slots : Holds(u, d, j) => job'[j].live
  BY <1>1 DEF IInv, OneHolder, pool
<1>16. ASSUME NEW d \in 1..Depth(t)', NEW j \in Slots, Holds(t, d, j)'
       PROVE  d \in 1..Depth(t) /\ Holds(t, d, j) /\ job'[j].live
  <2>1. d # Depth(t) + 1
    <3>1. d = Depth(t) + 1 => stack'[t][d].place = "call" BY <1>4, <1>7, <1>9
    <3> QED BY <1>16, <3>1 DEF Holds, Owned
  <2>2. d \in 1..Depth(t) BY <1>10, <2>1
  <2> QED BY <1>14, <1>15, <1>16, <2>2
<1>17. Restacks(t)
  <2>1. Top(t).place # "post" /\ Top(t)'.place # "post" BY <1>1, <1>4, <1>9
  <2>2. stack'[t][1] = stack[t][1] BY <1>6, <1>7, <1>9
  <2>3. /\ UNCHANGED <<mode, mu, gen, rotor, inited, team, alive, seen, forks>>
        /\ job' = job
    BY <1>1 DEF pool
  <2>4. \A d \in 1..Depth(t) : \A j \in Slots :
          Holds(t, d, j) /\ job'[j].live => d \in 1..Depth(t)' /\ Holds(t, d, j)'
    BY <1>10, <1>14
  <2> QED BY <1>1, <1>8, <1>10, <1>11, <1>13, <1>15, <1>16, <2>1, <2>2, <2>3, <2>4 DEF Restacks
<1>18. WaitersAreCounted'
  <2>1. ~Waits(Top(t)) /\ ~Waits(Top(t)') BY <1>1, <1>4, <1>9 DEF Waits
  <2> QED BY <1>1, <1>12, <2>1, SameWaiters DEF pool
<1>19. TypeOK'
  <2>1. started' \in [Regions -> SUBSET Nat] BY <1>1, NothingStarted DEF IInv, TypeOK
  <2>2. begun' \in Nat BY <1>2 DEF IInv, TypeOK
  <2> QED BY <1>1, <1>8, <2>1, <2>2 DEF IInv, TypeOK, Frames, pool
<1> QED BY <1>17, <1>18, <1>19, RestackingIsSafe DEF IInv
-----------------------------------------------------------------------------
(* Workers are created, and a process forks.                               *)

\* A worker that has not been created is not alive, and its stack is bare.
LEMMA UnbornWorkers ==
  ASSUME IInv, NEW w \in Unborn
  PROVE  w \in Workers /\ w \in Threads /\ w \notin alive /\ seen[w] = 0
<1>1. w \in Workers /\ stack[w] = <<Frame("absent")>> BY DEF Unborn
<1>2. stack[w][1].place = "absent" BY <1>1 DEF Frame
<1> QED BY <1>1, <1>2 DEF IInv, WorkersAreBorn, Threads

LEMMA PoolInitIsSafe ==
  ASSUME IInv, NEW t \in Threads, PoolInit(t)
  PROVE  IInv'
<1> DEFINE f == Frame("top")
<1>1. /\ inited' = TRUE /\ alive' = alive \cup team'
      /\ stack' = [u \in Threads |-> IF u \in team' THEN <<f>> ELSE stack[u]]
      /\ UNCHANGED <<mode, pool, mu, seen, started, begun, forks>>
  BY DEF PoolInit
<1>2. team' \subseteq Unborn
  <2>1. PICK size \in mode.teams : Teams(size) # {} /\ team' = Created(size) BY DEF PoolInit
  <2>2. team' \in Teams(size) BY <2>1 DEF Created
  <2> QED BY <2>2 DEF Teams
<1>3. \A w \in team' : w \in Workers /\ w \in Threads /\ w \notin alive /\ seen[w] = 0
  BY <1>2, UnbornWorkers
<1>4. /\ f \in Frames /\ f.place = "top" /\ f.n = 0 /\ f.region = NoRegion /\ f.item = 0
      /\ <<f>> \in Seq(Frames)
  BY FreshFrames DEF Places, Frame
<1> HIDE DEF f
<1>5. \A u \in Threads :
        /\ u \in team' => stack'[u] = <<f>> /\ Depth(u)' = 1 /\ stack'[u][1] = f /\ Top(u)' = f
        /\ u \notin team' => stack'[u] = stack[u] /\ Depth(u)' = Depth(u) /\ Top(u)' = Top(u)
        /\ u \in alive' /\ u \notin team' <=> u \in alive
  BY <1>1, <1>3 DEF Depth, Top
<1>6. stack' \in [Threads -> Seq(Frames)]
  <2>1. stack \in [Threads -> Seq(Frames)] BY DEF IInv, TypeOK, Frames
  <2> QED BY <1>1, <1>4, <2>1
<1>7. TypeOK'
  <2>1. TypeOK /\ team' \in SUBSET Workers /\ alive' \in SUBSET Threads
    BY <1>1, <1>3 DEF IInv, TypeOK
  <2> QED BY <1>1, <1>6, <2>1 DEF TypeOK, Frames, pool
<1>8. StacksFit'
  <2> SUFFICES ASSUME NEW u \in Threads
               PROVE  Depth(u)' \in 1..MaxDepth
                      /\ \A d \in 1..Depth(u)' : Fit(u, d, Depth(u)', stack'[u][d])
    BY DEF StacksFit, Fit, HelperFrame, RegionFrame
  <2>1. CASE u \in team'
    <3>1. HelperFrame(f) BY <1>4 DEF HelperFrame, HelperPlaces, Joined
    <3>2. 1 \in 1..MaxDepth BY PoolAssumption
    <3> QED BY <1>3, <1>5, <2>1, <3>1, <3>2 DEF Fit
  <2>2. CASE u \notin team'
    BY <1>5, <2>2 DEF IInv, StacksFit
  <2> QED BY <2>1, <2>2
<1>9. WorkersAreBorn'
  <2> SUFFICES ASSUME NEW w \in Workers
               PROVE  /\ w \in alive' => stack'[w][1].place # "absent"
                      /\ stack'[w][1].place = "absent" => seen'[w] = 0
    BY DEF WorkersAreBorn
  <2>1. w \in Threads BY DEF Threads
  <2> QED BY <1>1, <1>4, <1>5, <2>1 DEF IInv, WorkersAreBorn
<1>10. OneHolder'
  <2>1. ASSUME NEW u \in Threads, NEW d \in 1..Depth(u)', NEW k \in Slots, Holds(u, d, k)'
        PROVE  u \notin team'
    <3>1. u \in team' => d = 1 /\ stack'[u][d].n = 0 BY <1>4, <1>5
    <3> QED BY <2>1, <3>1 DEF Holds
  <2>2. ASSUME NEW u \in Threads, u \notin team', NEW d, NEW k \in Slots
        PROVE  Holds(u, d, k)' <=> Holds(u, d, k)
    BY <1>5, <2>2 DEF Holds
  <2>3. ASSUME NEW u \in Threads, NEW d \in 1..Depth(u)', NEW k \in Slots, Holds(u, d, k)'
        PROVE  job'[k].live /\ job'[k].region = <<u, d>>
    <3>1. u \notin team' BY <2>1, <2>3
    <3>2. d \in 1..Depth(u) /\ Holds(u, d, k) BY <1>5, <2>2, <2>3, <3>1
    <3> QED BY <1>1, <3>2 DEF IInv, OneHolder, pool
  <2>4. ASSUME NEW k \in Slots, job'[k].live
        PROVE  \E u \in Threads : \E d \in 1..Depth(u)' : Holds(u, d, k)'
    <3>1. PICK u \in Threads : \E d \in 1..Depth(u) : Holds(u, d, k)
      BY <1>1, <2>4 DEF IInv, OneHolder, pool
    <3>2. PICK d \in 1..Depth(u) : Holds(u, d, k) BY <3>1
    <3>3. u \notin team' BY <1>3, <3>2 DEF Holds
    <3>4. d \in 1..Depth(u)' /\ Holds(u, d, k)' BY <1>5, <2>2, <3>2, <3>3
    <3> QED BY <3>4
  <2> QED BY <2>3, <2>4 DEF OneHolder
<1>11. HelpersAreInside'
  <2>1. ASSUME NEW w \in Workers, NEW k \in Slots
        PROVE  /\ Helping(w, k)' <=> Helping(w, k)
               /\ Helping(w, k) => stack'[w][1] = stack[w][1]
    <3>1. w \in Threads BY DEF Threads
    <3> QED BY <1>3, <1>4, <1>5, <3>1 DEF Helping
  <2>2. ASSUME NEW k \in Slots
        PROVE  /\ job'[k].refs = Cardinality(Helpers(k)')
               /\ \A w \in Helpers(k)' : job'[k].live /\ job'[k].region = stack'[w][1].region
    <3>1. Helpers(k)' = Helpers(k) BY <2>1 DEF Helpers
    <3>2. Cardinality(Helpers(k)') = Cardinality(Helpers(k)) BY <3>1, Zenon
    <3>3. \A w \in Helpers(k) : w \in Workers /\ stack'[w][1] = stack[w][1]
      BY <2>1 DEF Helpers
    <3> QED BY <1>1, <3>1, <3>2, <3>3 DEF IInv, HelpersAreInside, pool
  <2> QED BY <2>2 DEF HelpersAreInside
<1>12. MutexIsPosting'
  <2>1. ASSUME mu # Nobody PROVE At(mu, "post")' /\ job'[Top(mu)'.slot].refs = 0
    <3>1. mu \in Threads /\ At(mu, "post") /\ job[Top(mu).slot].refs = 0
      BY <2>1 DEF IInv, TypeOK, MutexIsPosting
    <3>2. mu' = mu /\ mu \notin team' BY <1>1, <1>3, <3>1 DEF At
    <3>3. mu \in alive' /\ stack'[mu] = stack[mu] BY <1>1, <1>5, <3>1, <3>2 DEF At
    <3>4. stack'[mu'] = stack[mu] /\ mu' \in alive' BY <3>2, <3>3
    <3> QED BY <1>1, <3>1, <3>2, <3>4 DEF At, Top, Depth, pool
  <2>2. ASSUME NEW u \in Threads, At(u, "post")' PROVE mu = u
    <3>1. u \notin team' BY <1>4, <1>5, <2>2 DEF At
    <3>2. At(u, "post") BY <1>5, <2>2, <3>1 DEF At
    <3> QED BY <3>2 DEF IInv, MutexIsPosting
  <2> QED BY <1>1, <2>1, <2>2 DEF MutexIsPosting
<1>13. LeavesNothing'
  <2> SUFFICES ASSUME NEW w \in Workers, w \in alive', stack'[w][1].place = "leave"
               PROVE  job'[stack'[w][1].slot].next >= job'[stack'[w][1].slot].n
    BY DEF LeavesNothing
  <2>1. w \in Threads BY DEF Threads
  <2>2. w \notin team' BY <1>4, <1>5, <2>1
  <2> QED BY <1>1, <1>5, <2>1, <2>2 DEF IInv, LeavesNothing, pool
<1>14. WaitersAreCounted'
  <2>1. ASSUME NEW u \in Threads
        PROVE  (At(u, "settle") \/ At(u, "barrier"))' <=> (At(u, "settle") \/ At(u, "barrier"))
    BY <1>3, <1>4, <1>5 DEF At
  <2>2. Waiters' = Waiters BY <2>1 DEF Waiters
  <2>3. Cardinality(Waiters') = Cardinality(Waiters) BY <2>2, Zenon
  <2> QED BY <1>1, <2>3 DEF IInv, WaitersAreCounted, pool
<1>15. NothingOverlooked'
  <2>1. ASSUME NEW k \in Slots, Filling(k) PROVE Filling(k)'
    <3>1. mu \in Threads /\ At(mu, "post")
      BY <2>1 DEF Filling, IInv, TypeOK, MutexIsPosting
    <3>2. mu' = mu /\ mu \notin team' BY <1>1, <1>3, <3>1 DEF At
    <3>3. Depth(mu)' = Depth(mu) BY <1>1, <1>5, <3>1, <3>2 DEF Depth
    <3> QED BY <1>1, <2>1, <3>2, <3>3 DEF Filling, Mine, pool
  <2>2. ASSUME NEW k \in Slots PROVE HasWork(k)' <=> HasWork(k)
    BY <1>1 DEF HasWork, pool
  <2>3. ASSUME NEW w \in Workers, w \in alive' PROVE Watchful(stack[w][1], seen[w])'
    <3>1. w \in Threads BY DEF Threads
    <3>2. gen \in Nat /\ gen' = gen /\ seen' = seen BY <1>1 DEF IInv, TypeOK, pool
    <3>3. CASE w \in team'
      <4>1. stack'[w][1].place = "top" /\ seen[w] = 0 BY <1>3, <1>4, <1>5, <3>1, <3>3
      <4> QED BY <3>2, <4>1 DEF Watchful, Overlooked
    <3>4. CASE w \notin team'
      <4>1. w \in alive /\ stack'[w][1] = stack[w][1] BY <1>5, <2>3, <3>1, <3>4
      <4>2. Watchful(stack[w][1], seen[w]) BY <4>1 DEF IInv, NothingOverlooked
      <4>3. ASSUME NEW k \in Slots, seen'[w] = gen', Overlooked(stack[w][1], k)', HasWork(k)'
            PROVE  Filling(k)'
        <5>1. Overlooked(stack[w][1], k) BY <4>1, <4>3 DEF Overlooked
        <5>2. Filling(k) BY <2>2, <3>2, <4>2, <4>3, <5>1 DEF Watchful
        <5> QED BY <2>1, <5>2
      <4> QED BY <3>2, <4>1, <4>2, <4>3 DEF Watchful
    <3> QED BY <3>3, <3>4
  <2> QED BY <2>3 DEF NothingOverlooked
<1> QED BY <1>7, <1>8, <1>9, <1>10, <1>11, <1>12, <1>13, <1>14, <1>15 DEF IInv

\* The slot of no region.
LEMMA NoJobs ==
  /\ NoJob \in [live : BOOLEAN, n : Nat, next : Nat, refs : Nat, cap : Nat,
                low : BOOLEAN, region : Regions \cup {NoRegion}]
  /\ ~NoJob.live /\ NoJob.refs = 0
BY DEF NoJob

LEMMA ForkIsSafe ==
  ASSUME IInv, NEW s \in Submitters, Fork(s)
  PROVE  IInv'
<1>0. s \in Threads BY DEF Threads
<1>1. /\ Top(s).place = "idle"
      /\ forks' = forks + 1 /\ alive' = {s} /\ job' = [k \in Slots |-> NoJob] /\ mu' = Nobody
      /\ gen' = 0 /\ rotor' = 0 /\ doneWaiters' = 0 /\ inited' = FALSE /\ team' = {}
      /\ UNCHANGED <<mode, stack, seen, started, begun>>
  BY DEF Fork, At
<1>2. Depth(s) = 1 /\ Top(s).n = 0 /\ s \notin Workers
  BY <1>0, <1>1, TopTells, PoolAssumption
<1>3. \A k \in Slots : ~job'[k].live /\ job'[k].refs = 0 BY <1>1, NoJobs
<1>4. TypeOK'
  <2>1. TypeOK BY DEF IInv
  <2>2. job' \in [Slots -> [live : BOOLEAN, n : Nat, next : Nat, refs : Nat, cap : Nat,
                            low : BOOLEAN, region : Regions \cup {NoRegion}]]
    BY <1>1, NoJobs
  <2>3. forks' \in Nat /\ rotor' \in Slots BY <1>1, <2>1, Names DEF TypeOK
  <2> QED BY <1>0, <1>1, <2>1, <2>2, <2>3 DEF TypeOK
<1>5. \A w \in Workers : w \notin alive' BY <1>1, <1>2
<1>6. StacksFit' BY <1>1 DEF IInv, StacksFit, Depth
<1>7. WorkersAreBorn' BY <1>1, <1>5 DEF IInv, WorkersAreBorn
<1>8. OneHolder'
  <2>1. ASSUME NEW u \in Threads, NEW d \in 1..Depth(u)', NEW k \in Slots PROVE ~Holds(u, d, k)'
    <3>1. u = s => d = 1 /\ stack'[u][d].n = 0 BY <1>1, <1>2 DEF Depth, Top
    <3> QED BY <1>1, <3>1 DEF Holds
  <2> QED BY <1>3, <2>1 DEF OneHolder
<1>9. HelpersAreInside'
  <2>1. ASSUME NEW k \in Slots PROVE Helpers(k)' = {}
    BY <1>5 DEF Helpers, Helping
  <2>2. ASSUME NEW k \in Slots PROVE Cardinality(Helpers(k)') = 0
    <3>1. Cardinality(Helpers(k)') = Cardinality({}) BY <2>1, Zenon
    <3> QED BY <3>1, FS_EmptySet
  <2> QED BY <1>3, <2>1, <2>2 DEF HelpersAreInside
<1>10. MutexIsPosting'
  <2>1. ASSUME NEW u \in Threads PROVE ~At(u, "post")'
    BY <1>1 DEF At, Top, Depth
  <2> QED BY <1>1, <2>1 DEF MutexIsPosting
<1>11. LeavesNothing' BY <1>5 DEF LeavesNothing
<1>12. WaitersAreCounted'
  <2>1. Waiters' = {} BY <1>1 DEF Waiters, At, Top, Depth
  <2>2. Cardinality(Waiters') = Cardinality({}) BY <2>1, Zenon
  <2> QED BY <1>1, <2>2, FS_EmptySet DEF WaitersAreCounted
<1>13. NothingOverlooked' BY <1>5 DEF NothingOverlooked
<1> QED BY <1>4, <1>6, <1>7, <1>8, <1>9, <1>10, <1>11, <1>12, <1>13 DEF IInv
-----------------------------------------------------------------------------
(* The theorems.                                                           *)

LEMMA InitIsSafe == Init => IInv
<1> SUFFICES ASSUME Init PROVE IInv OBVIOUS
<1> DEFINE place(t) == IF t \in Workers THEN "absent" ELSE "idle"
<1>1. /\ stack = [t \in Threads |-> <<Frame(place(t))>>]
      /\ alive = Submitters /\ mu = Nobody /\ gen = 0 /\ doneWaiters = 0 /\ rotor = 0
      /\ job = [k \in Slots |-> NoJob] /\ seen = [w \in Workers |-> 0]
  BY DEF Init
<1>2. \A t \in Threads : place(t) \in {"absent", "idle"} /\ place(t) \in Places
                         /\ (place(t) = "absent" <=> t \in Workers)
  BY DEF Places
<1> HIDE DEF place
<1>3. \A t \in Threads :
        /\ Frame(place(t)) \in Frames /\ Frame(place(t)).place = place(t)
        /\ Frame(place(t)).n = 0 /\ Frame(place(t)).region = NoRegion
        /\ Frame(place(t)).item = 0
  BY <1>2, FreshFrames DEF Frame
<1>4. \A t \in Threads : Depth(t) = 1 /\ stack[t][1] = Frame(place(t)) /\ Top(t) = stack[t][1]
  BY <1>1 DEF Depth, Top
<1>5. stack \in [Threads -> Seq(Frames)]
  <2>1. \A t \in Threads : <<Frame(place(t))>> \in Seq(Frames) BY <1>3
  <2> QED BY <1>1, <2>1
<1>6. \A k \in Slots : ~job[k].live /\ job[k].refs = 0 BY <1>1, NoJobs
<1>7. \A w \in Workers : w \notin alive BY <1>1, PoolAssumption
<1>8. TypeOK
  <2>1. job \in [Slots -> [live : BOOLEAN, n : Nat, next : Nat, refs : Nat, cap : Nat,
                           low : BOOLEAN, region : Regions \cup {NoRegion}]]
    BY <1>1, NoJobs
  <2>2. rotor \in Slots BY <1>1, Names
  <2>3. started \in [Regions -> SUBSET Nat]
    <3>1. started = [r \in Regions |-> {}] BY DEF Init
    <3>2. {} \in SUBSET Nat OBVIOUS
    <3> QED BY <3>1, <3>2, Zenon
  <2>4. mode \in Modes /\ begun = 0 /\ forks = 0 /\ inited = FALSE /\ team = {} BY DEF Init
  <2>5. alive \in SUBSET Threads BY <1>1 DEF Threads
  <2>6. seen \in [Workers -> Nat] BY <1>1
  <2> QED BY <1>1, <1>5, <2>1, <2>2, <2>3, <2>4, <2>5, <2>6 DEF TypeOK, Frames
<1>9. StacksFit
  <2> SUFFICES ASSUME NEW t \in Threads
               PROVE  Depth(t) \in 1..MaxDepth
                      /\ \A d \in 1..Depth(t) : Fit(t, d, Depth(t), stack[t][d])
    BY DEF StacksFit
  <2>1. 1 \in 1..MaxDepth BY PoolAssumption
  <2>2. t \in Workers => HelperFrame(stack[t][1])
    BY <1>2, <1>3, <1>4 DEF HelperFrame, HelperPlaces, Joined
  <2> QED BY <1>2, <1>3, <1>4, <2>1, <2>2 DEF Fit
<1>10. WorkersAreBorn
  <2>1. \A w \in Workers : seen[w] = 0 BY <1>1
  <2> QED BY <1>7, <2>1 DEF WorkersAreBorn
<1>11. OneHolder
  <2>1. ASSUME NEW t \in Threads, NEW d \in 1..Depth(t), NEW k \in Slots PROVE ~Holds(t, d, k)
    BY <1>3, <1>4 DEF Holds
  <2> QED BY <1>6, <2>1 DEF OneHolder
<1>12. HelpersAreInside
  <2>1. ASSUME NEW k \in Slots PROVE Helpers(k) = {}
    BY <1>7 DEF Helpers, Helping
  <2>2. ASSUME NEW k \in Slots PROVE Cardinality(Helpers(k)) = 0
    <3>1. Cardinality(Helpers(k)) = Cardinality({}) BY <2>1, Zenon
    <3> QED BY <3>1, FS_EmptySet
  <2> QED BY <1>6, <2>1, <2>2 DEF HelpersAreInside
<1>13. MutexIsPosting
  BY <1>1, <1>2, <1>3, <1>4 DEF MutexIsPosting, At
<1>14. LeavesNothing BY <1>7 DEF LeavesNothing
<1>15. WaitersAreCounted
  <2>1. Waiters = {} BY <1>2, <1>3, <1>4 DEF Waiters, At
  <2>2. Cardinality(Waiters) = Cardinality({}) BY <2>1, Zenon
  <2> QED BY <1>1, <2>2, FS_EmptySet DEF WaitersAreCounted
<1>16. NothingOverlooked BY <1>7 DEF NothingOverlooked
<1> QED BY <1>8, <1>9, <1>10, <1>11, <1>12, <1>13, <1>14, <1>15, <1>16 DEF IInv

LEMMA StutterIsSafe ==
  ASSUME IInv, UNCHANGED vars
  PROVE  IInv'
<1> USE DEF vars
<1>1. TypeOK' /\ StacksFit' /\ WorkersAreBorn' /\ MutexIsPosting' /\ LeavesNothing'
  BY DEF IInv, TypeOK, StacksFit, WorkersAreBorn, MutexIsPosting, LeavesNothing, At, Top, Depth
<1>2. OneHolder' BY DEF IInv, OneHolder, Holds, Depth
<1>3. HelpersAreInside'
  <2>1. \A k \in Slots : Helpers(k)' = Helpers(k) BY DEF Helpers, Helping
  <2>2. \A k \in Slots : Cardinality(Helpers(k)') = Cardinality(Helpers(k)) BY <2>1, Zenon
  <2> QED BY <2>1, <2>2 DEF IInv, HelpersAreInside
<1>4. WaitersAreCounted'
  <2>1. Waiters' = Waiters BY DEF Waiters, At, Top, Depth
  <2>2. Cardinality(Waiters') = Cardinality(Waiters) BY <2>1, Zenon
  <2> QED BY <2>2 DEF IInv, WaitersAreCounted
<1>5. NothingOverlooked'
  BY DEF IInv, NothingOverlooked, Watchful, Overlooked, HasWork, Filling, Mine, Depth
<1> QED BY <1>1, <1>2, <1>3, <1>4, <1>5 DEF IInv

LEMMA NextIsSafe == IInv /\ [Next]_vars => IInv'
<1> SUFFICES ASSUME IInv, [Next]_vars PROVE IInv' OBVIOUS
<1>1. ASSUME NEW t \in Threads, Submit(t) PROVE IInv'
  BY <1>1, CallIsSafe, PoolInitIsSafe, NoSlotIsSafe, FillIsSafe, PostIsSafe, FetchIsSafe,
     FinishIsSafe, RunNextIsSafe, FinishInlineIsSafe, AnnounceIsSafe, SettleIsSafe,
     AwaitHelpersIsSafe DEF Submit
<1>2. ASSUME NEW t \in Threads, Nest(t) PROVE IInv'
  BY <1>2, NestIsSafe
<1>3. ASSUME NEW t \in Threads, SpuriousWakeup(t) PROVE IInv'
  BY <1>3, SpuriousWakeupIsSafe
<1>4. ASSUME NEW w \in Workers, Help(w) PROVE IInv'
  BY <1>4, LookIsSafe, ScanIsSafe, PickIsSafe, PickNothingIsSafe, SpinWinIsSafe, ParkIsSafe,
     LeaveIsSafe, LeaveFastIsSafe, PeekIsSafe, NotifyIsSafe DEF Help
<1>5. ASSUME NEW s \in Submitters, Dispatch(s) \/ Fork(s) PROVE IInv'
  BY <1>5, DispatchIsSafe, ForkIsSafe
<1>6. CASE UNCHANGED vars
  BY <1>6, StutterIsSafe
<1> QED BY <1>1, <1>2, <1>3, <1>4, <1>5, <1>6 DEF Next

\* The pool keeps its inductive invariant.
THEOREM PoolInvariant == Spec => []IInv
<1>1. Init => IInv BY InitIsSafe
<1>2. IInv /\ [Next]_vars => IInv' BY NextIsSafe
<1> QED BY <1>1, <1>2, PTL DEF Spec

\* A slot's count of helpers is the number of workers inside its region, and
\* the frame of the caller, which holds the context, is still there: the
\* barrier at the end of mynah_parallel_for() does not open too early.
THEOREM ContextsOutliveHelpers == Spec => []ContextOutlivesHelpers
<1>1. IInv => ContextOutlivesHelpers
  <2> SUFFICES ASSUME IInv, NEW k \in Slots, NEW w \in Helpers(k)
               PROVE  LET owner == job[k].region
                      IN  owner[2] <= Depth(owner[1]) /\ stack[owner[1]][owner[2]].slot = k
    BY DEF ContextOutlivesHelpers, IInv, HelpersAreInside
  <2>1. job[k].live BY DEF IInv, HelpersAreInside
  <2>2. PICK t \in Threads : \E d \in 1..Depth(t) : Holds(t, d, k)
    BY <2>1 DEF IInv, OneHolder
  <2>3. PICK d \in 1..Depth(t) : Holds(t, d, k) BY <2>2
  <2>4. job[k].region = <<t, d>> BY <2>3 DEF IInv, OneHolder
  <2>5. d <= Depth(t) BY StacksAreSequences DEF IInv
  <2> QED BY <2>3, <2>4, <2>5 DEF Holds
<1> QED BY <1>1, PoolInvariant, PTL

\* A worker that sleeps has overlooked no region it could help, except the
\* one being published now, whose publisher will wake it.
THEOREM NoWorkIsSleptOn == Spec => []NoWorkSleptOn
<1>1. IInv => NoWorkSleptOn
  <2> SUFFICES ASSUME IInv, NEW w \in Workers, At(w, "asleep"), NEW k \in Slots, HasWork(k)
               PROVE  mu # Nobody /\ job[k].region = Mine(mu)
    BY DEF NoWorkSleptOn
  <2>1. w \in Threads /\ w \in alive /\ Top(w).place = "asleep" BY DEF At, Threads
  <2>2. Depth(w) = 1 BY <2>1, TopTells
  <2>3. stack[w][1].place = "asleep" BY <2>1, <2>2 DEF Top
  <2>4. Watchful(stack[w][1], seen[w]) BY <2>1 DEF IInv, NothingOverlooked
  <2> QED BY <2>3, <2>4 DEF Watchful, Overlooked, Filling
<1> QED BY <1>1, PoolInvariant, PTL
-----------------------------------------------------------------------------
(* To a caller the pool is a loop.  For this the invariant must also say   *)
(* which items of a region have begun, and where a helper may be.          *)

InItem == {"chunk", "serial"}

\* What a region's frame says of its items, where started says which began.
BegunBy(begunItems, jobs, f) ==
  f.n > 0 =>
    /\ f.place \in Unpublished \cup {"post"} => begunItems = {}
    /\ f.place \in Unpublished => f.item = 0
    /\ f.place = "inline" => begunItems = Numbers(f.item)
    /\ f.place = "serial" => begunItems = Numbers(f.item + 1)
    /\ f.place \in Owned => jobs[f.slot].n = f.n
    /\ f.place \in Owned \ {"post"} =>
         begunItems = {i \in Numbers(f.n) : i < jobs[f.slot].next}
    /\ f.place \in {"drained", "settle", "barrier"} => jobs[f.slot].next >= f.n

ItemsBegun ==
  \A t \in Threads : t \in alive => \A d \in 1..Depth(t) :
    BegunBy(started[<<t, d>>], job, stack[t][d])

\* A helper is inside an open region of another thread, in the same process:
\* a thread that fork() has left behind does not run items of one it kept.
Elsewhere(w, r) ==
  r # NoRegion => r \in Regions /\ r[1] # w /\ Within(r) /\ (r[1] \in alive => w \in alive)
HelpersElsewhere == \A w \in Workers : Elsewhere(w, stack[w][1].region)

RInv == ItemsBegun /\ HelpersElsewhere

Todo(r) == IF Within(r) THEN Numbers(stack[r[1]][r[2]].n) \ started[r] ELSE {}
KeepsPromise(r) == [Promise(r)!Next]_(Promise(r)!vars)
Runs(t, d, r) == stack[t][d].region = r /\ stack[t][d].place \in InItem

\* A region is a thread and a depth.
LEMMA RegionNames ==
  ASSUME NEW r \in Regions
  PROVE  r[1] \in Threads /\ r[2] \in 1..MaxDepth /\ r = <<r[1], r[2]>> /\ r[2] \in Nat \ {0}
<1>1. MaxDepth \in Nat BY PoolAssumption
<1>2. CASE r \in Submitters \X (1..MaxDepth)
  BY <1>1, <1>2 DEF Threads
<1>3. CASE r \in Workers \X (2..MaxDepth)
  BY <1>1, <1>3 DEF Threads
<1> QED BY <1>2, <1>3 DEF Regions

\* The steps of a loop, from what they do to the items that are run.
LEMMA KeepsStill ==
  ASSUME NEW r \in Regions, Within(r)' = Within(r), Todo(r)' = Todo(r),
         \A u \in Threads : Running(u, r)' = Running(u, r)
  PROVE  KeepsPromise(r)
<1>1. Doing(r)' = Doing(r) BY DEF Doing
<1> QED BY <1>1 DEF KeepsPromise, Promise!vars, Todo

LEMMA KeepsStart ==
  ASSUME NEW r \in Regions, NEW t \in Threads, Within(r), Within(r)', Running(t, r) = {},
         NEW i \in Todo(r), Todo(r)' = Todo(r) \ {i}, Running(t, r)' = {i},
         \A u \in Threads : u # t => Running(u, r)' = Running(u, r)
  PROVE  KeepsPromise(r)
<1>1. {i} \in (SUBSET Todo(r)) \ {{}} OBVIOUS
<1>2. Doing(r)[t] = {} /\ Doing(r)' = [Doing(r) EXCEPT ![t] = {i}] BY DEF Doing
<1>3. Promise(r)!Start(t) BY <1>1, <1>2 DEF Promise!Start, Todo
<1> QED BY <1>3 DEF KeepsPromise, Promise!Next

LEMMA KeepsFinish ==
  ASSUME NEW r \in Regions, NEW t \in Threads, Within(r)' = Within(r), Running(t, r) # {},
         Todo(r)' = Todo(r), Running(t, r)' = {},
         \A u \in Threads : u # t => Running(u, r)' = Running(u, r)
  PROVE  KeepsPromise(r)
<1>1. Doing(r)[t] # {} /\ Doing(r)' = [Doing(r) EXCEPT ![t] = {}] BY DEF Doing
<1>2. Promise(r)!Finish(t) BY <1>1 DEF Promise!Finish, Todo
<1> QED BY <1>2 DEF KeepsPromise, Promise!Next

LEMMA KeepsReturn ==
  ASSUME NEW r \in Regions, Within(r), ~Within(r)', Todo(r) = {},
         \A u \in Threads : Running(u, r) = {} /\ Running(u, r)' = {}
  PROVE  KeepsPromise(r)
<1>1. Doing(r) = [u \in Threads |-> {}] /\ Doing(r)' = Doing(r) BY DEF Doing
<1>2. Todo(r)' = Todo(r) BY DEF Todo
<1>3. Promise(r)!Return BY <1>1, <1>2 DEF Promise!Return, Promise!NobodyRuns, Todo
<1> QED BY <1>3 DEF KeepsPromise, Promise!Next

LEMMA KeepsBegin ==
  ASSUME NEW r \in Regions, ~Within(r), Within(r)', NEW n \in Sizes, Todo(r)' = Numbers(n),
         \A u \in Threads : Running(u, r) = {} /\ Running(u, r)' = {}
  PROVE  KeepsPromise(r)
<1>1. Doing(r) = [u \in Threads |-> {}] /\ Doing(r)' = Doing(r) BY DEF Doing
<1>2. 0 \in Numbers(n) BY PoolAssumption DEF Numbers
<1>3. Todo(r)' \in (SUBSET UNION {Numbers(m) : m \in Sizes}) \ {{}} BY <1>2
<1>4. Promise(r)!Begin BY <1>1, <1>3 DEF Promise!Begin, Promise!NobodyRuns, Todo
<1> QED BY <1>4 DEF KeepsPromise, Promise!Next

\* A job hands out what it has, and no more than counts up after that.
HandedOut(k) ==
  /\ job'[k].n = job[k].n
  /\ job'[k].next = job[k].next
     \/ (job[k].next >= job[k].n /\ job'[k].next >= job[k].next)
\* So do the jobs whose regions are open, but for one frame's.
OthersHandOut(t) ==
  \A u \in Threads : \A d \in 1..Depth(u) : \A k \in Slots :
    Holds(u, d, k) /\ ~(u = t /\ d = Depth(t)) => HandedOut(k)

\* What a frame says of its items stays true of it, woken or not, when items
\* are handed out only of regions that have none left.
LEMMA BegunStays ==
  ASSUME NEW items, NEW f \in Frames, NEW g, Becomes(f, g), BegunBy(items, job, f),
         \A k \in Slots : {job[k].n, job[k].next, job'[k].next} \subseteq Nat,
         f.n > 0 /\ f.place \in Owned => HandedOut(f.slot)
  PROVE  BegunBy(items, job', f) /\ BegunBy(items, job', g)
<1>1. f.slot \in Slots /\ f.n \in Nat BY DEF Frames
<1>2. BegunBy(items, job', f)
  <2> DEFINE k == f.slot
  <2>1. {job[k].n, job[k].next, job'[k].next} \subseteq Nat BY <1>1
  <2>2. CASE ~(f.n > 0 /\ f.place \in Owned)
    BY <2>2 DEF BegunBy, Owned
  <2>3. CASE f.n > 0 /\ f.place \in Owned /\ job'[k].next = job[k].next
    BY <2>1, <2>3 DEF BegunBy, HandedOut
  <2>4. CASE f.n > 0 /\ f.place \in Owned
             /\ job[k].next >= job[k].n /\ job'[k].next >= job[k].next
    <3>0. job'[k].n = job[k].n BY <2>4 DEF HandedOut
    <3>1. ASSUME f.place \in Owned \ {"post"}
          PROVE  items = {i \in Numbers(f.n) : i < job'[k].next}
      <4>1. items = {i \in Numbers(f.n) : i < job[k].next} /\ job[k].n = f.n
        BY <2>4, <3>1 DEF BegunBy
      <4>2. \A i \in Numbers(f.n) : i < job[k].next /\ i < job'[k].next
        BY <1>1, <2>1, <2>4, <4>1 DEF Numbers
      <4> HIDE DEF k
      <4> QED BY <4>1, <4>2
    <3>2. ASSUME f.place \in {"drained", "settle", "barrier"}
          PROVE  job'[k].next >= f.n
      <4>1. job[k].n = f.n BY <2>4 DEF BegunBy
      <4> QED BY <1>1, <2>1, <2>4, <4>1
    <3> QED BY <2>4, <3>0, <3>1, <3>2 DEF BegunBy
  <2> QED BY <2>2, <2>3, <2>4 DEF HandedOut
<1>3. BegunBy(items, job', g)
  BY <1>2 DEF Becomes, BegunBy, Unpublished, Owned
<1> QED BY <1>2, <1>3

\* What the frames say stays true when the top frame of a thread is set, if it
\* is true of what that leaves.
LEMMA RInvMoves ==
  ASSUME IInv, RInv, IInv', NEW t \in Threads, t \in alive, NEW f \in Frames, TopSet(t, f),
         alive' = alive, f.n = Top(t).n,
         \A u \in Threads : u \in alive => \A d \in 1..Depth(u) :
           BegunBy(started'[<<u, d>>], job', IF u = t /\ d = Depth(t) THEN f ELSE stack[u][d]),
         t \in Workers /\ Depth(t) = 1 => Elsewhere(t, f.region)
  PROVE  /\ RInv'
         /\ \A r \in Regions : /\ Within(r)' = Within(r)
                               /\ started'[r] = started[r] => Todo(r)' = Todo(r)
                               /\ Within(r) => stack'[r[1]][r[2]].n = stack[r[1]][r[2]].n
<1>1. \A u \in Threads : Depth(u)' = Depth(u) /\ Depth(u) = Len(stack[u]) BY DEF TopSet, Depth
<1>3. ASSUME NEW u \in Threads, u \in alive, NEW d \in 1..Depth(u)
      PROVE  BegunBy(started'[<<u, d>>], job', stack'[u][d])
  <2> DEFINE g == IF u = t /\ d = Depth(t) THEN f ELSE stack[u][d]
  <2>1. Becomes(g, stack'[u][d]) BY <1>1 DEF TopSet
  <2>2. BegunBy(started'[<<u, d>>], job', g) BY <1>3
  <2> HIDE DEF g
  <2> QED BY <2>1, <2>2 DEF Becomes, BegunBy, Unpublished, Owned
<1>4. ItemsBegun' BY <1>1, <1>3 DEF ItemsBegun
<1>5. ASSUME NEW u \in Threads, NEW d \in 1..Depth(u) PROVE stack'[u][d].n = stack[u][d].n
  <2>1. Becomes(IF u = t /\ d = Depth(t) THEN f ELSE stack[u][d], stack'[u][d])
    BY <1>1 DEF TopSet
  <2> QED BY <2>1 DEF Becomes, Top
<1>6. ASSUME NEW r \in Regions
      PROVE  /\ Within(r)' = Within(r)
             /\ started'[r] = started[r] => Todo(r)' = Todo(r)
             /\ Within(r) => stack'[r[1]][r[2]].n = stack[r[1]][r[2]].n
  <2>1. r[1] \in Threads /\ r[2] \in Nat \ {0} BY RegionNames
  <2>2. Depth(r[1])' = Depth(r[1]) /\ Depth(r[1]) \in Nat BY <1>1, <2>1, StacksAreSequences DEF IInv
  <2>3. r[2] <= Depth(r[1]) => stack'[r[1]][r[2]].n = stack[r[1]][r[2]].n BY <1>5, <2>1, <2>2
  <2>4. Within(r)' = Within(r) BY <2>2, <2>3 DEF Within
  <2> QED BY <2>3, <2>4 DEF Todo, Within
<1>7. HelpersElsewhere'
  <2>1. \A r \in Regions : Within(r) <=> r[2] <= Len(stack'[r[1]]) /\ stack'[r[1]][r[2]].n > 0
    BY <1>6 DEF Within, Depth
  <2>2. ASSUME NEW w \in Workers, NEW r, r = stack'[w][1].region PROVE Elsewhere(w, r)
    <3>1. Becomes(IF w = t /\ Depth(t) = 1 THEN f ELSE stack[w][1], stack'[w][1])
      BY FirstAfter
    <3> QED BY <2>2, <3>1 DEF RInv, HelpersElsewhere, Becomes
  <2>3. ASSUME NEW w \in Workers, NEW r, r = stack'[w][1].region, r # NoRegion
        PROVE  /\ r \in Regions /\ r[1] # w /\ (r[1] \in alive => w \in alive)
               /\ r[2] <= Len(stack'[r[1]]) /\ stack'[r[1]][r[2]].n > 0
    BY <2>1, <2>2, <2>3 DEF Elsewhere
  <2> QED BY <2>3 DEF HelpersElsewhere, Elsewhere, Within, Depth
<1> QED BY <1>4, <1>6, <1>7 DEF RInv

\* So it does when no item is begun, and the frame is one of which it is true.
LEMMA RInvStays ==
  ASSUME IInv, RInv, IInv', NEW t \in Threads, t \in alive, NEW f \in Frames, TopSet(t, f),
         alive' = alive, started' = started, f.n = Top(t).n,
         OthersHandOut(t),
         BegunBy(started[Mine(t)], job', f),
         t \in Workers /\ Depth(t) = 1 => Elsewhere(t, f.region)
  PROVE  RInv' /\ \A r \in Regions : Within(r)' = Within(r) /\ Todo(r)' = Todo(r)
<1>2. \A k \in Slots : {job[k].n, job[k].next, job'[k].next} \subseteq Nat
  BY DEF IInv, TypeOK
<1>3. ASSUME NEW u \in Threads, u \in alive, NEW d \in 1..Depth(u)
      PROVE  BegunBy(started[<<u, d>>], job', IF u = t /\ d = Depth(t) THEN f ELSE stack[u][d])
  <2>1. CASE u = t /\ d = Depth(t)
    BY <2>1 DEF Mine
  <2>2. CASE ~(u = t /\ d = Depth(t))
    <3>1. BegunBy(started[<<u, d>>], job, stack[u][d]) BY <1>3 DEF RInv, ItemsBegun
    <3>2. stack[u][d] \in Frames /\ Becomes(stack[u][d], stack[u][d])
      BY StacksAreSequences DEF IInv, Becomes
    <3>3. stack[u][d].n > 0 /\ stack[u][d].place \in Owned => HandedOut(stack[u][d].slot)
      BY <1>3, <2>2, <3>2 DEF OthersHandOut, Holds, Frames
    <3>4. BegunBy(started[<<u, d>>], job', stack[u][d])
      BY <1>2, <3>1, <3>2, <3>3, BegunStays
    <3> QED BY <2>2, <3>4
  <2> QED BY <2>1, <2>2
<1> QED BY <1>3, RInvMoves

\* A thread runs what it ran if its top frame still says so.
LEMMA RunningStays ==
  ASSUME IInv, NEW t \in Threads, NEW f, TopSet(t, f), NEW u \in Threads, NEW r,
         u = t => /\ (f.place \in InItem /\ f.region = r)
                       <=> (Top(t).place \in InItem /\ Top(t).region = r)
                  /\ f.place \in InItem /\ f.region = r => f.item = Top(t).item
  PROVE  Running(u, r)' = Running(u, r)
<1>1. Depth(u)' = Depth(u) /\ Depth(u) = Len(stack[u]) BY DEF TopSet, Depth
<1>2. ASSUME NEW d \in 1..Depth(u)
      PROVE  /\ Runs(u, d, r)' <=> Runs(u, d, r)
             /\ Runs(u, d, r) => stack'[u][d].item = stack[u][d].item
  <2>1. Becomes(IF u = t /\ d = Depth(t) THEN f ELSE stack[u][d], stack'[u][d])
    BY <1>1 DEF TopSet, Depth
  <2>2. CASE u = t /\ d = Depth(t)
    <3>1. Becomes(f, stack'[u][d]) /\ stack[u][d] = Top(t) BY <2>1, <2>2 DEF Top
    <3> QED BY <2>2, <3>1 DEF Becomes, Runs, InItem
  <2>3. CASE ~(u = t /\ d = Depth(t))
    <3>1. Becomes(stack[u][d], stack'[u][d]) BY <2>1, <2>3
    <3> QED BY <3>1 DEF Becomes, Runs, InItem
  <2> QED BY <2>2, <2>3
<1>3. Running(u, r) = {stack[u][d].item : d \in {e \in 1..Depth(u) : Runs(u, e, r)}}
  BY DEF Running, Runs, InItem
<1>4. Running(u, r)' = {stack'[u][d].item : d \in {e \in 1..Depth(u)' : Runs(u, e, r)'}}
  BY DEF Running, Runs, InItem
<1> DEFINE runs == {e \in 1..Depth(u) : Runs(u, e, r)}
           runs2 == {e \in 1..Depth(u)' : Runs(u, e, r)'}
<1>5. runs2 = runs BY <1>1, <1>2
<1>6. \A d \in runs : stack'[u][d].item = stack[u][d].item BY <1>2
<1> HIDE DEF runs, runs2
<1>7. Running(u, r) = {stack[u][d].item : d \in runs} BY <1>3 DEF runs
<1>8. Running(u, r)' = {stack'[u][d].item : d \in runs2} BY <1>4 DEF runs2
<1> QED BY <1>5, <1>6, <1>7, <1>8

\* What a step does: the frames go on telling which items have begun, and every
\* region does what a loop may do.
LoopsKept == RInv' /\ \A r \in Regions : KeepsPromise(r)

\* A calm step moves no thread into an item or out of one.
LEMMA CalmStep ==
  ASSUME IInv, RInv, IInv', NEW t \in Threads, t \in alive, NEW f \in Frames, TopSet(t, f),
         alive' = alive, started' = started, f.n = Top(t).n,
         OthersHandOut(t),
         BegunBy(started[Mine(t)], job', f),
         t \in Workers /\ Depth(t) = 1 => Elsewhere(t, f.region),
         f.place \notin InItem, Top(t).place \notin InItem
  PROVE  LoopsKept
<1>1. RInv' /\ \A r \in Regions : Within(r)' = Within(r) /\ Todo(r)' = Todo(r) BY RInvStays
<1>2. ASSUME NEW r \in Regions PROVE KeepsPromise(r)
  <2>1. \A u \in Threads : Running(u, r)' = Running(u, r) BY RunningStays
  <2> QED BY <1>1, <2>1, KeepsStill
<1> QED BY <1>1, <1>2 DEF LoopsKept
-----------------------------------------------------------------------------
(* The calm steps.                                                         *)

\* Of a region's own thread, when the jobs stay as they are.
LEMMA CalmRegion ==
  ASSUME IInv, RInv, IInv', NEW t \in Threads, t \in alive, Top(t).n > 0,
         NEW f \in Frames, f.n = Top(t).n, stack' = With(t, f),
         alive' = alive, started' = started, job' = job,
         BegunBy(started[Mine(t)], job, Top(t)) => BegunBy(started[Mine(t)], job, f),
         f.place \notin InItem, Top(t).place \notin InItem
  PROVE  LoopsKept
<1>1. /\ ~(t \in Workers /\ Depth(t) = 1) /\ Depth(t) \in Nat \ {0}
      /\ Depth(t) \in 1..Depth(t) /\ Top(t) = stack[t][Depth(t)]
  BY TopTells, TopIsAFrame DEF IInv
<1>2. TopSet(t, f) BY <1>1, TopIsSet DEF IInv
<1>3. OthersHandOut(t) BY DEF OthersHandOut, HandedOut
<1>4. BegunBy(started[Mine(t)], job, Top(t)) BY <1>1 DEF RInv, ItemsBegun, Mine
<1> QED BY <1>1, <1>2, <1>3, <1>4, CalmStep

\* Of a worker in its loop, or in the region it helps.
LEMMA CalmHelper ==
  ASSUME IInv, RInv, IInv', NEW t \in Threads, t \in alive, Top(t).n = 0, Top(t).place # "idle",
         NEW f \in Frames, f.n = 0, TopSet(t, f), alive' = alive, started' = started,
         OthersHandOut(t), Elsewhere(t, f.region),
         f.place \notin InItem, Top(t).place \notin InItem
  PROVE  LoopsKept
<1>1. BegunBy(started[Mine(t)], job', f) BY DEF BegunBy
<1> QED BY <1>1, CalmStep

\* That stays where it was, or leaves.
LEMMA CalmLoop ==
  ASSUME IInv, RInv, IInv', NEW t \in Threads, t \in alive, Top(t).n = 0, Top(t).place # "idle",
         NEW f \in Frames, f.n = 0, TopSet(t, f), alive' = alive, started' = started,
         \A k \in Slots : HandedOut(k), f.region \in {NoRegion, Top(t).region},
         f.place \notin InItem, Top(t).place \notin InItem
  PROVE  LoopsKept
<1>1. t \in Workers /\ Top(t) = stack[t][1] BY HelperOnTop
<1>2. Elsewhere(t, Top(t).region) BY <1>1 DEF RInv, HelpersElsewhere
<1>3. Elsewhere(t, f.region) BY <1>2 DEF Elsewhere
<1>4. OthersHandOut(t) BY DEF OthersHandOut
<1> QED BY <1>3, <1>4, CalmHelper

\* A region that runs inline has begun none of its items.
LEMMA NoneBegun ==
  ASSUME NEW items, NEW f, NEW g, g.n = f.n, g.item = f.item, f.place \in Unpublished,
         g.place \in {"inline", "publish"}, BegunBy(items, job, f)
  PROVE  BegunBy(items, job, g)
<1>1. Numbers(0) = {} BY DEF Numbers
<1>2. g.n > 0 => items = {} /\ g.item = 0 BY DEF BegunBy
<1>3. g.place \notin Owned \cup {"serial"} BY DEF Owned
<1>4. items = {} /\ g.item = 0 => items = Numbers(g.item) BY <1>1, Zenon
<1> QED BY <1>2, <1>3, <1>4 DEF BegunBy, Owned

LEMMA CallKeepsLoops ==
  ASSUME IInv, RInv, NEW t \in Threads, Call(t)
  PROVE  LoopsKept
<1>1. t \in alive /\ Top(t).place = "call" BY DEF Call, At
<1>2. Top(t).n > 0 /\ Mine(t) \in Regions /\ Top(t) \in Frames
  BY <1>1, TopTells, TopIsAFrame DEF IInv, Unpublished
<1> DEFINE f == IF Serial(t) THEN [Top(t) EXCEPT !.place = "inline", !.region = Mine(t)]
                ELSE [Top(t) EXCEPT !.place = "publish"]
<1>3. stack' = With(t, f) /\ alive' = alive /\ started' = started /\ job' = job
  BY DEF Call, RunInline, pool
<1>4. f \in Frames /\ f.n = Top(t).n /\ f.place \in {"inline", "publish"} /\ f.item = Top(t).item
  BY <1>2 DEF Frames, Places
<1> HIDE DEF f
<1>5. BegunBy(started[Mine(t)], job, Top(t)) => BegunBy(started[Mine(t)], job, f)
  BY <1>1, <1>4, NoneBegun DEF Unpublished
<1>6. f.place \notin InItem /\ Top(t).place \notin InItem BY <1>1, <1>4 DEF InItem
<1> QED BY <1>1, <1>2, <1>3, <1>4, <1>5, <1>6, CallIsSafe, CalmRegion

LEMMA NoSlotKeepsLoops ==
  ASSUME IInv, RInv, NEW t \in Threads, NoSlot(t)
  PROVE  LoopsKept
<1>1. t \in alive /\ Top(t).place = "publish" BY DEF NoSlot, At
<1>2. Top(t).n > 0 /\ Mine(t) \in Regions /\ Top(t) \in Frames
  BY <1>1, TopTells, TopIsAFrame DEF IInv, Unpublished
<1> DEFINE f == [Top(t) EXCEPT !.place = "inline", !.region = Mine(t)]
<1>3. stack' = With(t, f) /\ alive' = alive /\ started' = started /\ job' = job
  BY DEF NoSlot, RunInline, pool
<1>4. f \in Frames /\ f.n = Top(t).n /\ f.place = "inline" /\ f.item = Top(t).item
  BY <1>2 DEF Frames, Places
<1> HIDE DEF f
<1>5. BegunBy(started[Mine(t)], job, Top(t)) => BegunBy(started[Mine(t)], job, f)
  BY <1>1, <1>4, NoneBegun DEF Unpublished
<1>6. f.place \notin InItem /\ Top(t).place \notin InItem BY <1>1, <1>4 DEF InItem
<1> QED BY <1>1, <1>2, <1>3, <1>4, <1>5, <1>6, NoSlotIsSafe, CalmRegion

\* A submitter that goes from one place to another, its items all handed out.
LEMMA CalmWait ==
  ASSUME IInv, RInv, IInv', NEW t \in Threads, t \in alive,
         Top(t).place \in {"drained", "settle", "barrier"},
         NEW place \in {"settle", "barrier"}, Goto(t, place),
         alive' = alive, started' = started, job' = job
  PROVE  LoopsKept
<1>1. Top(t).n > 0 /\ Top(t) \in Frames BY TopTells, TopIsAFrame DEF IInv
<1> DEFINE f == [Top(t) EXCEPT !.place = place]
<1>2. stack' = With(t, f) BY DEF Goto
<1>3. f \in Frames /\ f.n = Top(t).n /\ f.place = place /\ f.slot = Top(t).slot
  BY <1>1 DEF Frames, Places
<1> HIDE DEF f
<1>4. BegunBy(started[Mine(t)], job, Top(t)) => BegunBy(started[Mine(t)], job, f)
  BY <1>3 DEF BegunBy, Unpublished, Owned
<1>5. f.place \notin InItem /\ Top(t).place \notin InItem BY <1>3 DEF InItem
<1> QED BY <1>1, <1>2, <1>3, <1>4, <1>5, CalmRegion

LEMMA AnnounceKeepsLoops ==
  ASSUME IInv, RInv, NEW t \in Threads, Announce(t)
  PROVE  LoopsKept
BY AnnounceIsSafe, CalmWait DEF Announce, At

LEMMA AwaitHelpersKeepsLoops ==
  ASSUME IInv, RInv, NEW t \in Threads, AwaitHelpers(t)
  PROVE  LoopsKept
BY AwaitHelpersIsSafe, CalmWait DEF AwaitHelpers, At, pool

\* A worker that goes on to a place of its loop, or looks at the next slot.
LEMMA CalmGoto ==
  ASSUME IInv, RInv, IInv', NEW w \in Threads, w \in alive, Top(w).n = 0,
         Top(w).place \notin InItem \cup {"idle"},
         NEW place \in HelperPlaces \ InItem, Goto(w, place),
         alive' = alive, started' = started, job' = job
  PROVE  LoopsKept
<1>1. Top(w) \in Frames /\ Depth(w) \in Nat \ {0} BY TopIsAFrame DEF IInv
<1> DEFINE f == [Top(w) EXCEPT !.place = place]
<1>2. f \in Frames /\ f.n = 0 /\ f.region = Top(w).region /\ f.place = place
  BY <1>1 DEF Frames, Places, HelperPlaces
<1>3. stack' = With(w, f) BY DEF Goto
<1> HIDE DEF f
<1>4. TopSet(w, f) BY <1>1, <1>2, <1>3, TopIsSet DEF IInv
<1>5. \A k \in Slots : HandedOut(k) BY DEF HandedOut
<1> QED BY <1>2, <1>4, <1>5, CalmLoop

LEMMA SearchKeepsLoops ==
  ASSUME IInv, RInv, NEW w \in Workers,
         Look(w) \/ PickNothing(w) \/ SpinWin(w) \/ Park(w) \/ Peek(w)
  PROVE  LoopsKept
<1>1. /\ w \in Threads /\ w \in alive /\ alive' = alive /\ started' = started /\ job' = job
      /\ Top(w).place \in {"top", "pick", "spin", "woken", "peek"}
  BY DEF Look, PickNothing, SpinWin, Park, Peek, At, Threads, pool
<1>2. \E place \in {"scan", "pick", "spin", "top", "asleep", "notify"} : Goto(w, place)
  BY DEF Look, PickNothing, SpinWin, Park, Peek
<1>3. PICK place \in HelperPlaces \ InItem : Goto(w, place) BY <1>2 DEF HelperPlaces, InItem
<1>4. Top(w).n = 0 /\ Top(w).place \notin InItem \cup {"idle"} BY <1>1, TopTells DEF InItem
<1>5. IInv' BY LookIsSafe, PickNothingIsSafe, SpinWinIsSafe, ParkIsSafe, PeekIsSafe
<1> QED BY <1>1, <1>3, <1>4, <1>5, CalmGoto

LEMMA SpuriousWakeupKeepsLoops ==
  ASSUME IInv, RInv, NEW t \in Threads, SpuriousWakeup(t)
  PROVE  LoopsKept
<1>1. IInv' /\ t \in alive /\ alive' = alive /\ started' = started /\ job' = job
  BY SpuriousWakeupIsSafe DEF SpuriousWakeup, At, pool
<1>2. CASE Top(t).place = "asleep" /\ Goto(t, "woken")
  <2>1. Top(t).n = 0 /\ Top(t).place \notin InItem \cup {"idle"} BY <1>2, TopTells DEF InItem
  <2>2. "woken" \in HelperPlaces \ InItem BY DEF HelperPlaces, InItem
  <2> QED BY <1>1, <1>2, <2>1, <2>2, CalmGoto
<1>3. CASE Top(t).place = "barrier" /\ Goto(t, "settle")
  BY <1>1, <1>3, CalmWait
<1> QED BY <1>2, <1>3 DEF SpuriousWakeup, At

LEMMA ScanKeepsLoops ==
  ASSUME IInv, RInv, NEW w \in Workers, Scan(w)
  PROVE  LoopsKept
<1>1. w \in alive /\ Top(w).place = "scan" /\ w \in Threads BY DEF Scan, At, Threads
<1>2. Top(w).n = 0 BY <1>1, TopTells
<1>3. HelperFrame(Top(w)) /\ Top(w) \in Frames /\ Depth(w) \in Nat \ {0}
  BY <1>1, <1>2, HelperOnTop, TopIsAFrame DEF IInv
<1> DEFINE k == Top(w).item
           f == IF HasWork(k) THEN Frame("pick")
                ELSE IF k + 1 < MaxJobs THEN [Top(w) EXCEPT !.item = k + 1] ELSE Frame("spin")
<1>4. stack' = With(w, f) /\ alive' = alive /\ started' = started /\ job' = job
  BY DEF Scan, pool
<1>5. k \in Nat BY <1>3 DEF Frames
<1>6. f \in Frames /\ f.n = 0 /\ f.region \in {NoRegion, Top(w).region} /\ f.place \notin InItem
  <2>1. ASSUME NEW place \in {"pick", "spin"}
        PROVE  Frame(place) \in Frames /\ Frame(place).n = 0 /\ Frame(place).region = NoRegion
               /\ Frame(place).place = place
    BY FreshFrames DEF Frame, Places
  <2> DEFINE g == [Top(w) EXCEPT !.item = k + 1]
  <2>2. g \in Frames /\ g.n = 0 /\ g.region = Top(w).region /\ g.place = "scan"
    <3>1. k + 1 \in Nat BY <1>5
    <3> HIDE DEF k
    <3> QED BY <1>1, <1>2, <1>3, <3>1 DEF Frames
  <2>3. f = Frame("pick") \/ f = g \/ f = Frame("spin") OBVIOUS
  <2> HIDE DEF f, g
  <2> QED BY <2>1, <2>2, <2>3 DEF InItem
<1> HIDE DEF f
<1>7. TopSet(w, f) BY <1>1, <1>3, <1>4, <1>6, TopIsSet DEF IInv
<1>8. \A j \in Slots : HandedOut(j) BY <1>4 DEF HandedOut
<1>9. Top(w).place \notin InItem /\ Top(w).place # "idle" BY <1>1 DEF InItem
<1> QED BY <1>1, <1>2, <1>4, <1>6, <1>7, <1>8, <1>9, ScanIsSafe, CalmLoop

LEMMA NotifyKeepsLoops ==
  ASSUME IInv, RInv, NEW w \in Workers, Notify(w)
  PROVE  LoopsKept
<1>1. w \in alive /\ Top(w).place = "notify" /\ w \in Threads BY DEF Notify, At, Threads
<1>2. Top(w).n = 0 /\ Depth(w) \in Nat \ {0} BY <1>1, TopTells, TopIsAFrame DEF IInv
<1> DEFINE f == Frame("top")
<1>3. f \in Frames /\ f.place = "top" /\ f.n = 0 /\ f.region = NoRegion
  BY FreshFrames DEF Frame, Places
<1>4. stack' = Wake(With(w, f), "barrier", "settle") BY DEF Notify
<1> HIDE DEF f
<1>5. TopSet(w, f) BY <1>1, <1>2, <1>3, <1>4, TopIsSetWaking DEF IInv
<1>6. alive' = alive /\ started' = started /\ job' = job BY DEF Notify, pool
<1>7. \A j \in Slots : HandedOut(j) BY <1>6 DEF HandedOut
<1>8. f.place \notin InItem /\ Top(w).place \notin InItem BY <1>1, <1>3 DEF InItem
<1> QED BY <1>1, <1>2, <1>3, <1>5, <1>6, <1>7, <1>8, NotifyIsSafe, CalmLoop

\* Whoever leaves a region has no item, and takes none.
LEMMA LeaveKeepsLoops ==
  ASSUME IInv, RInv, NEW w \in Workers, Leave(w) \/ LeaveFast(w)
  PROVE  LoopsKept
<1> DEFINE k == Top(w).slot
<1>1. w \in alive /\ Top(w).place = "leave" /\ w \in Threads
  BY DEF Leave, LeaveFast, At, Threads
<1>2. Top(w).n = 0 /\ Depth(w) \in Nat \ {0} BY <1>1, TopTells, TopIsAFrame DEF IInv
<1>3. /\ job' = [job EXCEPT ![k].refs = @ - 1] /\ alive' = alive /\ started' = started
      /\ IInv'
  BY LeaveIsSafe, LeaveFastIsSafe DEF Leave, LeaveFast
<1>4. \E f \in {Frame("top"), Frame("peek")} :
        stack' = With(w, f) \/ stack' = Wake(With(w, f), "barrier", "settle")
  BY DEF Leave, LeaveFast
<1>5. PICK f \in {Frame("top"), Frame("peek")} :
        stack' = With(w, f) \/ stack' = Wake(With(w, f), "barrier", "settle")
  BY <1>4
<1>6. f \in Frames /\ f.n = 0 /\ f.region = NoRegion /\ f.place \notin InItem
  <2>1. ASSUME NEW place \in {"top", "peek"}
        PROVE  Frame(place) \in Frames /\ Frame(place).n = 0 /\ Frame(place).region = NoRegion
               /\ Frame(place).place = place
    BY FreshFrames DEF Frame, Places
  <2> QED BY <1>5, <2>1 DEF InItem
<1>7. TopSet(w, f) BY <1>1, <1>2, <1>5, <1>6, TopIsSet, TopIsSetWaking DEF IInv
<1>8. \A j \in Slots : HandedOut(j)
  <2>1. job \in [Slots -> [live : BOOLEAN, n : Nat, next : Nat, refs : Nat, cap : Nat,
                           low : BOOLEAN, region : Regions \cup {NoRegion}]]
    BY DEF IInv, TypeOK
  <2> HIDE DEF k
  <2> QED BY <1>3, <2>1 DEF HandedOut
<1>9. Top(w).place \notin InItem BY <1>1 DEF InItem
<1> QED BY <1>1, <1>2, <1>3, <1>6, <1>7, <1>8, <1>9, CalmLoop

\* An open slot's region is one that its holder is within, and of this process.
LEMMA OpenIsWithin ==
  ASSUME IInv, NEW k \in Slots, job[k].live, NEW r, r = job[k].region
  PROVE  /\ r \in Regions /\ r[1] \in alive /\ r[1] \in Threads /\ r[2] \in 1..Depth(r[1])
         /\ Within(r) /\ Holds(r[1], r[2], k)
<1>1. PICK t \in Threads : \E d \in 1..Depth(t) : Holds(t, d, k) BY DEF IInv, OneHolder
<1>2. PICK d \in 1..Depth(t) : Holds(t, d, k) BY <1>1
<1>3. r = <<t, d>> BY <1>2 DEF IInv, OneHolder
<1>4. r \in Regions BY OpenIsHeld DEF IInv, TypeOK
<1>5. Depth(t) \in Nat BY TopIsAFrame DEF IInv
<1>6. r[1] = t /\ r[2] = d BY <1>3
<1>7. Within(r) BY <1>2, <1>5, <1>6 DEF Within, Holds
<1> QED BY <1>2, <1>4, <1>6, <1>7 DEF Holds

\* A worker joins a region of another thread: in its own it would not be looking.
LEMMA PickKeepsLoops ==
  ASSUME IInv, RInv, NEW w \in Workers, Pick(w)
  PROVE  LoopsKept
<1> DEFINE k == Best
           f == [Frame("fetch") EXCEPT !.slot = k, !.region = job[k].region]
<1>0. w \in Threads BY DEF Threads
<1>1. w \in alive /\ Top(w).place = "pick" /\ Candidates # {} BY DEF Pick, At
<1>2. Top(w).n = 0 BY <1>0, <1>1, TopTells
<1>3. Top(w) = stack[w][1] /\ Depth(w) = 1 BY <1>0, <1>1, <1>2, HelperOnTop
<1>4. k \in Slots /\ job[k].live BY <1>1, BestIsACandidate DEF IInv, HasWork
<1>5. /\ stack' = With(w, f) /\ job' = [job EXCEPT ![k].refs = @ + 1]
      /\ alive' = alive /\ started' = started
  BY DEF Pick
<1> HIDE DEF k
<1>6. job[k].region \in Regions BY <1>4, OpenIsWithin
<1>7. f \in Frames /\ f.place = "fetch" /\ f.n = 0 /\ f.region = job[k].region
  <2>1. Frame("fetch") \in Frames BY FreshFrames DEF Places
  <2>2. Frame("fetch").place = "fetch" /\ Frame("fetch").n = 0 BY DEF Frame
  <2> QED BY <1>4, <1>6, <2>1, <2>2 DEF Frames
<1> HIDE DEF f
<1>8. TopSet(w, f) BY <1>0, <1>3, <1>5, <1>7, TopIsSet DEF IInv
<1>9. \A j \in Slots : HandedOut(j)
  <2>1. job \in [Slots -> [live : BOOLEAN, n : Nat, next : Nat, refs : Nat, cap : Nat,
                           low : BOOLEAN, region : Regions \cup {NoRegion}]]
    BY DEF IInv, TypeOK
  <2> QED BY <1>5, <2>1 DEF HandedOut
<1>10. Elsewhere(w, f.region)
  <2> DEFINE r == job[k].region
  <2>1. /\ r \in Regions /\ r[1] \in alive /\ r[2] \in 1..Depth(r[1])
        /\ Within(r) /\ Holds(r[1], r[2], k)
    BY <1>4, OpenIsWithin
  <2> HIDE DEF r
  <2>2. ASSUME r[1] = w PROVE FALSE
    <3>1. r[2] = 1 BY <1>3, <2>1, <2>2
    <3> QED BY <1>2, <1>3, <2>1, <2>2, <3>1 DEF Holds
  <2>3. f.region = r BY <1>7 DEF r
  <2> QED BY <1>1, <2>1, <2>2, <2>3 DEF Elsewhere
<1>11. OthersHandOut(w) BY <1>9 DEF OthersHandOut
<1>12. f.place \notin InItem /\ Top(w).place \notin InItem /\ Top(w).place # "idle"
  BY <1>1, <1>7 DEF InItem
<1> QED BY <1>0, <1>1, <1>2, <1>5, <1>7, <1>8, <1>10, <1>11, <1>12, PickIsSafe, CalmHelper

\* A slot that is being filled was nobody's.
LEMMA FillKeepsLoops ==
  ASSUME IInv, RInv, NEW t \in Threads, Fill(t)
  PROVE  LoopsKept
<1> DEFINE k == Least(FreeSlots)
           n == Top(t).n
           helpers == (IF n < Width THEN n ELSE Width) - 1
           cap == IF helpers > 0 THEN helpers ELSE 1
           f == [Top(t) EXCEPT !.place = "post", !.slot = k, !.region = Mine(t)]
<1>1. t \in alive /\ Top(t).place = "publish" /\ FreeSlots # {} /\ alive' = alive
      /\ started' = started
  BY DEF Fill, At
<1>2. /\ n > 0 /\ Mine(t) \in Regions /\ Top(t) \in Frames /\ n \in Nat
      /\ Depth(t) \in Nat \ {0} /\ ~(t \in Workers /\ Depth(t) = 1)
      /\ Depth(t) \in 1..Depth(t) /\ Top(t) = stack[t][Depth(t)]
  BY <1>1, TopTells, TopIsAFrame DEF IInv, Unpublished, Frames
<1>3. k \in Slots /\ ~job[k].live BY <1>1, LeastIsFree DEF FreeSlots
<1>4. stack' = With(t, f) BY DEF Fill
<1>5. PICK low \in mode.lows :
        job' = [job EXCEPT ![k] = [@ EXCEPT !.live = TRUE, !.n = n, !.refs = 0, !.low = low,
                                          !.cap = cap, !.region = Mine(t)]]
  BY DEF Fill
<1> HIDE DEF k, n, cap
<1>6. f \in Frames /\ f.n = n /\ f.place = "post" /\ f.slot = k
  BY <1>2, <1>3 DEF Frames, Places, n
<1> HIDE DEF f
<1>7. TopSet(t, f) BY <1>2, <1>4, <1>6, TopIsSet DEF IInv
<1>8. (\A j \in Slots : j # k => job'[j] = job[j]) /\ job'[k].n = n
  <2>1. job \in [Slots -> [live : BOOLEAN, n : Nat, next : Nat, refs : Nat, cap : Nat,
                           low : BOOLEAN, region : Regions \cup {NoRegion}]]
    BY DEF IInv, TypeOK
  <2> QED BY <1>3, <1>5, <2>1
<1>9. OthersHandOut(t)
  <2>1. ASSUME NEW u \in Threads, NEW d \in 1..Depth(u), NEW j \in Slots, Holds(u, d, j)
        PROVE  HandedOut(j)
    <3>1. job[j].live BY <2>1 DEF IInv, OneHolder
    <3> QED BY <1>3, <1>8, <3>1 DEF HandedOut
  <2> QED BY <2>1 DEF OthersHandOut
<1>10. BegunBy(started[Mine(t)], job', f)
  <2>1. BegunBy(started[Mine(t)], job, Top(t)) BY <1>1, <1>2 DEF RInv, ItemsBegun, Mine
  <2>2. started[Mine(t)] = {} BY <1>1, <1>2, <2>1 DEF BegunBy, Unpublished, n
  <2> QED BY <1>6, <1>8, <2>2 DEF BegunBy, Unpublished, Owned
<1>11. f.place \notin InItem /\ Top(t).place \notin InItem BY <1>1, <1>6 DEF InItem
<1>12. f.n = Top(t).n BY <1>6 DEF n
<1> QED BY <1>1, <1>2, <1>6, <1>7, <1>9, <1>10, <1>11, <1>12, FillIsSafe, CalmStep

\* The next item of a slot is reset before anybody takes one.
LEMMA PostKeepsLoops ==
  ASSUME IInv, RInv, NEW t \in Threads, Post(t)
  PROVE  LoopsKept
<1> DEFINE k == Top(t).slot
           f == [Top(t) EXCEPT !.place = "fetch"]
<1>1. t \in alive /\ Top(t).place = "post" /\ alive' = alive /\ started' = started
      /\ job' = [job EXCEPT ![k].next = 0]
  BY DEF Post, At
<1>2. /\ Top(t).n > 0 /\ Top(t) \in Frames /\ Top(t).n \in Nat /\ k \in Slots
      /\ Depth(t) \in Nat \ {0} /\ ~(t \in Workers /\ Depth(t) = 1)
      /\ Depth(t) \in 1..Depth(t) /\ Top(t) = stack[t][Depth(t)]
  BY <1>1, TopTells, TopIsAFrame DEF IInv, Frames
<1>3. stack' = Wake(With(t, f), "asleep", "woken") BY DEF Post
<1>4. f \in Frames /\ f.n = Top(t).n /\ f.place = "fetch" /\ f.slot = k
  BY <1>2 DEF Frames, Places
<1> HIDE DEF f, k
<1>5. TopSet(t, f) BY <1>2, <1>3, <1>4, TopIsSetWaking DEF IInv
<1>6. (\A j \in Slots : j # k => job'[j] = job[j]) /\ job'[k].n = job[k].n /\ job'[k].next = 0
  <2>1. job \in [Slots -> [live : BOOLEAN, n : Nat, next : Nat, refs : Nat, cap : Nat,
                           low : BOOLEAN, region : Regions \cup {NoRegion}]]
    BY DEF IInv, TypeOK
  <2> QED BY <1>1, <1>2, <2>1
<1>7. OthersHandOut(t)
  <2>1. Holds(t, Depth(t), k) BY <1>1, <1>2 DEF Holds, Owned, k
  <2>2. ASSUME NEW u \in Threads, NEW d \in 1..Depth(u), NEW j \in Slots, Holds(u, d, j),
               ~(u = t /\ d = Depth(t))
        PROVE  HandedOut(j)
    <3>1. j # k BY <1>2, <2>1, <2>2, OneHolders
    <3> QED BY <1>6, <3>1 DEF HandedOut
  <2> QED BY <2>2 DEF OthersHandOut
<1>8. BegunBy(started[Mine(t)], job', f)
  <2>1. BegunBy(started[Mine(t)], job, Top(t)) BY <1>1, <1>2 DEF RInv, ItemsBegun, Mine
  <2>2. started[Mine(t)] = {} /\ job[k].n = Top(t).n
    BY <1>1, <1>2, <2>1 DEF BegunBy, Owned, k
  <2>3. {i \in Numbers(f.n) : i < 0} = {} BY <1>2, <1>4 DEF Numbers
  <2>4. started[Mine(t)] = {i \in Numbers(f.n) : i < job'[f.slot].next}
    BY <1>4, <1>6, <2>2, <2>3
  <2> QED BY <1>4, <1>6, <2>2, <2>4 DEF BegunBy, Unpublished, Owned
<1>9. f.place \notin InItem /\ Top(t).place \notin InItem BY <1>1, <1>4 DEF InItem
<1> QED BY <1>1, <1>2, <1>4, <1>5, <1>7, <1>8, <1>9, PostIsSafe, CalmStep
-----------------------------------------------------------------------------
(* Taking items, and finishing them.                                       *)

\* What taking the next number of a slot does to the stacks and the jobs.
Taken(t) == job[Top(t).slot].next
Fetched(t, f) ==
  /\ f \in Frames /\ f.n = Top(t).n /\ f.region = Top(t).region /\ f.slot = Top(t).slot
  /\ f.item = Taken(t) /\ TopSet(t, f)
  /\ f.place = IF Taken(t) < job[Top(t).slot].n THEN "chunk"
               ELSE IF Top(t).n > 0 THEN "drained" ELSE "leave"
LEMMA FetchFetches ==
  ASSUME IInv, NEW t \in Threads, Fetch(t)
  PROVE  /\ \E f : Fetched(t, f)
         /\ t \in alive /\ Top(t).place = "fetch" /\ Top(t) \in Frames /\ Top(t).slot \in Slots
         /\ alive' = alive /\ IInv'
         /\ Taken(t) \in Nat /\ job[Top(t).slot].n \in Nat
         /\ \A j \in Slots :
              /\ job'[j].n = job[j].n
              /\ job'[j].next = IF j = Top(t).slot THEN Taken(t) + 1 ELSE job[j].next
              /\ {job[j].n, job[j].next, job'[j].next} \subseteq Nat
<1> DEFINE k == Top(t).slot
           some == job[k].next < job[k].n
           f == [Top(t) EXCEPT !.item = job[k].next,
                               !.place = IF some THEN "chunk"
                                         ELSE IF Top(t).n > 0 THEN "drained" ELSE "leave"]
<1>1. t \in alive /\ Top(t).place = "fetch" /\ alive' = alive BY DEF Fetch, At
<1>2. Top(t) \in Frames /\ k \in Slots /\ Depth(t) \in Nat \ {0}
  BY TopIsAFrame DEF IInv, Frames
<1>3. stack' = With(t, f) /\ job' = [job EXCEPT ![k].next = @ + 1] BY DEF Fetch
<1>4. /\ job \in [Slots -> [live : BOOLEAN, n : Nat, next : Nat, refs : Nat, cap : Nat,
                            low : BOOLEAN, region : Regions \cup {NoRegion}]]
      /\ job[k].next \in Nat /\ job[k].n \in Nat
  BY <1>2 DEF IInv, TypeOK
<1>5. /\ f \in Frames /\ f.n = Top(t).n /\ f.region = Top(t).region /\ f.slot = Top(t).slot
      /\ f.place = (IF some THEN "chunk" ELSE IF Top(t).n > 0 THEN "drained" ELSE "leave")
      /\ f.item = job[k].next
  BY <1>2, <1>4 DEF Frames, Places
<1> HIDE DEF f
<1>6. TopSet(t, f) BY <1>2, <1>3, <1>5, TopIsSet DEF IInv
<1>7. \A j \in Slots :
        /\ job'[j].n = job[j].n
        /\ job'[j].next = IF j = k THEN job[j].next + 1 ELSE job[j].next
        /\ {job[j].n, job[j].next, job'[j].next} \subseteq Nat
  BY <1>2, <1>3, <1>4
<1>8. Fetched(t, f) BY <1>5, <1>6 DEF Fetched, Taken
<1> QED BY <1>1, <1>2, <1>4, <1>7, <1>8, FetchIsSafe DEF Taken

LEMMA FetchNoneKeepsLoops ==
  ASSUME IInv, RInv, NEW t \in Threads, Fetch(t), ~(Taken(t) < job[Top(t).slot].n)
  PROVE  LoopsKept
<1> DEFINE k == Top(t).slot
<1>1. /\ t \in alive /\ Top(t).place = "fetch" /\ Top(t) \in Frames /\ k \in Slots
      /\ alive' = alive /\ IInv'
      /\ Taken(t) \in Nat /\ job[k].n \in Nat
      /\ \A j \in Slots :
           /\ job'[j].n = job[j].n
           /\ job'[j].next = IF j = k THEN Taken(t) + 1 ELSE job[j].next
           /\ {job[j].n, job[j].next, job'[j].next} \subseteq Nat
  BY FetchFetches
<1>2. PICK f : Fetched(t, f) BY FetchFetches
<1>3. started' = started BY DEF Fetch, Taken
<1>4. \A j \in Slots : HandedOut(j)
  BY <1>1 DEF HandedOut, Taken
<1>5. f \in Frames /\ TopSet(t, f) /\ f.n = Top(t).n /\ f.region = Top(t).region
      /\ f.slot = k /\ f.place = IF Top(t).n > 0 THEN "drained" ELSE "leave"
  BY <1>2 DEF Fetched
<1>6. f.place \notin InItem /\ Top(t).place \notin InItem /\ Top(t).place # "idle"
  BY <1>1, <1>5 DEF InItem
<1>7. CASE Top(t).n = 0
  BY <1>1, <1>3, <1>4, <1>5, <1>6, <1>7, CalmLoop
<1>8. CASE Top(t).n > 0
  <2>1. /\ ~(t \in Workers /\ Depth(t) = 1)
        /\ Depth(t) \in 1..Depth(t) /\ Top(t) = stack[t][Depth(t)]
    BY <1>8, TopTells, TopIsAFrame DEF IInv
  <2>2. BegunBy(started[Mine(t)], job, Top(t)) BY <1>1, <2>1 DEF RInv, ItemsBegun, Mine
  <2>3. BegunBy(started[Mine(t)], job', Top(t))
    <3>1. Becomes(Top(t), Top(t)) BY DEF Becomes
    <3> QED BY <1>1, <1>4, <2>2, <3>1, BegunStays
  <2>4. job'[k].next >= f.n
    <3>1. job'[k].n = Top(t).n BY <1>1, <1>8, <2>3 DEF BegunBy, Owned
    <3> QED BY <1>1, <1>5, <3>1
  <2>5. BegunBy(started[Mine(t)], job', f)
    BY <1>1, <1>5, <1>8, <2>3, <2>4 DEF BegunBy, Owned, Unpublished
  <2>6. OthersHandOut(t) BY <1>4 DEF OthersHandOut
  <2> QED BY <1>1, <1>3, <1>5, <1>6, <2>1, <2>5, <2>6, CalmStep
<1> QED BY <1>1, <1>7, <1>8 DEF Frames

\* A frame with items is that of the region its thread has begun at its depth.
LEMMA FrameNames ==
  ASSUME IInv, NEW t \in Threads, NEW d \in 1..Depth(t), stack[t][d].n > 0
  PROVE  /\ ~(t \in Workers /\ d = 1) /\ <<t, d>> \in Regions
         /\ RegionFrame(t, d, stack[t][d])
<1>1. Depth(t) \in 1..MaxDepth /\ Fit(t, d, Depth(t), stack[t][d]) /\ MaxDepth \in Nat
  BY PoolAssumption DEF IInv, StacksFit
<1>2. ~(t \in Workers /\ d = 1) BY <1>1 DEF Fit, HelperFrame
<1>3. RegionFrame(t, d, stack[t][d]) BY <1>1, <1>2 DEF Fit
<1>4. d \in 1..MaxDepth /\ (d # 1 => d \in 2..MaxDepth) BY <1>1
<1>5. <<t, d>> \in Regions
  <2>1. CASE d = 1
    <3>1. t \in Submitters BY <1>2, <2>1 DEF Threads
    <3> QED BY <1>4, <3>1, Names
  <2>2. CASE d # 1
    BY <1>4, <2>2, Names
  <2> QED BY <2>1, <2>2
<1> QED BY <1>2, <1>3, <1>5

\* Who runs an item of a region: its own frame, or a helper of another thread.
LEMMA RunsWhere ==
  ASSUME IInv, RInv, NEW t \in Threads, NEW d \in 1..Depth(t), NEW r, Runs(t, d, r)
  PROVE  \/ /\ t \in Workers /\ d = 1 /\ r = stack[t][1].region /\ r # NoRegion
            /\ Elsewhere(t, r)
         \/ /\ ~(t \in Workers /\ d = 1) /\ r = <<t, d>> /\ stack[t][d].n > 0
<1>1. Fit(t, d, Depth(t), stack[t][d]) BY DEF IInv, StacksFit
<1>2. stack[t][d].place \in InItem /\ r = stack[t][d].region BY DEF Runs
<1>3. CASE t \in Workers /\ d = 1
  <2>1. HelperFrame(stack[t][1]) BY <1>1, <1>3 DEF Fit
  <2>2. r # NoRegion
    BY <1>2, <1>3, <2>1 DEF HelperFrame, InItem, Joined, HelperPlaces
  <2> QED BY <1>2, <1>3, <2>2 DEF RInv, HelpersElsewhere
<1>4. CASE ~(t \in Workers /\ d = 1)
  <2>1. RegionFrame(t, d, stack[t][d]) BY <1>1, <1>2, <1>4 DEF Fit, InItem
  <2> QED BY <1>2, <1>4, <2>1 DEF RegionFrame, InItem, Unpublished
<1> QED BY <1>3, <1>4

\* A thread is in a region once: what it runs of its top frame's region, it
\* runs there.
LEMMA TopAlone ==
  ASSUME IInv, RInv, NEW t \in Threads, NEW r \in Regions, Top(t).region = r,
         NEW d \in 1..Depth(t), Runs(t, d, r)
  PROVE  d = Depth(t)
<1>1. /\ Depth(t) \in Nat \ {0} /\ Fit(t, Depth(t), Depth(t), Top(t))
  BY TopIsAFrame DEF IInv
<1>2. r # NoRegion BY RegionNames DEF NoRegion
<1>3. CASE Depth(t) = 1
  BY <1>3
<1>4. CASE Depth(t) # 1
  <2>1. RegionFrame(t, Depth(t), Top(t)) BY <1>1, <1>4 DEF Fit
  <2>2. r = <<t, Depth(t)>> BY <1>2, <2>1 DEF RegionFrame
  <2>3. r[1] = t /\ r[2] = Depth(t) BY <2>2
  <2>4. CASE Elsewhere(t, r)
    BY <1>2, <2>3, <2>4 DEF Elsewhere
  <2>5. CASE r = <<t, d>>
    BY <2>2, <2>5
  <2> QED BY <2>4, <2>5, RunsWhere
<1> QED BY <1>3, <1>4

\* What a thread runs of a region of which only its top frame may run items.
LEMMA RunningTop ==
  ASSUME IInv, NEW t \in Threads, NEW f, TopSet(t, f), NEW r,
         \A d \in 1..Depth(t) : Runs(t, d, r) => d = Depth(t)
  PROVE  /\ Running(t, r) = IF Top(t).place \in InItem /\ Top(t).region = r
                            THEN {Top(t).item} ELSE {}
         /\ Running(t, r)' = IF f.place \in InItem /\ f.region = r THEN {f.item} ELSE {}
<1> DEFINE D == Depth(t)
<1>1. D \in 1..D /\ Top(t) = stack[t][D] /\ Depth(t)' = D /\ D = Len(stack[t])
  BY TopIsAFrame DEF IInv, TopSet, Depth
<1>2. ASSUME NEW d \in 1..D PROVE Runs(t, d, r)' <=> d = D /\ f.place \in InItem /\ f.region = r
  <2>1. Becomes(IF d = D THEN f ELSE stack[t][d], stack'[t][d]) BY <1>1 DEF TopSet
  <2>2. CASE d = D
    BY <2>1, <2>2 DEF Becomes, Runs, InItem
  <2>3. CASE d # D
    <3>1. Becomes(stack[t][d], stack'[t][d]) BY <2>1, <2>3
    <3>2. ~Runs(t, d, r) BY <2>3
    <3> QED BY <2>3, <3>1, <3>2 DEF Becomes, Runs, InItem
  <2> QED BY <2>2, <2>3
<1>3. stack'[t][D].item = f.item
  <2>1. Becomes(f, stack'[t][D]) BY <1>1 DEF TopSet
  <2> QED BY <2>1 DEF Becomes
<1>4. Running(t, r) = {stack[t][d].item : d \in {e \in 1..D : Runs(t, e, r)}}
  BY DEF Running, Runs, InItem
<1>5. Running(t, r)' = {stack'[t][d].item : d \in {e \in 1..Depth(t)' : Runs(t, e, r)'}}
  BY DEF Running, Runs, InItem
<1> DEFINE runs == {e \in 1..D : Runs(t, e, r)}
           runs2 == {e \in 1..Depth(t)' : Runs(t, e, r)'}
<1>6. runs = IF Top(t).place \in InItem /\ Top(t).region = r THEN {D} ELSE {}
  BY <1>1 DEF Runs
<1>7. runs2 = IF f.place \in InItem /\ f.region = r THEN {D} ELSE {}
  BY <1>1, <1>2
<1> HIDE DEF runs, runs2, D
<1>8. Running(t, r) = {stack[t][d].item : d \in runs} BY <1>4 DEF runs
<1>9. Running(t, r)' = {stack'[t][d].item : d \in runs2} BY <1>5 DEF runs2
<1>10. Running(t, r) = IF Top(t).place \in InItem /\ Top(t).region = r
                       THEN {Top(t).item} ELSE {}
  BY <1>1, <1>6, <1>8
<1>11. Running(t, r)' = IF f.place \in InItem /\ f.region = r THEN {f.item} ELSE {}
  BY <1>3, <1>7, <1>9
<1> QED BY <1>10, <1>11

\* A thread that finishes its item.
LEMMA FinishStep ==
  ASSUME IInv, RInv, IInv', NEW t \in Threads, t \in alive, NEW f \in Frames,
         f.n = Top(t).n, f.region = Top(t).region, stack' = With(t, f),
         alive' = alive, started' = started, job' = job,
         BegunBy(started[Mine(t)], job, Top(t)) => BegunBy(started[Mine(t)], job, f),
         f.place \notin InItem, Top(t).place \in InItem
  PROVE  LoopsKept
<1>1. /\ Depth(t) \in Nat \ {0} /\ Depth(t) \in 1..Depth(t) /\ Top(t) = stack[t][Depth(t)]
      /\ Top(t) \in Frames
  BY TopIsAFrame DEF IInv
<1>2. TopSet(t, f) BY <1>1, TopIsSet DEF IInv
<1>3. OthersHandOut(t) BY DEF OthersHandOut, HandedOut
<1>4. BegunBy(started[Mine(t)], job, Top(t)) BY <1>1 DEF RInv, ItemsBegun, Mine
<1>5. Top(t).region \in Regions
  <2>1. Runs(t, Depth(t), Top(t).region) BY <1>1 DEF Runs
  <2>2. Top(t).region # NoRegion BY <1>1, <2>1, RunsWhere, Names
  <2> QED BY <1>1, <2>2 DEF Frames
<1>6. PICK r \in Regions : r = Top(t).region BY <1>5
<1>7. t \in Workers /\ Depth(t) = 1 => Elsewhere(t, f.region)
  BY <1>1 DEF RInv, HelpersElsewhere
<1>8. RInv' /\ \A q \in Regions : Within(q)' = Within(q) /\ Todo(q)' = Todo(q)
  BY <1>2, <1>3, <1>4, <1>7, RInvStays
<1>9. KeepsPromise(r)
  <2>1. \A d \in 1..Depth(t) : Runs(t, d, r) => d = Depth(t) BY <1>6, TopAlone
  <2>2. Running(t, r) # {} /\ Running(t, r)' = {} BY <1>2, <1>6, <2>1, RunningTop
  <2>3. \A u \in Threads : u # t => Running(u, r)' = Running(u, r) BY <1>2, RunningStays
  <2> QED BY <1>6, <1>8, <2>2, <2>3, KeepsFinish
<1>10. ASSUME NEW q \in Regions, q # r PROVE KeepsPromise(q)
  <2>1. \A u \in Threads : Running(u, q)' = Running(u, q) BY <1>2, <1>6, <1>10, RunningStays
  <2> QED BY <1>8, <2>1, KeepsStill
<1> QED BY <1>8, <1>9, <1>10 DEF LoopsKept

LEMMA FinishKeepsLoops ==
  ASSUME IInv, RInv, NEW t \in Threads, Finish(t)
  PROVE  LoopsKept
<1>1. t \in alive /\ Top(t).place = "chunk" /\ alive' = alive /\ started' = started /\ job' = job
  BY DEF Finish, At, pool
<1>2. Top(t) \in Frames BY TopIsAFrame DEF IInv
<1> DEFINE f == [Top(t) EXCEPT !.place = "fetch", !.item = 0]
<1>3. stack' = With(t, f) BY DEF Finish
<1>4. f \in Frames /\ f.n = Top(t).n /\ f.region = Top(t).region /\ f.place = "fetch"
      /\ f.slot = Top(t).slot
  BY <1>2 DEF Frames, Places
<1> HIDE DEF f
<1>5. BegunBy(started[Mine(t)], job, Top(t)) => BegunBy(started[Mine(t)], job, f)
  BY <1>1, <1>4 DEF BegunBy, Unpublished, Owned
<1>6. f.place \notin InItem /\ Top(t).place \in InItem BY <1>1, <1>4 DEF InItem
<1> QED BY <1>1, <1>2, <1>3, <1>4, <1>5, <1>6, FinishIsSafe, FinishStep

LEMMA FinishInlineKeepsLoops ==
  ASSUME IInv, RInv, NEW t \in Threads, FinishInline(t)
  PROVE  LoopsKept
<1>1. t \in alive /\ Top(t).place = "serial" /\ alive' = alive /\ started' = started /\ job' = job
  BY DEF FinishInline, At, pool
<1>2. Top(t) \in Frames /\ Top(t).item \in Nat BY TopIsAFrame DEF IInv, Frames
<1> DEFINE f == [Top(t) EXCEPT !.place = "inline", !.item = @ + 1]
<1>3. stack' = With(t, f) BY DEF FinishInline
<1>4. f \in Frames /\ f.n = Top(t).n /\ f.region = Top(t).region /\ f.place = "inline"
      /\ f.item = Top(t).item + 1
  <2>1. Top(t).item + 1 \in Nat BY <1>2
  <2>2. [Top(t) EXCEPT !.place = "inline"] \in Frames BY <1>2 DEF Frames, Places
  <2>3. f = [[Top(t) EXCEPT !.place = "inline"] EXCEPT !.item = Top(t).item + 1]
    BY <1>2 DEF Frames
  <2> QED BY <1>2, <2>1, <2>2, <2>3 DEF Frames
<1> HIDE DEF f
<1>5. BegunBy(started[Mine(t)], job, Top(t)) => BegunBy(started[Mine(t)], job, f)
  <2>1. f.place \notin Unpublished \cup Owned /\ f.place # "serial"
    BY <1>4 DEF Unpublished, Owned
  <2> QED BY <1>1, <1>4, <2>1 DEF BegunBy, Owned
<1>6. f.place \notin InItem /\ Top(t).place \in InItem BY <1>1, <1>4 DEF InItem
<1> QED BY <1>1, <1>2, <1>3, <1>4, <1>5, <1>6, FinishInlineIsSafe, FinishStep

\* A thread that starts an item of a region that it is at the top in.
LEMMA StartStep ==
  ASSUME IInv, RInv, RInv', NEW t \in Threads, NEW f, TopSet(t, f), NEW r \in Regions,
         Top(t).region = r, f.region = r, f.place \in InItem, Top(t).place \notin InItem,
         Within(r), f.item \in Todo(r), Todo(r)' = Todo(r) \ {f.item},
         \A q \in Regions : Within(q)' = Within(q),
         \A q \in Regions : q # r => Todo(q)' = Todo(q)
  PROVE  LoopsKept
<1>1. KeepsPromise(r)
  <2>1. \A d \in 1..Depth(t) : Runs(t, d, r) => d = Depth(t) BY TopAlone
  <2>2. Running(t, r) = {} /\ Running(t, r)' = {f.item} BY <2>1, RunningTop
  <2>3. \A u \in Threads : u # t => Running(u, r)' = Running(u, r) BY RunningStays
  <2>4. Within(r)' OBVIOUS
  <2> QED BY <2>2, <2>3, <2>4, KeepsStart
<1>2. ASSUME NEW q \in Regions, q # r PROVE KeepsPromise(q)
  <2>1. \A u \in Threads : Running(u, q)' = Running(u, q) BY <1>2, RunningStays
  <2>2. Within(q)' = Within(q) /\ Todo(q)' = Todo(q) BY <1>2
  <2> QED BY <2>1, <2>2, KeepsStill
<1> QED BY <1>1, <1>2 DEF LoopsKept

\* What an open region has begun, and what it has left, once it is posted.
LEMMA OpenHasBegun ==
  ASSUME IInv, RInv, NEW k \in Slots, job[k].live, NEW r, r = job[k].region,
         stack[r[1]][r[2]].place # "post"
  PROVE  LET o == stack[r[1]][r[2]]
         IN  /\ o \in Frames /\ o.n > 0 /\ o.slot = k /\ o.place \in Owned
             /\ job[k].n = o.n
             /\ started[r] = {i \in Numbers(o.n) : i < job[k].next}
             /\ o.place \in {"drained", "settle", "barrier"} => job[k].next >= o.n
<1> DEFINE o == stack[r[1]][r[2]]
<1>1. /\ r \in Regions /\ r[1] \in alive /\ r[1] \in Threads /\ r[2] \in 1..Depth(r[1])
      /\ Holds(r[1], r[2], k) /\ r = <<r[1], r[2]>>
  BY OpenIsWithin, RegionNames
<1>2. o \in Frames BY <1>1, StacksAreSequences DEF IInv
<1>3. o.n > 0 /\ o.slot = k /\ o.place \in Owned \ {"post"} BY <1>1 DEF Holds
<1>4. BegunBy(started[r], job, o)
  <2>1. BegunBy(started[<<r[1], r[2]>>], job, o) BY <1>1 DEF RInv, ItemsBegun
  <2> QED BY <1>1, <2>1
<1> HIDE DEF o
<1>5. /\ job[k].n = o.n /\ started[r] = {i \in Numbers(o.n) : i < job[k].next}
      /\ o.place \in {"drained", "settle", "barrier"} => job[k].next >= o.n
  BY <1>3, <1>4 DEF BegunBy, Owned
<1> QED BY <1>2, <1>3, <1>5 DEF o

\* Whoever takes items of a slot is in the region that has it, which is posted.
LEMMA FetchesFrom ==
  ASSUME IInv, NEW t \in Threads, t \in alive, Top(t).place = "fetch",
         NEW k, k = Top(t).slot, NEW r, r = Top(t).region
  PROVE  /\ k \in Slots /\ job[k].live /\ job[k].region = r
         /\ stack[r[1]][r[2]].place # "post"
<1>1. /\ Top(t) \in Frames /\ k \in Slots /\ Depth(t) \in 1..Depth(t)
      /\ Top(t) = stack[t][Depth(t)] /\ Top(t).n \in Nat
  BY TopIsAFrame DEF IInv, Frames
<1>2. CASE Top(t).n > 0
  <2>1. Holds(t, Depth(t), k) BY <1>1, <1>2 DEF Holds, Owned
  <2>2. job[k].live /\ job[k].region = <<t, Depth(t)>> BY <1>1, <2>1 DEF IInv, OneHolder
  <2>3. RegionFrame(t, Depth(t), Top(t)) BY <1>2, TopTells
  <2>4. r = <<t, Depth(t)>> BY <2>3 DEF RegionFrame, Unpublished
  <2>5. stack[r[1]][r[2]] = Top(t) BY <1>1, <2>4
  <2> QED BY <1>1, <2>2, <2>4, <2>5
<1>3. CASE Top(t).n = 0
  <2>1. /\ t \in Workers /\ Top(t) = stack[t][1] /\ HelperFrame(Top(t)) BY <1>3, HelperOnTop
  <2>2. t \in Helpers(k) BY <2>1 DEF Helpers, Helping, HelperFrame, Joined
  <2>3. job[k].live /\ job[k].region = r BY <1>1, <2>1, <2>2 DEF IInv, HelpersAreInside
  <2>4. job[k].refs # 0 BY <1>1, <2>2, HelpersAreWorkers
  <2>5. r[1] \in Threads /\ r[2] \in 1..Depth(r[1]) /\ Holds(r[1], r[2], k)
    BY <1>1, <2>3, OpenIsWithin
  <2>6. ASSUME stack[r[1]][r[2]].place = "post" PROVE FALSE
    <3>1. Fit(r[1], r[2], Depth(r[1]), stack[r[1]][r[2]]) /\ Depth(r[1]) \in Nat
      BY <2>5, TopIsAFrame DEF IInv, StacksFit
    <3>2. r[2] = Depth(r[1]) BY <2>5, <2>6, <3>1 DEF Fit
    <3>3. Top(r[1]) = stack[r[1]][r[2]] BY <3>2 DEF Top
    <3>4. mu = r[1] /\ mu # Nobody
      BY <2>5, <2>6, <3>3, Names DEF IInv, MutexIsPosting, At, Holds
    <3>5. job[Top(mu).slot].refs = 0 BY <3>4 DEF IInv, MutexIsPosting
    <3>6. Top(mu).slot = k BY <2>5, <3>3, <3>4 DEF Holds
    <3> QED BY <2>4, <3>5, <3>6
  <2> QED BY <1>1, <2>3, <2>6
<1>4. Top(t).n > 0 \/ Top(t).n = 0
  <2> DEFINE n == Top(t).n
  <2>1. n \in Nat BY <1>1
  <2> HIDE DEF n
  <2>2. n > 0 \/ n = 0 BY <2>1
  <2> QED BY <2>2 DEF n
<1> QED BY <1>2, <1>3, <1>4, Zenon

\* The numbers below a count, and one more.
LEMMA OneMore ==
  ASSUME NEW n \in Nat, NEW i \in Nat
  PROVE  /\ i < n => i \in Numbers(n)
         /\ i < n => {j \in Numbers(n) : j < i} \cup {i} = {j \in Numbers(n) : j < i + 1}
         /\ Numbers(i) \cup {i} = Numbers(i + 1) /\ i \notin Numbers(i)
BY DEF Numbers

LEMMA FetchSomeKeepsLoops ==
  ASSUME IInv, RInv, NEW t \in Threads, Fetch(t), Taken(t) < job[Top(t).slot].n
  PROVE  LoopsKept
<1>1. /\ t \in alive /\ Top(t).place = "fetch" /\ Top(t) \in Frames /\ Top(t).slot \in Slots
      /\ alive' = alive /\ IInv'
      /\ Taken(t) \in Nat /\ job[Top(t).slot].n \in Nat
      /\ \A j \in Slots :
           /\ job'[j].n = job[j].n
           /\ job'[j].next = IF j = Top(t).slot THEN Taken(t) + 1 ELSE job[j].next
           /\ {job[j].n, job[j].next, job'[j].next} \subseteq Nat
  BY FetchFetches
<1>2. PICK f : Fetched(t, f) BY FetchFetches
<1>3. PICK k \in Slots : k = Top(t).slot BY <1>1
<1>4. PICK i \in Nat : i = Taken(t) /\ i = job[k].next BY <1>1, <1>3 DEF Taken
<1>5. job[k].live /\ job[k].region = Top(t).region BY <1>1, <1>3, FetchesFrom
<1>6. PICK r \in Regions : r = Top(t).region /\ r = job[k].region BY <1>5, OpenIsWithin
<1>7. f \in Frames /\ TopSet(t, f) /\ f.n = Top(t).n /\ f.region = r /\ f.slot = k
      /\ f.place = "chunk" /\ f.item = i
  BY <1>2, <1>3, <1>4, <1>6 DEF Fetched
<1>8. stack[r[1]][r[2]].place # "post"
  <2>1. r = Top(t).region /\ k = Top(t).slot BY <1>3, <1>6
  <2> QED BY <1>1, <2>1, FetchesFrom, Zenon
<1>9. PICK o \in Frames :
        /\ o = stack[r[1]][r[2]] /\ o.n > 0 /\ o.slot = k /\ o.place \in {"fetch", "chunk"}
        /\ job[k].n = o.n /\ i < o.n /\ o.n \in Nat
        /\ started[r] = {j \in Numbers(o.n) : j < i}
  <2> DEFINE o == stack[r[1]][r[2]]
  <2>1. /\ o \in Frames /\ o.n > 0 /\ o.slot = k /\ o.place \in Owned /\ job[k].n = o.n
        /\ started[r] = {j \in Numbers(o.n) : j < i}
        /\ o.place \in {"drained", "settle", "barrier"} => i >= o.n
    BY <1>4, <1>5, <1>6, <1>8, OpenHasBegun
  <2>2. i < o.n /\ o.n \in Nat BY <1>3, <1>4, <2>1 DEF Frames
  <2>3. o.place # "post" BY <1>8
  <2> HIDE DEF o
  <2>4. o.place \notin {"drained", "settle", "barrier"} BY <2>1, <2>2
  <2>5. o.place \in {"fetch", "chunk"} BY <2>1, <2>3, <2>4 DEF Owned
  <2> QED BY <2>1, <2>2, <2>5 DEF o
<1>10. started' = [started EXCEPT ![r] = @ \cup {i}]
  BY <1>3, <1>4, <1>6 DEF Fetch, Taken
<1>11. started'[r] = started[r] \cup {i} /\ \A q \in Regions : q # r => started'[q] = started[q]
  BY <1>10 DEF IInv, TypeOK
<1>12. started'[r] = {j \in Numbers(o.n) : j < i + 1} BY <1>9, <1>11, OneMore
<1>13. r[1] \in Threads /\ r[2] \in 1..Depth(r[1]) /\ Holds(r[1], r[2], k) /\ Within(r)
       /\ r = <<r[1], r[2]>>
  BY <1>5, <1>6, OpenIsWithin, RegionNames
<1>14. ASSUME NEW u \in Threads, u \in alive, NEW d \in 1..Depth(u)
       PROVE  BegunBy(started'[<<u, d>>], job', IF u = t /\ d = Depth(t) THEN f ELSE stack[u][d])
  <2>1. CASE <<u, d>> = r
    <3> DEFINE g == IF u = t /\ d = Depth(t) THEN f ELSE stack[u][d]
    <3>1. stack[u][d] = o BY <1>9, <2>1
    <3>2. u = t /\ d = Depth(t) => Top(t) = o BY <3>1 DEF Top
    <3>3. g.n = o.n /\ g.slot = k /\ g.place \in {"fetch", "chunk"}
      BY <1>7, <1>9, <3>1, <3>2
    <3>4. job'[k].n = o.n /\ job'[k].next = i + 1 BY <1>1, <1>3, <1>4, <1>9
    <3>5. started'[<<u, d>>] = {j \in Numbers(g.n) : j < job'[g.slot].next}
      BY <1>12, <2>1, <3>3, <3>4
    <3> HIDE DEF g
    <3>6. BegunBy(started'[<<u, d>>], job', g)
      BY <3>3, <3>4, <3>5 DEF BegunBy, Unpublished, Owned
    <3> QED BY <3>6 DEF g
  <2>2. CASE <<u, d>> # r /\ u = t /\ d = Depth(t)
    <3>1. f.n = 0
      <4>1. SUFFICES ASSUME Top(t).n > 0 PROVE FALSE BY <1>1, <1>7 DEF Frames
      <4>2. RegionFrame(t, Depth(t), Top(t)) BY <4>1, TopTells
      <4> QED BY <1>1, <1>6, <2>2, <4>2 DEF RegionFrame, Unpublished
    <3> QED BY <2>2, <3>1 DEF BegunBy
  <2>3. CASE <<u, d>> # r /\ ~(u = t /\ d = Depth(t))
    <3>1. stack[u][d] \in Frames /\ Becomes(stack[u][d], stack[u][d])
      BY StacksAreSequences DEF IInv, Becomes
    <3>2. CASE stack[u][d].n > 0
      <4>1. <<u, d>> \in Regions BY <3>2, FrameNames
      <4>2. started'[<<u, d>>] = started[<<u, d>>] BY <1>11, <2>3, <4>1
      <4>3. BegunBy(started[<<u, d>>], job, stack[u][d]) BY <1>14 DEF RInv, ItemsBegun
      <4>4. ASSUME stack[u][d].place \in Owned PROVE HandedOut(stack[u][d].slot)
        <5>1. Holds(u, d, stack[u][d].slot) BY <1>14, <3>2, <4>4 DEF Holds
        <5>2. stack[u][d].slot # k BY <1>13, <2>3, <5>1, OneHolders
        <5>3. stack[u][d].slot \in Slots BY <3>1 DEF Frames
        <5> QED BY <1>1, <1>3, <5>2, <5>3 DEF HandedOut
      <4>5. BegunBy(started[<<u, d>>], job', stack[u][d])
        BY <1>1, <3>1, <4>3, <4>4, BegunStays
      <4> QED BY <2>3, <4>2, <4>5
    <3>3. CASE ~(stack[u][d].n > 0)
      BY <2>3, <3>3 DEF BegunBy
    <3> QED BY <3>2, <3>3
  <2> QED BY <2>1, <2>2, <2>3
<1>15. t \in Workers /\ Depth(t) = 1 => Elsewhere(t, f.region)
  BY <1>6, <1>7 DEF RInv, HelpersElsewhere, Top
<1>16. /\ RInv'
       /\ \A q \in Regions : /\ Within(q)' = Within(q)
                             /\ started'[q] = started[q] => Todo(q)' = Todo(q)
                             /\ Within(q) => stack'[q[1]][q[2]].n = stack[q[1]][q[2]].n
  BY <1>1, <1>7, <1>14, <1>15, RInvMoves
<1>17. i \in Todo(r) /\ Todo(r)' = Todo(r) \ {i}
  <2>1. Todo(r) = Numbers(o.n) \ started[r] BY <1>9, <1>13 DEF Todo
  <2>2. stack'[r[1]][r[2]].n = o.n /\ Within(r)' BY <1>9, <1>13, <1>16
  <2>3. Todo(r)' = Numbers(o.n) \ started'[r] BY <2>2 DEF Todo
  <2>4. i \in Numbers(o.n) BY <1>9, OneMore
  <2>5. i \notin started[r] BY <1>9
  <2> QED BY <1>11, <2>1, <2>3, <2>4, <2>5
<1>18. f.place \in InItem /\ Top(t).place \notin InItem BY <1>1, <1>7 DEF InItem
<1> QED BY <1>6, <1>7, <1>11, <1>13, <1>16, <1>17, <1>18, StartStep

LEMMA FetchKeepsLoops ==
  ASSUME IInv, RInv, NEW t \in Threads, Fetch(t)
  PROVE  LoopsKept
BY FetchNoneKeepsLoops, FetchSomeKeepsLoops

LEMMA RunSomeKeepsLoops ==
  ASSUME IInv, RInv, NEW t \in Threads, RunNext(t), Top(t).item < Top(t).n
  PROVE  LoopsKept
<1>1. t \in alive /\ Top(t).place = "inline" /\ alive' = alive /\ job' = job
  BY DEF RunNext, At, pool
<1>2. /\ Top(t).n > 0 /\ RegionFrame(t, Depth(t), Top(t)) /\ Mine(t) \in Regions
      /\ Top(t) \in Frames /\ Depth(t) \in Nat \ {0} /\ Depth(t) \in 1..Depth(t)
      /\ Top(t) = stack[t][Depth(t)] /\ ~(t \in Workers /\ Depth(t) = 1)
  BY <1>1, TopTells, TopIsAFrame DEF IInv, Unshared
<1>3. Top(t).region = Mine(t) BY <1>1, <1>2 DEF RegionFrame, Mine, Unpublished
<1>4. PICK r \in Regions : r = Mine(t) /\ r = Top(t).region BY <1>2, <1>3
<1>5. PICK i \in Nat : i = Top(t).item BY <1>2 DEF Frames
<1>6. PICK n \in Nat : n = Top(t).n BY <1>2 DEF Frames
<1> DEFINE f == [Top(t) EXCEPT !.place = "serial"]
<1>7. stack' = With(t, f) /\ started' = [started EXCEPT ![r] = @ \cup {i}]
  BY <1>4, <1>5 DEF RunNext, Goto
<1>8. f \in Frames /\ f.n = n /\ f.region = r /\ f.place = "serial" /\ f.item = i
  BY <1>2, <1>4, <1>5, <1>6 DEF Frames, Places
<1> HIDE DEF f
<1>9. TopSet(t, f) BY <1>2, <1>7, <1>8, TopIsSet DEF IInv
<1>10. started'[r] = started[r] \cup {i} /\ \A q \in Regions : q # r => started'[q] = started[q]
  BY <1>7 DEF IInv, TypeOK
<1>11. started[r] = Numbers(i)
  <2>1. BegunBy(started[Mine(t)], job, Top(t)) BY <1>1, <1>2 DEF RInv, ItemsBegun, Mine
  <2> QED BY <1>1, <1>2, <1>4, <1>5, <2>1 DEF BegunBy
<1>12. started'[r] = Numbers(i + 1) /\ i \in Numbers(n) /\ i \notin started[r]
  BY <1>5, <1>6, <1>10, <1>11, OneMore
<1>13. ASSUME NEW u \in Threads, u \in alive, NEW d \in 1..Depth(u)
       PROVE  BegunBy(started'[<<u, d>>], job', IF u = t /\ d = Depth(t) THEN f ELSE stack[u][d])
  <2>1. CASE u = t /\ d = Depth(t)
    <3>1. started'[<<u, d>>] = Numbers(f.item + 1) BY <1>4, <1>8, <1>12, <2>1 DEF Mine
    <3>2. BegunBy(started'[<<u, d>>], job', f)
      BY <1>8, <3>1 DEF BegunBy, Unpublished, Owned
    <3> QED BY <2>1, <3>2
  <2>2. CASE ~(u = t /\ d = Depth(t))
    <3>1. BegunBy(started[<<u, d>>], job, stack[u][d]) BY <1>13 DEF RInv, ItemsBegun
    <3>2. CASE stack[u][d].n > 0
      <4>1. <<u, d>> \in Regions BY <3>2, FrameNames
      <4>2. <<u, d>> # r BY <1>4, <2>2 DEF Mine
      <4> QED BY <1>1, <1>10, <2>2, <3>1, <4>1, <4>2
    <3>3. CASE ~(stack[u][d].n > 0)
      BY <2>2, <3>3 DEF BegunBy
    <3> QED BY <3>2, <3>3
  <2> QED BY <2>1, <2>2
<1>14. /\ RInv'
       /\ \A q \in Regions : /\ Within(q)' = Within(q)
                             /\ started'[q] = started[q] => Todo(q)' = Todo(q)
                             /\ Within(q) => stack'[q[1]][q[2]].n = stack[q[1]][q[2]].n
  BY <1>1, <1>2, <1>6, <1>8, <1>9, <1>13, RunNextIsSafe, RInvMoves
<1>15. stack[r[1]][r[2]].n = n /\ Within(r) BY <1>2, <1>4, <1>6 DEF Mine, Within
<1>16. i \in Todo(r) /\ Todo(r)' = Todo(r) \ {i}
  <2>1. Todo(r) = Numbers(n) \ started[r] BY <1>15 DEF Todo
  <2>2. stack'[r[1]][r[2]].n = n /\ Within(r)' BY <1>14, <1>15
  <2>3. Todo(r)' = Numbers(n) \ started'[r] BY <2>2 DEF Todo
  <2> QED BY <1>10, <1>12, <2>1, <2>3
<1>17. f.place \in InItem /\ Top(t).place \notin InItem BY <1>1, <1>8 DEF InItem
<1> QED BY <1>4, <1>8, <1>9, <1>10, <1>14, <1>15, <1>16, <1>17, StartStep
-----------------------------------------------------------------------------
(* Returning, and beginning.                                               *)

\* Nobody is inside a region whose slot, if it has one, has no helper.
LEMMA NobodyIn ==
  ASSUME IInv, RInv, NEW t \in Threads, t \in alive, Top(t).n > 0,
         \A k \in Slots : Holds(t, Depth(t), k) => job[k].refs = 0,
         NEW w \in Workers
  PROVE  stack[w][1].region # Mine(t)
<1> SUFFICES ASSUME stack[w][1].region = Mine(t) PROVE FALSE OBVIOUS
<1>1. Mine(t) # NoRegion /\ Mine(t)[1] = t /\ Mine(t)[2] = Depth(t) BY Names DEF Mine
<1>2. w \in alive BY <1>1 DEF RInv, HelpersElsewhere, Elsewhere
<1>3. w \in Threads BY DEF Threads
<1>4. PICK k \in Slots : k = stack[w][1].slot BY <1>3, TopIsAFrame DEF IInv, Frames
<1>5. w \in Helpers(k) BY <1>1, <1>2, <1>4 DEF Helpers, Helping
<1>6. job[k].live /\ job[k].region = Mine(t) BY <1>5 DEF IInv, HelpersAreInside
<1>7. Holds(t, Depth(t), k) BY <1>1, <1>6, OpenIsWithin
<1> QED BY <1>5, <1>7, HelpersAreWorkers

\* Then nobody runs an item of it either, but for its own frame.
LEMMA NobodyRunsIt ==
  ASSUME IInv, RInv, NEW t \in Threads, t \in alive, Top(t).n > 0, Top(t).place \notin InItem,
         \A k \in Slots : Holds(t, Depth(t), k) => job[k].refs = 0,
         NEW u \in Threads
  PROVE  Running(u, Mine(t)) = {}
<1>1. ASSUME NEW d \in 1..Depth(u), Runs(u, d, Mine(t)) PROVE FALSE
  <2>1. CASE u \in Workers /\ Mine(t) = stack[u][1].region
    BY <2>1, NobodyIn
  <2>2. CASE Mine(t) = <<u, d>>
    <3>1. u = t /\ d = Depth(t) BY <2>2 DEF Mine
    <3> QED BY <1>1, <3>1 DEF Runs, Top
  <2> QED BY <1>1, <2>1, <2>2, RunsWhere
<1> QED BY <1>1 DEF Running, Runs, InItem

\* A thread runs what it ran if the same frames run, with the same items.
LEMMA SameRuns ==
  ASSUME NEW u \in Threads, NEW r,
         \A d : /\ (d \in 1..Depth(u)' /\ Runs(u, d, r)') <=> (d \in 1..Depth(u) /\ Runs(u, d, r))
                /\ d \in 1..Depth(u) /\ Runs(u, d, r) => stack'[u][d].item = stack[u][d].item
  PROVE  Running(u, r)' = Running(u, r)
<1> DEFINE runs == {e \in 1..Depth(u) : Runs(u, e, r)}
           runs2 == {e \in 1..Depth(u)' : Runs(u, e, r)'}
<1>1. Running(u, r) = {stack[u][d].item : d \in runs}
  BY DEF Running, Runs, InItem
<1>2. Running(u, r)' = {stack'[u][d].item : d \in runs2}
  BY DEF Running, Runs, InItem
<1>3. runs2 = runs /\ \A d \in runs : stack'[u][d].item = stack[u][d].item OBVIOUS
<1> HIDE DEF runs, runs2
<1> QED BY <1>1, <1>2, <1>3

\* A region returns when all its items have begun and nobody runs one.
LEMMA ReturnStep ==
  ASSUME IInv, RInv, NEW t \in Threads, t \in alive, Top(t).n > 0,
         Top(t).place \notin InItem, stack' = Returned(t), alive' = alive, started' = started,
         \A j \in Slots :
           /\ job'[j].n = job[j].n /\ job'[j].next = job[j].next
           /\ Holds(t, Depth(t), j) => job[j].refs = 0,
         \A i \in Numbers(Top(t).n) : i \in started[Mine(t)]
  PROVE  LoopsKept
<1> DEFINE D == Depth(t)
<1>1. /\ \A u \in Threads : u # t => stack'[u] = stack[u]
      /\ D = 1 => t \notin Workers /\ Depth(t)' = 1 /\ stack'[t][1] = Frame("idle")
      /\ D # 1 => Depth(t)' = D - 1 /\ \A d \in 1..Depth(t)' : stack'[t][d] = stack[t][d]
  BY StackAfterReturn
<1>2. D \in Nat \ {0} /\ D \in 1..D /\ Top(t) = stack[t][D] BY TopIsAFrame DEF IInv
<1>3. PICK r \in Regions : r = <<t, D>> /\ r = Mine(t) BY TopTells DEF Mine
<1>4. Frame("idle").n = 0 /\ Frame("idle").place = "idle" BY DEF Frame
<1>5. ASSUME NEW u \in Threads, NEW d \in 1..Depth(u)'
      PROVE  \/ d \in 1..Depth(u) /\ stack'[u][d] = stack[u][d] /\ ~(u = t /\ d = D)
             \/ u = t /\ d = 1 /\ D = 1 /\ stack'[u][d] = Frame("idle")
  <2>1. CASE u # t
    BY <1>1, <2>1 DEF Depth
  <2>2. CASE u = t /\ D = 1
    BY <1>1, <2>2
  <2>3. CASE u = t /\ D # 1
    <3>1. d \in 1..(D - 1) BY <1>1, <2>3
    <3>2. d \in 1..D /\ d # D BY <1>2, <3>1
    <3> QED BY <1>1, <2>3, <3>2
  <2> QED BY <2>1, <2>2, <2>3
<1>6. ASSUME NEW u \in Threads, NEW d \in 1..Depth(u), ~(u = t /\ d = D)
      PROVE  d \in 1..Depth(u)' /\ stack'[u][d] = stack[u][d]
  <2>1. CASE u # t
    BY <1>1, <2>1 DEF Depth
  <2>2. CASE u = t
    <3>1. D # 1 /\ d \in 1..(D - 1) BY <1>2, <1>6, <2>2
    <3> QED BY <1>1, <2>2, <3>1
  <2> QED BY <2>1, <2>2
<1>7. ASSUME NEW u \in Threads, NEW q PROVE Running(u, q)' = Running(u, q)
  <2>1. ASSUME NEW d, d \in 1..Depth(u)', Runs(u, d, q)'
        PROVE  d \in 1..Depth(u) /\ Runs(u, d, q)
    <3>1. stack'[u][d].place \in InItem BY <2>1 DEF Runs
    <3>2. stack'[u][d] # Frame("idle") BY <1>4, <3>1 DEF InItem
    <3> QED BY <1>5, <2>1, <3>2 DEF Runs
  <2>2. ASSUME NEW d, d \in 1..Depth(u), Runs(u, d, q)
        PROVE  d \in 1..Depth(u)' /\ Runs(u, d, q)' /\ stack'[u][d].item = stack[u][d].item
    <3>1. ~(u = t /\ d = D) BY <1>2, <2>2 DEF Runs
    <3> QED BY <1>6, <2>2, <3>1 DEF Runs
  <2> QED BY <2>1, <2>2, SameRuns
<1>8. ASSUME NEW q \in Regions PROVE Within(q)' <=> Within(q) /\ q # r
  <2>1. q[1] \in Threads /\ q[2] \in Nat \ {0} /\ q = <<q[1], q[2]>> BY RegionNames
  <2>2. Depth(q[1]) \in Nat /\ Depth(q[1])' \in Nat
    <3>1. Depth(q[1]) \in Nat BY <2>1, TopIsAFrame DEF IInv
    <3> QED BY <1>1, <1>2, <2>1, <3>1 DEF Depth
  <2>3. ASSUME Within(q)' PROVE Within(q) /\ q # r
    <3>1. q[2] \in 1..Depth(q[1])' /\ stack'[q[1]][q[2]].n > 0 BY <2>1, <2>2, <2>3 DEF Within
    <3>2. q[2] \in 1..Depth(q[1]) /\ stack'[q[1]][q[2]] = stack[q[1]][q[2]]
          /\ ~(q[1] = t /\ q[2] = D)
      BY <1>4, <1>5, <2>1, <3>1
    <3> QED BY <1>3, <2>1, <2>2, <3>1, <3>2 DEF Within
  <2>4. ASSUME Within(q), q # r PROVE Within(q)'
    <3>1. q[2] \in 1..Depth(q[1]) /\ stack[q[1]][q[2]].n > 0 BY <2>1, <2>2, <2>4 DEF Within
    <3>2. ~(q[1] = t /\ q[2] = D) BY <1>3, <2>1, <2>4
    <3>3. q[2] \in 1..Depth(q[1])' /\ stack'[q[1]][q[2]] = stack[q[1]][q[2]]
      BY <1>6, <2>1, <3>1, <3>2
    <3> QED BY <2>2, <3>1, <3>3 DEF Within
  <2> QED BY <2>3, <2>4
<1>9. ASSUME NEW q \in Regions, q # r PROVE Todo(q)' = Todo(q)
  <2>1. q[1] \in Threads /\ q[2] \in Nat \ {0} /\ q = <<q[1], q[2]>> BY RegionNames
  <2>2. CASE Within(q)
    <3>1. Depth(q[1]) \in Nat BY <2>1, TopIsAFrame DEF IInv
    <3>2. q[2] \in 1..Depth(q[1]) BY <2>1, <2>2, <3>1 DEF Within
    <3>3. ~(q[1] = t /\ q[2] = D) BY <1>3, <1>9, <2>1
    <3>4. stack'[q[1]][q[2]] = stack[q[1]][q[2]] BY <1>6, <2>1, <3>2, <3>3
    <3>5. Within(q)' BY <1>8, <1>9, <2>2
    <3> QED BY <2>2, <3>4, <3>5 DEF Todo
  <2>3. CASE ~Within(q)
    <3>1. ~Within(q)' BY <1>8, <2>3
    <3> QED BY <2>3, <3>1 DEF Todo
  <2> QED BY <2>2, <2>3
<1>10. KeepsPromise(r)
  <2>1. stack[r[1]][r[2]] = Top(t) /\ Within(r) BY <1>2, <1>3 DEF Within
  <2>2. Todo(r) = {} BY <1>3, <2>1 DEF Todo
  <2>3. \A u \in Threads : Running(u, r) = {} BY <1>3, NobodyRunsIt
  <2>4. ~Within(r)' BY <1>8
  <2> QED BY <1>7, <2>1, <2>2, <2>3, <2>4, KeepsReturn
<1>11. ASSUME NEW q \in Regions, q # r PROVE KeepsPromise(q)
  <2>1. Within(q)' = Within(q) BY <1>8, <1>11 DEF Within
  <2> QED BY <1>7, <1>9, <1>11, <2>1, KeepsStill
<1>12. ItemsBegun'
  <2>1. ASSUME NEW u \in Threads, u \in alive, NEW d \in 1..Depth(u)'
        PROVE  BegunBy(started[<<u, d>>], job', stack'[u][d])
    <3>1. CASE stack'[u][d] = Frame("idle")
      BY <1>4, <3>1 DEF BegunBy
    <3>2. CASE d \in 1..Depth(u) /\ stack'[u][d] = stack[u][d]
      <4>1. BegunBy(started[<<u, d>>], job, stack[u][d]) BY <2>1, <3>2 DEF RInv, ItemsBegun
      <4>2. stack[u][d].slot \in Slots
        BY <3>2, StacksAreSequences DEF IInv, Frames
      <4> QED BY <3>2, <4>1, <4>2 DEF BegunBy
    <3> QED BY <1>5, <3>1, <3>2
  <2> QED BY <2>1 DEF ItemsBegun
<1>13. HelpersElsewhere'
  <2>1. ASSUME NEW w \in Workers
        PROVE  /\ stack'[w][1] = stack[w][1] /\ stack[w][1].region # r
               /\ Elsewhere(w, stack[w][1].region)
    <3>1. w \in Threads /\ 1 \in 1..Depth(w) BY TopIsAFrame DEF IInv, Threads
    <3>2. stack[w][1].region # r BY <1>3, NobodyIn
    <3> QED BY <1>1, <1>6, <3>1, <3>2 DEF RInv, HelpersElsewhere
  <2>2. \A q \in Regions : Within(q) /\ q # r =>
          q[2] <= Len(stack'[q[1]]) /\ stack'[q[1]][q[2]].n > 0
    BY <1>8 DEF Within, Depth
  <2>3. ASSUME NEW w \in Workers, NEW q, q = stack'[w][1].region, q # NoRegion
        PROVE  /\ q \in Regions /\ q[1] # w /\ (q[1] \in alive => w \in alive)
               /\ q[2] <= Len(stack'[q[1]]) /\ stack'[q[1]][q[2]].n > 0
    BY <2>1, <2>2, <2>3 DEF Elsewhere
  <2> QED BY <2>3 DEF HelpersElsewhere, Elsewhere, Within, Depth
<1> QED BY <1>10, <1>11, <1>12, <1>13 DEF LoopsKept, RInv

LEMMA RunNextKeepsLoops ==
  ASSUME IInv, RInv, NEW t \in Threads, RunNext(t)
  PROVE  LoopsKept
<1>1. t \in alive /\ Top(t).place = "inline" /\ alive' = alive /\ job' = job
  BY DEF RunNext, At, pool
<1>2. /\ Top(t).n > 0 /\ Top(t).n \in Nat /\ Top(t).item \in Nat
      /\ Depth(t) \in 1..Depth(t) /\ Top(t) = stack[t][Depth(t)]
  BY <1>1, TopTells, TopIsAFrame DEF IInv, Unshared, Frames
<1>3. CASE Top(t).item < Top(t).n
  BY <1>3, RunSomeKeepsLoops
<1>4. CASE ~(Top(t).item < Top(t).n)
  <2>1. stack' = Returned(t) /\ started' = started BY <1>4 DEF RunNext
  <2>2. \A j \in Slots : ~Holds(t, Depth(t), j) BY <1>1, <1>2 DEF Holds, Owned
  <2>3. BegunBy(started[Mine(t)], job, Top(t)) BY <1>1, <1>2 DEF RInv, ItemsBegun, Mine
  <2>4. started[Mine(t)] = Numbers(Top(t).item) BY <1>1, <1>2, <2>3 DEF BegunBy
  <2>5. \A i \in Numbers(Top(t).n) : i \in Numbers(Top(t).item) BY <1>2, <1>4 DEF Numbers
  <2>6. Top(t).place \notin InItem BY <1>1 DEF InItem
  <2> QED BY <1>1, <1>2, <2>1, <2>2, <2>4, <2>5, <2>6, ReturnStep
<1> QED BY <1>3, <1>4

LEMMA SettleKeepsLoops ==
  ASSUME IInv, RInv, NEW t \in Threads, Settle(t)
  PROVE  LoopsKept
<1>1. /\ t \in alive /\ Top(t).place = "settle" /\ stack' = Returned(t)
      /\ alive' = alive /\ started' = started
      /\ job' = [job EXCEPT ![Top(t).slot].live = FALSE] /\ job[Top(t).slot].refs = 0
  BY DEF Settle, At, HelpersLeft
<1>2. /\ Top(t).n > 0 /\ Top(t).n \in Nat /\ Top(t).slot \in Slots
      /\ Depth(t) \in 1..Depth(t) /\ Top(t) = stack[t][Depth(t)]
  BY <1>1, TopTells, TopIsAFrame DEF IInv, Frames
<1>3. job \in [Slots -> [live : BOOLEAN, n : Nat, next : Nat, refs : Nat, cap : Nat,
                         low : BOOLEAN, region : Regions \cup {NoRegion}]]
  BY DEF IInv, TypeOK
<1>4. PICK k \in Slots : k = Top(t).slot BY <1>2
<1>5. \A j \in Slots :
        /\ job'[j].n = job[j].n /\ job'[j].next = job[j].next
        /\ Holds(t, Depth(t), j) => job[j].refs = 0
  BY <1>1, <1>2, <1>3, <1>4 DEF Holds
<1>6. BegunBy(started[Mine(t)], job, Top(t)) BY <1>1, <1>2 DEF RInv, ItemsBegun, Mine
<1>7. started[Mine(t)] = {i \in Numbers(Top(t).n) : i < job[k].next} /\ job[k].next >= Top(t).n
  BY <1>1, <1>2, <1>4, <1>6 DEF BegunBy, Owned
<1>8. job[k].next \in Nat BY <1>3
<1>9. \A i \in Numbers(Top(t).n) : i < job[k].next BY <1>2, <1>7, <1>8 DEF Numbers
<1>10. Top(t).place \notin InItem BY <1>1 DEF InItem
<1> QED BY <1>1, <1>2, <1>5, <1>7, <1>9, <1>10, ReturnStep

\* Nobody runs an item of a region that no thread is within.
LEMMA NobodyRunsOutside ==
  ASSUME IInv, RInv, NEW r \in Regions, ~Within(r), NEW u \in Threads
  PROVE  Running(u, r) = {}
<1>1. ASSUME NEW d \in 1..Depth(u), Runs(u, d, r) PROVE FALSE
  <2>1. r # NoRegion /\ r[1] \in Threads /\ r[2] \in Nat BY RegionNames DEF NoRegion
  <2>2. CASE Elsewhere(u, r)
    BY <2>1, <2>2 DEF Elsewhere
  <2>3. CASE r = <<u, d>> /\ stack[u][d].n > 0
    <3>1. r[1] = u /\ r[2] = d /\ Depth(u) \in Nat BY <2>3, TopIsAFrame DEF IInv
    <3> QED BY <2>3, <3>1 DEF Within
  <2> QED BY <1>1, <2>2, <2>3, RunsWhere
<1> QED BY <1>1 DEF Running, Runs, InItem

\* A region begins with all its items to run.
\* This is what changes when t's frame e begins a call of n items, the region r.
Begins(t, e, n, r) ==
  /\ r = <<t, e>> /\ t \in alive /\ ~Within(r)
  /\ \A u \in Threads : u # t => stack'[u] = stack[u]
  /\ Depth(t)' = e /\ stack'[t][e] = [Frame("call") EXCEPT !.n = n]
  /\ \A d \in 1..e : d # e => d \in 1..Depth(t) /\ stack'[t][d] = stack[t][d]
  /\ \A d \in 1..Depth(t) :
       d \in 1..e /\ (d = e => stack[t][d].n = 0 /\ stack[t][d].place \notin InItem)
  /\ (e = 1 => t \notin Workers)
  /\ started' = [started EXCEPT ![r] = {}] /\ job' = job /\ alive' = alive

LEMMA BeginStep ==
  ASSUME IInv, RInv, NEW t \in Threads, NEW e \in Nat \ {0}, NEW n \in Sizes, NEW r \in Regions,
         Begins(t, e, n, r)
  PROVE  LoopsKept
<1>0. /\ r = <<t, e>> /\ t \in alive /\ ~Within(r)
      /\ \A u \in Threads : u # t => stack'[u] = stack[u]
      /\ Depth(t)' = e /\ stack'[t][e] = [Frame("call") EXCEPT !.n = n]
      /\ \A d \in 1..e : d # e => d \in 1..Depth(t) /\ stack'[t][d] = stack[t][d]
      /\ \A d \in 1..Depth(t) :
           d \in 1..e /\ (d = e => stack[t][d].n = 0 /\ stack[t][d].place \notin InItem)
      /\ (e = 1 => t \notin Workers)
      /\ started' = [started EXCEPT ![r] = {}] /\ job' = job /\ alive' = alive
  BY DEF Begins
<1> USE <1>0
<1> DEFINE g == [Frame("call") EXCEPT !.n = n]
<1>1. g.place = "call" /\ g.n = n /\ n > 0 /\ n \in Nat BY CallFrames, PoolAssumption
<1>2. g.item = 0 BY DEF Frame
<1>3. stack'[t][e] = g OBVIOUS
<1> HIDE DEF g
<1>4. ASSUME NEW u \in Threads, NEW d \in 1..Depth(u)'
      PROVE  \/ d \in 1..Depth(u) /\ stack'[u][d] = stack[u][d] /\ <<u, d>> # r
             \/ u = t /\ d = e /\ stack'[u][d] = g
  <2>1. CASE u # t
    <3>1. d \in 1..Depth(u) /\ stack'[u][d] = stack[u][d] BY <2>1 DEF Depth
    <3> QED BY <2>1, <3>1
  <2>2. CASE u = t
    BY <1>3, <2>2
  <2> QED BY <2>1, <2>2
<1>5. ASSUME NEW u \in Threads, NEW d \in 1..Depth(u), ~(u = t /\ d = e)
      PROVE  d \in 1..Depth(u)' /\ stack'[u][d] = stack[u][d]
  <2>1. CASE u # t
    BY <2>1 DEF Depth
  <2>2. CASE u = t
    BY <1>5, <2>2
  <2> QED BY <2>1, <2>2
<1>6. ASSUME NEW u \in Threads, NEW q PROVE Running(u, q)' = Running(u, q)
  <2>1. ASSUME NEW d, d \in 1..Depth(u)', Runs(u, d, q)'
        PROVE  d \in 1..Depth(u) /\ Runs(u, d, q)
    <3>1. stack'[u][d].place \in InItem BY <2>1 DEF Runs
    <3>2. stack'[u][d] # g BY <1>1, <3>1 DEF InItem
    <3> QED BY <1>4, <2>1, <3>2 DEF Runs
  <2>2. ASSUME NEW d, d \in 1..Depth(u), Runs(u, d, q)
        PROVE  d \in 1..Depth(u)' /\ Runs(u, d, q)' /\ stack'[u][d].item = stack[u][d].item
    <3>1. ~(u = t /\ d = e) BY <2>2 DEF Runs
    <3> QED BY <1>5, <2>2, <3>1 DEF Runs
  <2> QED BY <2>1, <2>2, SameRuns
<1>7. ASSUME NEW q \in Regions PROVE Within(q)' <=> Within(q) \/ q = r
  <2>1. q[1] \in Threads /\ q[2] \in Nat \ {0} /\ q = <<q[1], q[2]>> BY RegionNames
  <2>2. Depth(q[1]) \in Nat /\ Depth(q[1])' \in Nat
    <3>1. Depth(q[1]) \in Nat BY <2>1, TopIsAFrame DEF IInv
    <3> QED BY <2>1, <3>1 DEF Depth
  <2>3. ASSUME Within(q)', q # r PROVE Within(q)
    <3>1. q[2] \in 1..Depth(q[1])' /\ stack'[q[1]][q[2]].n > 0 BY <2>1, <2>2, <2>3 DEF Within
    <3>2. q[2] \in 1..Depth(q[1]) /\ stack'[q[1]][q[2]] = stack[q[1]][q[2]]
      BY <1>4, <2>1, <2>3, <3>1
    <3> QED BY <2>2, <3>1, <3>2 DEF Within
  <2>4. ASSUME Within(q) PROVE Within(q)'
    <3>1. q[2] \in 1..Depth(q[1]) /\ stack[q[1]][q[2]].n > 0 BY <2>1, <2>2, <2>4 DEF Within
    <3>2. ~(q[1] = t /\ q[2] = e) BY <2>1, <2>4
    <3>3. q[2] \in 1..Depth(q[1])' /\ stack'[q[1]][q[2]] = stack[q[1]][q[2]]
      BY <1>5, <2>1, <3>1, <3>2
    <3> QED BY <2>2, <3>1, <3>3 DEF Within
  <2>5. Within(r)' BY <1>1, <1>3 DEF Within
  <2> QED BY <2>3, <2>4, <2>5
<1>8. started'[r] = {} /\ \A q \in Regions : q # r => started'[q] = started[q]
  BY DEF IInv, TypeOK
<1>9. ASSUME NEW q \in Regions, q # r PROVE Todo(q)' = Todo(q)
  <2>1. q[1] \in Threads /\ q[2] \in Nat \ {0} /\ q = <<q[1], q[2]>> BY RegionNames
  <2>2. CASE Within(q)
    <3>1. Depth(q[1]) \in Nat BY <2>1, TopIsAFrame DEF IInv
    <3>2. q[2] \in 1..Depth(q[1]) BY <2>1, <2>2, <3>1 DEF Within
    <3>3. ~(q[1] = t /\ q[2] = e) BY <1>9, <2>1
    <3>4. stack'[q[1]][q[2]] = stack[q[1]][q[2]] BY <1>5, <2>1, <3>2, <3>3
    <3>5. Within(q)' BY <1>7, <2>2
    <3> QED BY <1>8, <1>9, <2>2, <3>4, <3>5 DEF Todo
  <2>3. CASE ~Within(q)
    <3>1. ~Within(q)' BY <1>7, <1>9, <2>3
    <3> QED BY <2>3, <3>1 DEF Todo
  <2> QED BY <2>2, <2>3
<1>10. KeepsPromise(r)
  <2>1. Within(r)' /\ stack'[r[1]][r[2]].n = n BY <1>1, <1>3, <1>7
  <2>2. Todo(r)' = Numbers(n) BY <1>8, <2>1 DEF Todo
  <2>3. \A u \in Threads : Running(u, r) = {} BY NobodyRunsOutside
  <2> QED BY <1>6, <2>1, <2>2, <2>3, KeepsBegin
<1>11. ASSUME NEW q \in Regions, q # r PROVE KeepsPromise(q)
  <2>1. Within(q)' = Within(q) BY <1>7, <1>11 DEF Within
  <2> QED BY <1>6, <1>9, <1>11, <2>1, KeepsStill
<1>12. ItemsBegun'
  <2>1. ASSUME NEW u \in Threads, u \in alive, NEW d \in 1..Depth(u)'
        PROVE  BegunBy(started'[<<u, d>>], job, stack'[u][d])
    <3>1. CASE u = t /\ d = e /\ stack'[u][d] = g
      <4>1. started'[<<u, d>>] = {} BY <1>8, <3>1
      <4> QED BY <1>1, <1>2, <3>1, <4>1 DEF BegunBy, Unpublished, Owned
    <3>2. CASE d \in 1..Depth(u) /\ stack'[u][d] = stack[u][d] /\ <<u, d>> # r
      <4>1. BegunBy(started[<<u, d>>], job, stack[u][d]) BY <2>1, <3>2 DEF RInv, ItemsBegun
      <4>2. CASE stack[u][d].n > 0
        <5>1. <<u, d>> \in Regions BY <3>2, <4>2, FrameNames
        <5>2. started'[<<u, d>>] = started[<<u, d>>] BY <1>8, <3>2, <5>1
        <5> QED BY <3>2, <4>1, <5>2
      <4>3. CASE ~(stack[u][d].n > 0)
        BY <3>2, <4>3 DEF BegunBy
      <4> QED BY <4>2, <4>3
    <3> QED BY <1>4, <3>1, <3>2
  <2> QED BY <2>1 DEF ItemsBegun
<1>13. HelpersElsewhere'
  <2>1. ASSUME NEW w \in Workers
        PROVE  stack'[w][1] = stack[w][1] /\ Elsewhere(w, stack[w][1].region)
    <3>1. w \in Threads /\ 1 \in 1..Depth(w) BY TopIsAFrame DEF IInv, Threads
    <3> QED BY <1>5, <3>1 DEF RInv, HelpersElsewhere
  <2>2. \A q \in Regions : Within(q) => q[2] <= Len(stack'[q[1]]) /\ stack'[q[1]][q[2]].n > 0
    BY <1>7 DEF Within, Depth
  <2>3. ASSUME NEW w \in Workers, NEW q, q = stack'[w][1].region, q # NoRegion
        PROVE  /\ q \in Regions /\ q[1] # w /\ (q[1] \in alive => w \in alive)
               /\ q[2] <= Len(stack'[q[1]]) /\ stack'[q[1]][q[2]].n > 0
    BY <2>1, <2>2, <2>3 DEF Elsewhere
  <2> QED BY <2>3 DEF HelpersElsewhere, Elsewhere, Within, Depth
<1> QED BY <1>10, <1>11, <1>12, <1>13 DEF LoopsKept, RInv

LEMMA DispatchKeepsLoops ==
  ASSUME IInv, RInv, NEW s \in Submitters, Dispatch(s)
  PROVE  LoopsKept
<1>0. s \in Threads BY DEF Threads
<1>1. /\ s \in alive /\ Top(s).place = "idle" /\ alive' = alive /\ job' = job
      /\ started' = [started EXCEPT ![<<s, 1>>] = {}] /\ Begin(s, <<>>)
  BY DEF Dispatch, At, pool
<1>2. PICK n \in Sizes :
        stack' = [stack EXCEPT ![s] = Append(<<>>, [Frame("call") EXCEPT !.n = n])]
  BY <1>1 DEF Begin
<1>3. Depth(s) = 1 /\ stack[s][1].n = 0 /\ stack[s][1].place = "idle" /\ s \notin Workers
  <2>1. Depth(s) = 1 /\ Top(s).n = 0 BY <1>0, <1>1, TopTells
  <2> QED BY <1>1, <2>1, PoolAssumption DEF Top
<1> DEFINE g == [Frame("call") EXCEPT !.n = n]
<1>4. stack' = [stack EXCEPT ![s] = Append(<<>>, g)] BY <1>2
<1>5. g \in Frames BY CallFrames
<1> HIDE DEF g
<1>6. Append(<<>>, g) = <<g>> /\ <<g>> \in Seq(Frames) BY <1>5
<1>7. \A u \in Threads : stack'[u] = IF u = s THEN <<g>> ELSE stack[u]
  BY <1>0, <1>4, <1>6, StackIsSet DEF IInv
<1>8. Depth(s)' = 1 /\ stack'[s][1] = g BY <1>0, <1>7 DEF Depth
<1>9. PICK r \in Regions : r = <<s, 1>>
  <2>1. 1 \in 1..MaxDepth BY PoolAssumption
  <2> QED BY <2>1, Names
<1>10. ~Within(r) BY <1>3, <1>9 DEF Within
<1>11. \A d \in 1..1 : d = 1 OBVIOUS
<1>12. stack'[s][1] = [Frame("call") EXCEPT !.n = n] BY <1>8 DEF g
<1>13. started' = [started EXCEPT ![r] = {}] BY <1>1, <1>9
<1>14. \A d \in 1..Depth(s) :
         d \in 1..1 /\ (d = 1 => stack[s][d].n = 0 /\ stack[s][d].place \notin InItem)
  BY <1>3, <1>11 DEF InItem
<1>15. PICK e \in Nat \ {0} : e = 1 OBVIOUS
<1>16. \A u \in Threads : u # s => stack'[u] = stack[u] BY <1>7
<1>17. \A d \in 1..e : d # e => d \in 1..Depth(s) /\ stack'[s][d] = stack[s][d] BY <1>11, <1>15
<1>18. Depth(s)' = e /\ stack'[s][e] = [Frame("call") EXCEPT !.n = n] BY <1>8, <1>12, <1>15
<1>19. e = 1 => s \notin Workers BY <1>3
<1>20. r = <<s, e>> BY <1>9, <1>15
<1>21. \A d \in 1..Depth(s) :
         d \in 1..e /\ (d = e => stack[s][d].n = 0 /\ stack[s][d].place \notin InItem)
  BY <1>14, <1>15
<1>22. s \in alive /\ alive' = alive /\ job' = job BY <1>1
<1>23. Begins(s, e, n, r)
  BY <1>10, <1>13, <1>16, <1>17, <1>18, <1>19, <1>20, <1>21, <1>22, Zenon DEF Begins
<1> QED BY <1>0, <1>23, BeginStep

LEMMA NestKeepsLoops ==
  ASSUME IInv, RInv, NEW t \in Threads, Nest(t)
  PROVE  LoopsKept
<1>1. /\ t \in alive /\ Depth(t) < MaxDepth /\ alive' = alive /\ job' = job
      /\ started' = [started EXCEPT ![<<t, Depth(t) + 1>>] = {}] /\ Begin(t, stack[t])
  BY DEF Nest, At, pool
<1>2. PICK n \in Sizes :
        stack' = [stack EXCEPT ![t] = Append(stack[t], [Frame("call") EXCEPT !.n = n])]
  BY <1>1 DEF Begin
<1> DEFINE g == [Frame("call") EXCEPT !.n = n]
           s == Append(stack[t], g)
<1>3. g \in Frames BY CallFrames
<1>4. stack' = [stack EXCEPT ![t] = s] BY <1>2
<1> HIDE DEF g
<1>5. /\ Depth(t) \in Nat \ {0} /\ Depth(t) = Len(stack[t]) /\ stack[t] \in Seq(Frames)
      /\ MaxDepth \in Nat
  BY TopIsAFrame, StacksAreSequences, PoolAssumption DEF IInv
<1>6. PICK e \in Nat \ {0} : e = Depth(t) + 1 BY <1>5
<1>7. /\ s \in Seq(Frames) /\ Len(s) = e /\ s[e] = g
      /\ \A d \in 1..Depth(t) : s[d] = stack[t][d]
  BY <1>3, <1>5, <1>6
<1> HIDE DEF s
<1>8. \A u \in Threads : stack'[u] = IF u = t THEN s ELSE stack[u]
  BY <1>4, <1>7, StackIsSet DEF IInv
<1>9. Depth(t)' = e /\ stack'[t] = s BY <1>7, <1>8 DEF Depth
<1>10. PICK r \in Regions : r = <<t, e>>
  <2>1. e \in 2..MaxDepth BY <1>1, <1>5, <1>6
  <2> QED BY <2>1, Names
<1>11. ~Within(r) BY <1>5, <1>6, <1>10 DEF Within
<1>12. stack'[t][e] = [Frame("call") EXCEPT !.n = n] BY <1>7, <1>9 DEF g
<1>13. \A d \in 1..e : d # e => d \in 1..Depth(t) BY <1>5, <1>6
<1>14. \A d \in 1..e : d # e => d \in 1..Depth(t) /\ stack'[t][d] = stack[t][d]
  BY <1>7, <1>9, <1>13
<1>15. \A d \in 1..Depth(t) : d \in 1..e /\ d # e BY <1>5, <1>6
<1>16. e # 1 BY <1>5, <1>6
<1>17. started' = [started EXCEPT ![r] = {}] BY <1>1, <1>6, <1>10
<1>18. \A u \in Threads : u # t => stack'[u] = stack[u] BY <1>8
<1>19. \A d \in 1..Depth(t) :
         d \in 1..e /\ (d = e => stack[t][d].n = 0 /\ stack[t][d].place \notin InItem)
  BY <1>15
<1>20. e = 1 => t \notin Workers BY <1>16
<1>21. Depth(t)' = e /\ t \in alive /\ alive' = alive /\ job' = job BY <1>1, <1>9
<1>22. Begins(t, e, n, r)
  BY <1>10, <1>11, <1>12, <1>14, <1>17, <1>18, <1>19, <1>20, <1>21, Zenon DEF Begins
<1> QED BY <1>22, BeginStep
-----------------------------------------------------------------------------
(* A pool is started, a process forks, nothing happens: no region notices. *)

\* A worker that was idle is idle still, on a stack of one frame.
Renewed(u) ==
  /\ u \in Workers /\ Depth(u) = 1 /\ Depth(u)' = 1
  /\ stack[u][1].n = 0 /\ stack[u][1].place \notin InItem
  /\ stack'[u][1].n = 0 /\ stack'[u][1].place \notin InItem /\ stack'[u][1].region = NoRegion

LEMMA SameRegions ==
  ASSUME IInv, started' = started, \A u \in Threads : stack'[u] = stack[u] \/ Renewed(u)
  PROVE  \A r \in Regions : KeepsPromise(r) /\ Within(r)' = Within(r)
<1>1. ASSUME NEW u \in Threads, NEW r PROVE Running(u, r)' = Running(u, r)
  <2>1. CASE stack'[u] = stack[u]
    BY <2>1 DEF Running, Depth
  <2>2. CASE Renewed(u)
    <3>1. \A d \in 1..1 : d = 1 OBVIOUS
    <3>2. \A d \in 1..Depth(u) : ~Runs(u, d, r) BY <2>2, <3>1 DEF Renewed, Runs
    <3>3. \A d \in 1..Depth(u)' : ~Runs(u, d, r)' BY <2>2, <3>1 DEF Renewed, Runs
    <3> QED BY <3>2, <3>3, SameRuns
  <2> QED BY <1>1, <2>1, <2>2
<1>2. ASSUME NEW r \in Regions
      PROVE  Within(r)' = Within(r) /\ (Within(r) => stack'[r[1]] = stack[r[1]])
  <2>1. r[1] \in Threads /\ r[2] \in Nat \ {0} BY RegionNames
  <2>2. CASE stack'[r[1]] = stack[r[1]]
    BY <2>2 DEF Within, Depth
  <2>3. CASE Renewed(r[1])
    <3>1. \A d \in Nat \ {0} : d <= 1 => d = 1 OBVIOUS
    <3>2. ~Within(r)
      <4>1. ASSUME Within(r) PROVE FALSE
        <5>1. r[2] <= 1 /\ stack[r[1]][r[2]].n > 0 BY <2>3, <4>1 DEF Within, Renewed
        <5>2. r[2] = 1 BY <2>1, <3>1, <5>1
        <5> QED BY <2>3, <5>1, <5>2 DEF Renewed
      <4> QED BY <4>1
    <3>3. ~Within(r)'
      <4>1. ASSUME Within(r)' PROVE FALSE
        <5>1. r[2] <= 1 /\ stack'[r[1]][r[2]].n > 0 BY <2>3, <4>1 DEF Within, Renewed
        <5>2. r[2] = 1 BY <2>1, <3>1, <5>1
        <5> QED BY <2>3, <5>1, <5>2 DEF Renewed
      <4> QED BY <4>1
    <3> QED BY <3>2, <3>3 DEF Within
  <2> QED BY <2>1, <2>2, <2>3
<1>3. ASSUME NEW r \in Regions PROVE KeepsPromise(r)
  <2>1. Todo(r)' = Todo(r) BY <1>2 DEF Todo
  <2> QED BY <1>1, <1>2, <2>1, KeepsStill
<1> QED BY <1>2, <1>3

LEMMA PoolInitKeepsLoops ==
  ASSUME IInv, RInv, NEW t \in Threads, PoolInit(t)
  PROVE  LoopsKept
<1> DEFINE f == Frame("top")
<1>1. /\ alive' = alive \cup team' /\ job' = job /\ started' = started
      /\ stack' = [u \in Threads |-> IF u \in team' THEN <<f>> ELSE stack[u]]
  BY DEF PoolInit, pool
<1>2. team' \subseteq Unborn
  <2>1. PICK size \in mode.teams : Teams(size) # {} /\ team' = Created(size) BY DEF PoolInit
  <2>2. team' \in Teams(size) BY <2>1 DEF Created
  <2> QED BY <2>2 DEF Teams
<1>3. \A w \in team' : w \in Workers /\ stack[w] = <<Frame("absent")>>
  BY <1>2 DEF Unborn
<1>4. f.place = "top" /\ f.n = 0 /\ f.region = NoRegion BY DEF Frame
<1>5. Frame("absent").place = "absent" /\ Frame("absent").n = 0 BY DEF Frame
<1> HIDE DEF f
<1>6. \A u \in Threads : stack'[u] = IF u \in team' THEN <<f>> ELSE stack[u] BY <1>1
<1>7. ASSUME NEW u \in team' PROVE Renewed(u) /\ stack'[u][1] = f
  <2>1. u \in Threads /\ stack'[u] = <<f>> /\ stack[u] = <<Frame("absent")>>
    BY <1>3, <1>6 DEF Threads
  <2>2. Depth(u) = 1 /\ Depth(u)' = 1 /\ stack'[u][1] = f /\ stack[u][1] = Frame("absent")
    BY <2>1 DEF Depth
  <2> QED BY <1>3, <1>4, <1>5, <2>2 DEF Renewed, InItem
<1>8. \A r \in Regions : KeepsPromise(r) /\ Within(r)' = Within(r)
  <2>1. \A u \in Threads : stack'[u] = stack[u] \/ Renewed(u) BY <1>6, <1>7
  <2> QED BY <1>1, <2>1, SameRegions
<1>9. ItemsBegun'
  <2>1. ASSUME NEW u \in Threads, u \in alive', NEW d \in 1..Depth(u)'
        PROVE  BegunBy(started[<<u, d>>], job, stack'[u][d])
    <3>1. CASE u \in team'
      <4>1. Depth(u)' = 1 /\ stack'[u][1] = f BY <1>7, <3>1 DEF Renewed
      <4>2. d = 1 BY <4>1
      <4> QED BY <1>4, <4>1, <4>2 DEF BegunBy
    <3>2. CASE u \notin team'
      <4>1. u \in alive /\ stack'[u] = stack[u] /\ d \in 1..Depth(u)
        BY <1>1, <1>6, <2>1, <3>2 DEF Depth
      <4> QED BY <4>1 DEF RInv, ItemsBegun
    <3> QED BY <3>1, <3>2
  <2> QED BY <1>1, <2>1 DEF ItemsBegun
<1>10. HelpersElsewhere'
  <2>1. \A r \in Regions : Within(r) => r[2] <= Len(stack'[r[1]]) /\ stack'[r[1]][r[2]].n > 0
    BY <1>8 DEF Within, Depth
  <2>2. ASSUME NEW w \in Workers, NEW r, r = stack'[w][1].region, r # NoRegion
        PROVE  /\ r \in Regions /\ r[1] # w /\ (r[1] \in alive' => w \in alive')
               /\ r[2] <= Len(stack'[r[1]]) /\ stack'[r[1]][r[2]].n > 0
    <3>1. w \in Threads /\ w \notin team' BY <1>4, <1>7, <2>2 DEF Threads
    <3>2. stack'[w] = stack[w] BY <1>6, <3>1
    <3>3. Elsewhere(w, r) BY <2>2, <3>2 DEF RInv, HelpersElsewhere
    <3>4. r \in Regions /\ r[1] # w /\ Within(r) /\ (r[1] \in alive => w \in alive)
      BY <2>2, <3>3 DEF Elsewhere
    <3>5. r[1] \notin team'
      <4>1. ASSUME r[1] \in team' PROVE FALSE
        <5>1. Depth(r[1]) = 1 /\ stack[r[1]][1].n = 0 BY <1>7, <4>1 DEF Renewed
        <5>2. r[2] \in Nat \ {0} /\ r[2] <= 1 /\ stack[r[1]][r[2]].n > 0
          BY <3>4, <5>1, RegionNames DEF Within
        <5>3. r[2] = 1 BY <5>2
        <5> QED BY <5>1, <5>2, <5>3
      <4> QED BY <4>1
    <3> QED BY <1>1, <2>1, <3>4, <3>5
  <2> QED BY <2>2 DEF HelpersElsewhere, Elsewhere, Within, Depth
<1> QED BY <1>8, <1>9, <1>10 DEF LoopsKept, RInv

LEMMA ForkKeepsLoops ==
  ASSUME IInv, RInv, NEW s \in Submitters, Fork(s)
  PROVE  LoopsKept
<1>0. s \in Threads BY DEF Threads
<1>1. Top(s).place = "idle" /\ alive' = {s} /\ stack' = stack /\ started' = started
  BY DEF Fork, At
<1>2. Depth(s) = 1 /\ stack[s][1].n = 0
  <2>1. Depth(s) = 1 /\ Top(s).n = 0 BY <1>0, <1>1, TopTells
  <2> QED BY <2>1 DEF Top
<1>3. \A r \in Regions : KeepsPromise(r) /\ Within(r)' = Within(r) BY <1>1, SameRegions
<1>4. ItemsBegun'
  <2>1. ASSUME NEW u \in Threads, u \in alive', NEW d \in 1..Depth(u)' PROVE stack'[u][d].n = 0
    <3>1. u = s /\ Depth(u)' = 1 BY <1>1, <1>2, <2>1 DEF Depth
    <3>2. d = 1 BY <3>1
    <3> QED BY <1>1, <1>2, <3>1, <3>2
  <2> QED BY <2>1 DEF ItemsBegun, BegunBy
<1>5. HelpersElsewhere'
  <2>1. ASSUME NEW w \in Workers, NEW r, r = stack'[w][1].region, r # NoRegion
        PROVE  /\ r \in Regions /\ r[1] # w /\ r[1] \notin alive'
               /\ r[2] <= Len(stack'[r[1]]) /\ stack'[r[1]][r[2]].n > 0
    <3>1. Elsewhere(w, r) BY <1>1, <2>1 DEF RInv, HelpersElsewhere
    <3>2. r \in Regions /\ r[1] # w /\ Within(r) BY <2>1, <3>1 DEF Elsewhere
    <3>3. r[1] # s
      <4>1. ASSUME r[1] = s PROVE FALSE
        <5>1. r[2] \in Nat \ {0} /\ r[2] <= 1 /\ stack[s][r[2]].n > 0
          BY <1>2, <3>2, <4>1, RegionNames DEF Within
        <5>2. r[2] = 1 BY <5>1
        <5> QED BY <1>2, <5>1, <5>2
      <4> QED BY <4>1
    <3> QED BY <1>1, <3>2, <3>3 DEF Within, Depth
  <2> QED BY <2>1 DEF HelpersElsewhere, Elsewhere, Within, Depth
<1> QED BY <1>3, <1>4, <1>5 DEF LoopsKept, RInv

LEMMA StutterKeepsLoops ==
  ASSUME IInv, RInv, UNCHANGED vars
  PROVE  LoopsKept
<1>1. alive' = alive /\ stack' = stack /\ started' = started /\ job' = job BY DEF vars
<1>2. \A r \in Regions : KeepsPromise(r) /\ Within(r)' = Within(r) BY <1>1, SameRegions
<1>3. RInv'
  BY <1>1 DEF RInv, ItemsBegun, HelpersElsewhere, Elsewhere, Within, Depth
<1> QED BY <1>2, <1>3 DEF LoopsKept
-----------------------------------------------------------------------------
(* The theorem.                                                            *)

LEMMA InitKeepsLoops == Init => RInv /\ \A r \in Regions : Promise(r)!Init
<1> SUFFICES ASSUME Init PROVE RInv /\ \A r \in Regions : Promise(r)!Init OBVIOUS
<1> DEFINE place(t) == IF t \in Workers THEN "absent" ELSE "idle"
<1>1. stack = [t \in Threads |-> <<Frame(place(t))>>]
  BY DEF Init
<1>2. \A t \in Threads : Frame(place(t)).n = 0 /\ Frame(place(t)).region = NoRegion
                         /\ Frame(place(t)).place \notin InItem
  BY DEF Frame, InItem
<1> HIDE DEF place
<1>3. \A t \in Threads : Depth(t) = 1 /\ stack[t][1] = Frame(place(t)) BY <1>1 DEF Depth
<1>4. ASSUME NEW t \in Threads, NEW d \in 1..Depth(t)
      PROVE  /\ stack[t][d].n = 0 /\ stack[t][d].region = NoRegion
             /\ stack[t][d].place \notin InItem
  <2>1. Depth(t) = 1 BY <1>3
  <2>2. d = 1 BY <2>1
  <2> QED BY <1>2, <1>3, <2>2
<1>5. ItemsBegun BY <1>4 DEF ItemsBegun, BegunBy
<1>6. HelpersElsewhere
  <2>1. ASSUME NEW w \in Workers PROVE stack[w][1].region = NoRegion
    <3>1. w \in Threads BY DEF Threads
    <3> QED BY <1>2, <1>3, <3>1
  <2> QED BY <2>1 DEF HelpersElsewhere, Elsewhere
<1>7. ASSUME NEW r \in Regions PROVE Promise(r)!Init
  <2>1. r[1] \in Threads /\ r[2] \in Nat \ {0} BY RegionNames
  <2>2. ~Within(r)
    <3>1. ASSUME Within(r) PROVE FALSE
      <4>1. r[2] <= 1 /\ stack[r[1]][r[2]].n > 0 BY <1>3, <2>1, <3>1 DEF Within
      <4>2. r[2] = 1 BY <2>1, <4>1
      <4> QED BY <1>2, <1>3, <2>1, <4>1, <4>2
    <3> QED BY <3>1
  <2>3. \A t \in Threads : Running(t, r) = {} BY <1>4 DEF Running, InItem
  <2>4. Doing(r) = [t \in Threads |-> {}] BY <2>3 DEF Doing
  <2> QED BY <2>2, <2>4 DEF Promise!Init, Promise!NobodyRuns
<1> QED BY <1>5, <1>6, <1>7 DEF RInv

LEMMA NextKeepsLoops == IInv /\ RInv /\ [Next]_vars => LoopsKept
<1> SUFFICES ASSUME IInv, RInv, [Next]_vars PROVE LoopsKept OBVIOUS
<1>1. ASSUME NEW t \in Threads, Submit(t) PROVE LoopsKept
  BY <1>1, CallKeepsLoops, PoolInitKeepsLoops, NoSlotKeepsLoops, FillKeepsLoops, PostKeepsLoops,
     FetchKeepsLoops, FinishKeepsLoops, RunNextKeepsLoops, FinishInlineKeepsLoops,
     AnnounceKeepsLoops, SettleKeepsLoops, AwaitHelpersKeepsLoops DEF Submit
<1>2. ASSUME NEW t \in Threads, Nest(t) PROVE LoopsKept
  BY <1>2, NestKeepsLoops
<1>3. ASSUME NEW t \in Threads, SpuriousWakeup(t) PROVE LoopsKept
  BY <1>3, SpuriousWakeupKeepsLoops
<1>4. ASSUME NEW w \in Workers, Help(w) PROVE LoopsKept
  BY <1>4, SearchKeepsLoops, ScanKeepsLoops, PickKeepsLoops, LeaveKeepsLoops, NotifyKeepsLoops
  DEF Help
<1>5. ASSUME NEW s \in Submitters, Dispatch(s) \/ Fork(s) PROVE LoopsKept
  BY <1>5, DispatchKeepsLoops, ForkKeepsLoops
<1>6. CASE UNCHANGED vars
  BY <1>6, StutterKeepsLoops
<1> QED BY <1>1, <1>2, <1>3, <1>4, <1>5, <1>6 DEF Next

\* To a caller mynah_parallel_for() is a loop, also inside another: each item
\* of a region is begun once, by one thread that runs it to its end, and the
\* call returns when all have been run, whoever helps, joins late, finds no
\* slot, runs it inline or forks.
THEOREM PoolIsALoop == Spec => ImplementsRegion
<1>1. Init => \A r \in Regions : Promise(r)!Init BY InitKeepsLoops
<1>2. Init => RInv BY InitKeepsLoops
<1>3. IInv /\ RInv /\ [Next]_vars => RInv' BY NextKeepsLoops DEF LoopsKept
<1>4. IInv /\ RInv /\ [Next]_vars
        => [\A r \in Regions : [Promise(r)!Next]_(Promise(r)!vars)]_vars
  BY NextKeepsLoops DEF LoopsKept, KeepsPromise
<1> QED BY <1>1, <1>2, <1>3, <1>4, PoolInvariant, PTL DEF Spec, ImplementsRegion
==============================================================================
