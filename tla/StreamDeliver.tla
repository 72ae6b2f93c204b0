--------------------------- MODULE StreamDeliver ---------------------------
(***************************************************************************)
(* Streaming responses whose chunks are delivered by helper threads        *)
(* (MYNAH_STREAM_DELIVER_THREADS): the lanes of server/stream_out.c put    *)
(* between the scheduler thread and the streams of StreamOut.              *)
(*                                                                         *)
(* A stream is pinned to one lane.  The scheduler copies a chunk into an   *)
(* item, recycled from the lane's spare list or new, and queues it; the    *)
(* helper takes the whole queue at a time and does what the scheduler      *)
(* would have done, the closing of the stream included.                    *)
(***************************************************************************)
EXTENDS StreamOut

CONSTANTS
  Lanes,     \* the number of helpers, g_lane_count
  Items      \* bound: chunk items that malloc() has room for

ASSUME LaneAssumption == Lanes \in Nat \ {0}

VARIABLES
  nextLane,  \* g_next_lane
  laneOf,    \* the lane a stream was given
  queue,     \* what each lane was handed and its helper has not taken yet
  spare,     \* each lane's recycled items, the next to be used first
  content,   \* the chunk in each item
  idle,      \* the lane's flag: its helper is parked
  helper,    \* where each helper is: "top", "parked", "work" or "closing"
  batch,     \* what each helper has taken and not done yet
  spent,     \* items of the batch to be recycled
  sched      \* what the scheduler thread is in the middle of

laneVars == <<nextLane, laneOf, queue, spare, content, idle, helper, batch, spent, sched>>
allVars == <<vars, laneVars>>

NoItem == "none"
ASSUME ItemAssumption == NoItem \notin Items /\ "none" \notin Streams

Busy(at, s, item, chunk) == [at |-> at, stream |-> s, item |-> item, chunk |-> chunk]
Idle == Busy("idle", "none", NoItem, <<>>)
ChunkOf(s, item) == [stream |-> s, item |-> item]
CloseOf(s) == [stream |-> s, item |-> NoItem]

Work == [stream : Streams, item : Items \cup {NoItem}]
LaneType ==
  /\ nextLane \in 0..(Lanes - 1)
  /\ laneOf \in [Streams -> 0..(Lanes - 1)]
  /\ queue \in [0..(Lanes - 1) -> Seq(Work)]
  /\ spare \in [0..(Lanes - 1) -> Seq(Items)]
  /\ content \in [Items -> Seq(Nat)]
  /\ idle \in [0..(Lanes - 1) -> BOOLEAN]
  /\ helper \in [0..(Lanes - 1) -> {"top", "parked", "work", "closing"}]
  /\ batch \in [0..(Lanes - 1) -> Seq(Work)]
  /\ spent \in [0..(Lanes - 1) -> Seq(Items)]
  /\ sched \in [at : {"idle", "fill", "push"}, stream : Streams \cup {"none"},
                item : Items \cup {NoItem}, chunk : Seq(Nat)]

DeliverInit ==
  /\ Init
  /\ nextLane = 0
  /\ laneOf = [s \in Streams |-> 0]
  /\ queue = [l \in 0..(Lanes - 1) |-> <<>>]
  /\ spare = [l \in 0..(Lanes - 1) |-> <<>>]
  /\ content = [i \in Items |-> <<>>]
  /\ idle = [l \in 0..(Lanes - 1) |-> FALSE]
  /\ helper = [l \in 0..(Lanes - 1) |-> "top"]
  /\ batch = [l \in 0..(Lanes - 1) |-> <<>>]
  /\ spent = [l \in 0..(Lanes - 1) |-> <<>>]
  /\ sched = Idle

ItemsIn(s) == {s[i].item : i \in DOMAIN s} \ {NoItem}
Elements(s) == {s[i] : i \in DOMAIN s}

\* items nobody has allocated yet
Unallocated ==
  Items \ UNION {Elements(spare[l]) \cup Elements(spent[l]) \cup ItemsIn(queue[l])
                   \cup ItemsIn(batch[l]) \cup {sched.item} : l \in DOMAIN spare}

-----------------------------------------------------------------------------
(* The scheduler thread.                                                   *)

\* bug: the helper is woken only for the first item of a queue
PushWakingOnEmpty(l, work) ==
  /\ queue' = [queue EXCEPT ![l] = Append(@, work)]
  /\ helper' = [helper EXCEPT ![l] = IF ~idle[l] /\ @ = "parked" THEN "top" ELSE @]

\* an item joins the lane's queue; only a parked helper is woken
Push(l, work) ==
  /\ queue' = [queue EXCEPT ![l] = Append(@, work)]
  /\ helper' = [helper EXCEPT ![l] = IF idle[l] /\ @ = "parked" THEN "top" ELSE @]

\* stream_out_deliver_pick_lane(): round robin
After(lane) == (lane + 1) % Lanes

\* the callbacks that do not deliver; a stream that starts is given its lane
DeliverCallbacks(s) ==
  /\ sched = Idle /\ Callbacks(s)
  /\ IF Start(s)
     THEN laneOf' = [laneOf EXCEPT ![s] = nextLane] /\ nextLane' = After(nextLane)
     ELSE UNCHANGED <<laneOf, nextLane>>
  /\ UNCHANGED <<queue, spare, content, idle, helper, batch, spent, sched>>

\* stream_out_deliver(): a stream known to be dead refuses the chunk at once; a
\* stale flag only costs the copy.  Else an item is taken from the spare list
DeliverRefused(s, n) ==
  /\ sched = Idle /\ phase[s] = "running" /\ produced[s] + n <= MaxSamples
  /\ failed[s]
  /\ produced' = [produced EXCEPT ![s] = @ + n]
  /\ refused' = [refused EXCEPT ![s] = TRUE]
  /\ Stopping(s, "cancelled")
  /\ UNCHANGED <<socket, ringVars, flags, refs, writerVars, accepted, laneVars>>

DeliverTakesItem(s, n) ==
  LET l == laneOf[s] IN
  /\ sched = Idle /\ phase[s] = "running" /\ produced[s] + n <= MaxSamples
  /\ produced' = [produced EXCEPT ![s] = @ + n]
  /\ IF spare[l] = <<>>
     THEN /\ sched' = Busy("fill", s, NoItem, Positions(produced[s], n))
          /\ spare' = spare
     ELSE /\ sched' = Busy("fill", s, Head(spare[l]), Positions(produced[s], n))
          /\ spare' = [spare EXCEPT ![l] = Tail(@)]
  /\ UNCHANGED <<socket, ringVars, flags, refs, writerVars, phase, reason, history,
                 nextLane, laneOf, queue, content, idle, helper, batch, spent>>

\* ... or allocated, and the chunk is copied into it
DeliverFills ==
  /\ sched.at = "fill"
  /\ \E i \in IF sched.item = NoItem THEN Unallocated ELSE {sched.item} :
       /\ content' = [content EXCEPT ![i] = sched.chunk]
       /\ sched' = Busy("push", sched.stream, i, <<>>)
  /\ UNCHANGED <<vars, nextLane, laneOf, queue, spare, idle, helper, batch, spent>>

\* out of memory: for the item, or for its samples, and then the item is spare
DeliverFails ==
  LET s == sched.stream  l == laneOf[s] IN
  /\ sched.at = "fill" /\ sched' = Idle
  /\ \/ /\ sched.item = NoItem /\ (AllocMayFail \/ Unallocated = {})
        /\ spare' = spare
     \/ /\ AllocMayFail
        /\ \E i \in IF sched.item = NoItem THEN Unallocated ELSE {sched.item} :
             spare' = [spare EXCEPT ![l] = <<i>> \o @]
  /\ refused' = [refused EXCEPT ![s] = TRUE]
  /\ Abandon(s, "nomem")
  /\ Stopping(s, "cancelled")
  /\ UNCHANGED <<socket, ringVars, refs, span, sent, produced, accepted,
                 nextLane, laneOf, queue, content, idle, helper, batch, spent>>

DeliverPushes ==
  LET s == sched.stream IN
  /\ sched.at = "push" /\ sched' = Idle
  /\ Push(laneOf[s], ChunkOf(s, sched.item))
  /\ UNCHANGED <<vars, nextLane, laneOf, spare, content, idle, batch, spent>>

\* stream_out_deliver_close(), from sink_on_done(); bug: past the lane
CloseDirectly(s) ==
  /\ sched = Idle /\ phase[s] = "stopping"
  /\ phase' = [phase EXCEPT ![s] = "released"]
  /\ FinishStream(s) /\ Unreference(s)
  /\ UNCHANGED <<socket, ringVars, span, sent, produced, reason, history, laneVars>>

\* stream_out_deliver_close(), from sink_on_done(): the end queues up too
DeliverClose(s) ==
  /\ sched = Idle /\ phase[s] = "stopping"
  /\ phase' = [phase EXCEPT ![s] = "released"]
  /\ Push(laneOf[s], CloseOf(s))
  /\ UNCHANGED <<socket, ringVars, flags, refs, writerVars, produced, reason, history,
                 nextLane, laneOf, spare, content, idle, batch, spent, sched>>

SchedulerStep ==
  \/ \E s \in Streams : \/ DeliverCallbacks(s) \/ DeliverClose(s)
                        \/ \E n \in ChunkSizes : DeliverRefused(s, n) \/ DeliverTakesItem(s, n)
  \/ DeliverFills \/ DeliverFails \/ DeliverPushes
-----------------------------------------------------------------------------
(* A helper thread.                                                        *)

\* bug: the items go back to the spare list before the batch is done
HelperRecyclesFirst(l) ==
  /\ helper[l] = "top" /\ queue[l] # <<>>
  /\ helper' = [helper EXCEPT ![l] = "work"] /\ idle' = [idle EXCEPT ![l] = FALSE]
  /\ batch' = [batch EXCEPT ![l] = queue[l]] /\ queue' = [queue EXCEPT ![l] = <<>>]
  /\ spare' = [spare EXCEPT ![l] =
       [i \in 1..Len(SelectSeq(queue[l], LAMBDA w : w.item # NoItem)) |->
          SelectSeq(queue[l], LAMBDA w : w.item # NoItem)[i].item] \o @]
  /\ spent' = [spent EXCEPT ![l] = <<>>]
  /\ UNCHANGED <<vars, nextLane, laneOf, content, sched>>

\* the loop's critical section: recycle, then take the queue or park
HelperTakes(l) ==
  /\ helper[l] = "top" /\ queue[l] # <<>>
  /\ helper' = [helper EXCEPT ![l] = "work"] /\ idle' = [idle EXCEPT ![l] = FALSE]
  /\ batch' = [batch EXCEPT ![l] = queue[l]] /\ queue' = [queue EXCEPT ![l] = <<>>]
  /\ spare' = [spare EXCEPT ![l] = spent[l] \o @]
  /\ spent' = [spent EXCEPT ![l] = <<>>]
  /\ UNCHANGED <<vars, nextLane, laneOf, content, sched>>

HelperParks(l) ==
  /\ helper[l] = "top" /\ queue[l] = <<>>
  /\ helper' = [helper EXCEPT ![l] = "parked"] /\ idle' = [idle EXCEPT ![l] = TRUE]
  /\ spare' = [spare EXCEPT ![l] = spent[l] \o @]
  /\ spent' = [spent EXCEPT ![l] = <<>>]
  /\ UNCHANGED <<vars, nextLane, laneOf, queue, content, batch, sched>>

HelperWakes(l) ==
  /\ helper[l] = "parked" /\ helper' = [helper EXCEPT ![l] = "top"]
  /\ UNCHANGED <<vars, nextLane, laneOf, queue, spare, content, idle, batch, spent, sched>>

\* a chunk of the batch: the enqueue the scheduler did not do
HelperChunk(l) ==
  LET w == Head(batch[l]) IN
  /\ helper[l] = "work" /\ batch[l] # <<>> /\ w.item # NoItem
  /\ Take(w.stream, content[w.item]) \/ RefuseChunk(w.stream, content[w.item])
  /\ batch' = [batch EXCEPT ![l] = Tail(@)]
  /\ spent' = [spent EXCEPT ![l] = Append(@, w.item)]
  /\ UNCHANGED <<socket, refs, span, sent, sinkVars,
                 nextLane, laneOf, queue, spare, content, idle, helper, sched>>

\* a close: finish, then release, the second of which may free the item itself
HelperFinishes(l) ==
  LET w == Head(batch[l]) IN
  /\ helper[l] = "work" /\ batch[l] # <<>> /\ w.item = NoItem
  /\ helper' = [helper EXCEPT ![l] = "closing"]
  /\ FinishStream(w.stream)
  /\ UNCHANGED <<socket, ringVars, refs, span, sent, sinkVars, history,
                 nextLane, laneOf, queue, spare, content, idle, batch, spent, sched>>

HelperReleases(l) ==
  /\ helper[l] = "closing" /\ helper' = [helper EXCEPT ![l] = "work"]
  /\ Unreference(Head(batch[l]).stream)
  /\ batch' = [batch EXCEPT ![l] = Tail(@)]
  /\ UNCHANGED <<socket, ringVars, flags, writerVars, sinkVars, history,
                 nextLane, laneOf, queue, spare, content, idle, spent, sched>>

HelperDone(l) ==
  /\ helper[l] = "work" /\ batch[l] = <<>>
  /\ helper' = [helper EXCEPT ![l] = "top"]
  /\ UNCHANGED <<vars, nextLane, laneOf, queue, spare, content, idle, batch, spent, sched>>

HelperStep(l) ==
  \/ HelperTakes(l) \/ HelperParks(l) \/ HelperChunk(l) \/ HelperFinishes(l)
  \/ HelperReleases(l) \/ HelperDone(l)

DeliverOver ==
  /\ \A s \in Streams : Over(s)
  /\ \A l \in DOMAIN queue : queue[l] = <<>> /\ batch[l] = <<>>
  /\ UNCHANGED allVars

DeliverNext ==
  \/ SchedulerStep
  \/ \E l \in DOMAIN queue : HelperStep(l) \/ HelperWakes(l)
  \/ (\E s \in Streams : Around(s)) /\ UNCHANGED laneVars
  \/ DeliverOver

DeliverSpec == DeliverInit /\ [][DeliverNext]_allVars
-----------------------------------------------------------------------------
(* Safety, besides what StreamOut states of every stream.                  *)

\* A stream's chunks reach its ring in the order they were produced, whatever
\* shares its lane and however items are recycled; and the end of a stream never
\* overtakes a chunk of it, so only a stream that failed refuses one.
InOrder ==
  /\ LaneType
  /\ \A s \in Streams : \A i \in DOMAIN accepted[s] : accepted[s][i] = i
  /\ \A s \in Streams : refused[s] => failed[s]

\* A queued item, or a close, keeps its stream alive until its helper is done.
QueuedKeepsAlive ==
  \A l \in DOMAIN queue : \A i \in DOMAIN queue[l] \cup DOMAIN batch[l] :
    /\ i \in DOMAIN queue[l] => refs[queue[l][i].stream] > 0
    /\ i \in DOMAIN batch[l] => refs[batch[l][i].stream] > 0

\* A helper never sleeps on work: only a push to a parked one signals, so the
\* flag that says it is parked must be right whenever it is.
NoWorkAsleep == \A l \in DOMAIN queue : helper[l] = "parked" => queue[l] = <<>>
=============================================================================
