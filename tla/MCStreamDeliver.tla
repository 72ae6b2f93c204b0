-------------------------- MODULE MCStreamDeliver --------------------------
(* Two streams that share one helper, for TLC.                             *)
EXTENDS StreamDeliver, TLC

CONSTANTS s1, s2, i1, i2

Symmetric == Permutations(Streams) \cup Permutations(Items)

\* Everything but what no action reads any more: why a stream ended or failed
\* (PollPeer reads it, which CancelOnDisconnect = FALSE disables), the content of
\* a spare item, a span that is not being sent, and an empty ring's cells.
InUse == {sched.item} \cup UNION {ItemsIn(queue[l]) \cup ItemsIn(batch[l]) : l \in DOMAIN queue}
View == <<socket, head, queued, producerDone, failed, refs, writer, phase, produced, history,
          nextLane, laneOf, queue, spare, idle, helper, batch, spent, sched,
          [i \in Items |-> IF i \in InUse THEN content[i] ELSE <<>>],
          [s \in Streams |-> IF writer[s] = "send" THEN <<span[s], sent[s]>> ELSE <<>>],
          [s \in Streams |-> IF queued[s] = 0 THEN <<>> ELSE ring[s]]>>
=============================================================================
