----------------------------- MODULE StreamOut -----------------------------
(***************************************************************************)
(* One streaming response: server/stream_out.c and the part of server/     *)
(* main.c that feeds it (stream_callback, sink_cancelled, sink_on_done).   *)
(*                                                                         *)
(* The scheduler thread copies audio into a byte ring under a mutex and    *)
(* never waits for the socket; a detached writer thread per stream sends   *)
(* the ring's readable span without the mutex, and hands it back when all  *)
(* of it has been sent.  A critical section is one action; so is one       *)
(* send().  A sample is a number, its position in the stream.              *)
(***************************************************************************)
EXTENDS Integers, Sequences

CONSTANTS
  Streams,
  Cap,                \* samples the ring holds
  ChunkSizes,         \* samples in a chunk the driver emits
  CancelOnDisconnect, \* the server's --cancel-on-disconnect
  PeerMay,            \* what a client may do besides reading: "stalls", "gone"
  AllocMayFail,       \* whether memory may run out
  MaxSamples          \* bound: samples the driver produces for one stream

ASSUME StreamAssumption ==
  /\ Cap \in Nat \ {0}
  /\ ChunkSizes \subseteq Nat \ {0}
  /\ CancelOnDisconnect \in BOOLEAN /\ AllocMayFail \in BOOLEAN
  /\ PeerMay \subseteq {"stalls", "gone"}
  /\ MaxSamples \in Nat

VARIABLES
  \* the socket
  peer,         \* what the client does: "reads", "stalls" or is "gone"
  wire,         \* samples sent to it
  term,         \* the terminating empty chunk was sent
  fd,           \* "caller", "stream" or "closed"
  \* struct stream_out, under its mutex
  ring, head, queued,
  producerDone,
  failed,
  err,          \* failure_errno
  refs,         \* 2 while producer and writer are at it; 0 is freed
  \* the writer thread
  writer,       \* where it is
  span,         \* samples of the span it is sending
  sent,         \* of these, already sent
  \* the scheduler thread's side
  phase,        \* of the request
  produced,     \* samples the driver has produced
  reason,       \* why the request ended
  \* history
  accepted,     \* samples the ring took
  refused       \* some chunk of the stream was refused

socket == <<peer, wire, term, fd>>
ringVars == <<ring, head, queued>>
flags == <<producerDone, failed, err>>
writerVars == <<writer, span, sent>>
sinkVars == <<phase, produced, reason>>
history == <<accepted, refused>>
vars == <<socket, ringVars, flags, refs, writerVars, sinkVars, history>>

Errors == {"none", "overflow", "timeout", "hangup", "nomem"}
WriterStates == {"none", "header", "loop", "asleep", "send", "ended",
                 "terminate", "close", "release", "gone"}
Phases == {"new", "running", "polled", "stopping", "finished", "released", "rejected"}
Ends == {"none", "ok", "failed", "expired", "peer_gone", "cancelled"}

TypeOK ==
  /\ peer \in [Streams -> {"reads", "stalls", "gone"}]
  /\ wire \in [Streams -> Seq(Nat)]
  /\ term \in [Streams -> BOOLEAN]
  /\ fd \in [Streams -> {"caller", "stream", "closed"}]
  /\ ring \in [Streams -> [0..(Cap - 1) -> Nat]]
  /\ head \in [Streams -> 0..(Cap - 1)]
  /\ queued \in [Streams -> 0..Cap]
  /\ producerDone \in [Streams -> BOOLEAN]
  /\ failed \in [Streams -> BOOLEAN]
  /\ err \in [Streams -> Errors]
  /\ refs \in [Streams -> 0..2]
  /\ writer \in [Streams -> WriterStates]
  /\ span \in [Streams -> 0..Cap]
  /\ sent \in [Streams -> 0..Cap]
  /\ phase \in [Streams -> Phases]
  /\ produced \in [Streams -> 0..MaxSamples]
  /\ reason \in [Streams -> Ends]
  /\ accepted \in [Streams -> Seq(Nat)]
  /\ refused \in [Streams -> BOOLEAN]

Init ==
  /\ peer = [s \in Streams |-> "reads"]
  /\ wire = [s \in Streams |-> <<>>]
  /\ term = [s \in Streams |-> FALSE]
  /\ fd = [s \in Streams |-> "caller"]
  /\ ring = [s \in Streams |-> [i \in 0..(Cap - 1) |-> 0]]
  /\ head = [s \in Streams |-> 0]
  /\ queued = [s \in Streams |-> 0]
  /\ producerDone = [s \in Streams |-> FALSE]
  /\ failed = [s \in Streams |-> FALSE]
  /\ err = [s \in Streams |-> "none"]
  /\ refs = [s \in Streams |-> 0]
  /\ writer = [s \in Streams |-> "none"]
  /\ span = [s \in Streams |-> 0]
  /\ sent = [s \in Streams |-> 0]
  /\ phase = [s \in Streams |-> "new"]
  /\ produced = [s \in Streams |-> 0]
  /\ reason = [s \in Streams |-> "none"]
  /\ accepted = [s \in Streams |-> <<>>]
  /\ refused = [s \in Streams |-> FALSE]

-----------------------------------------------------------------------------
(* What the threads share.                                                 *)

\* a condition variable's waiter runs again
Woken(s) == [writer EXCEPT ![s] = IF @ = "asleep" THEN "loop" ELSE @]

\* mark_failed_locked(): the first error is the one that is kept
MarkFailed(s, e) ==
  /\ failed' = [failed EXCEPT ![s] = TRUE]
  /\ err' = [err EXCEPT ![s] = IF failed[s] THEN @ ELSE e]
  /\ producerDone' = [producerDone EXCEPT ![s] = TRUE]

\* ... when it is not the writer that marks it
Abandon(s, e) == MarkFailed(s, e) /\ writer' = Woken(s)

Positions(from, n) == [i \in 1..n |-> from + i]

\* bug: one sample more than the ring holds is taken
FitsAlmost(s, n) == n <= Cap - queued[s] + 1

Fits(s, n) == n <= Cap - queued[s]

\* stream_out_enqueue(), which takes a chunk, or refuses it because the stream
\* is over, or because the client is too slow, or out of memory
Take(s, chunk) ==
  LET n == Len(chunk)
      tail == (head[s] + queued[s]) % Cap
      nth(i) == ((i - tail) + Cap) % Cap    \* cell i is the nth one past the tail
  IN  /\ ~failed[s] /\ ~producerDone[s] /\ Fits(s, n)
      /\ ring' = [ring EXCEPT ![s] = [i \in 0..(Cap - 1) |->
                    IF nth(i) < n THEN chunk[nth(i) + 1] ELSE @[i]]]
      /\ queued' = [queued EXCEPT ![s] = @ + n]
      /\ accepted' = [accepted EXCEPT ![s] = @ \o chunk]
      /\ writer' = Woken(s)
      /\ UNCHANGED <<head, flags, refused>>

RefuseChunk(s, chunk) ==
  /\ refused' = [refused EXCEPT ![s] = TRUE]
  /\ \/ /\ failed[s] \/ producerDone[s]
        /\ UNCHANGED <<flags, writer>>
     \/ /\ ~failed[s] /\ ~producerDone[s] /\ ~Fits(s, Len(chunk))
        /\ Abandon(s, "overflow")
     \/ AllocMayFail /\ Abandon(s, "nomem")
  /\ UNCHANGED <<ringVars, accepted>>

\* bug: the waiting writer is not told
FinishQuietly(s) ==
  /\ producerDone' = [producerDone EXCEPT ![s] = TRUE]
  /\ writer' = writer
  /\ UNCHANGED <<failed, err>>

\* stream_out_finish()
FinishStream(s) ==
  /\ producerDone' = [producerDone EXCEPT ![s] = TRUE]
  /\ writer' = Woken(s)
  /\ UNCHANGED <<failed, err>>

\* stream_out_release(): the last one out frees the stream
Unreference(s) == refs' = [refs EXCEPT ![s] = @ - 1]
-----------------------------------------------------------------------------
(* The scheduler thread: the driver's callbacks for one request.           *)

\* bug: the writer's own reference is not counted
StartWithOne(s) ==
  /\ phase[s] = "new" /\ phase' = [phase EXCEPT ![s] = "running"]
  /\ fd' = [fd EXCEPT ![s] = "stream"]
  /\ refs' = [refs EXCEPT ![s] = 1]
  /\ writer' = [writer EXCEPT ![s] = "header"]
  /\ UNCHANGED <<peer, wire, term, ringVars, flags, span, sent, produced, reason, history>>

\* stream_out_start(), at admission
Start(s) ==
  /\ phase[s] = "new" /\ phase' = [phase EXCEPT ![s] = "running"]
  /\ fd' = [fd EXCEPT ![s] = "stream"]
  /\ refs' = [refs EXCEPT ![s] = 2]
  /\ writer' = [writer EXCEPT ![s] = "header"]
  /\ UNCHANGED <<peer, wire, term, ringVars, flags, span, sent, produced, reason, history>>

\* no memory or no thread: the descriptor goes back, and the caller closes it
StartFails(s) ==
  /\ phase[s] = "new" /\ phase' = [phase EXCEPT ![s] = "rejected"]
  /\ fd' = [fd EXCEPT ![s] = "closed"]
  /\ UNCHANGED <<peer, wire, term, ringVars, flags, refs, writerVars, produced,
                 reason, history>>

Stopping(s, why) ==
  /\ phase' = [phase EXCEPT ![s] = "stopping"]
  /\ reason' = [reason EXCEPT ![s] = why]

\* stream_callback() past the request's deadline
Expire(s) ==
  /\ phase[s] = "running" /\ Stopping(s, "expired")
  /\ UNCHANGED <<socket, ringVars, flags, refs, writerVars, produced, history>>

\* stream_callback(): a chunk, handed straight to the ring
Chunk(s, n) ==
  LET chunk == Positions(produced[s], n) IN
  /\ phase[s] = "running" /\ produced[s] + n <= MaxSamples
  /\ produced' = [produced EXCEPT ![s] = @ + n]
  /\ \/ Take(s, chunk) /\ UNCHANGED <<phase, reason>>
     \/ RefuseChunk(s, chunk) /\ Stopping(s, "cancelled")
  /\ UNCHANGED <<socket, refs, span, sent>>

\* bug: any failure is taken for a hangup
AnyFailureIsHangup(s) == TRUE

FailureIsHangup(s) == err[s] = "hangup"

\* sink_cancelled(): first, has the client hung up?  stream_out_peer_gone() asks
\* the socket, or, when the stream has failed already, what it failed of ...
PeerGone(s) ==
  /\ Stopping(s, "peer_gone")
  /\ \/ /\ IF failed[s] THEN FailureIsHangup(s) ELSE fd[s] = "closed"
        /\ UNCHANGED <<flags, writer>>
     \/ /\ ~failed[s] /\ fd[s] = "stream" /\ peer[s] = "gone"
        /\ Abandon(s, "hangup")

\* (a hangup that has not arrived yet is not seen)
PeerStays(s) ==
  /\ IF failed[s] THEN ~FailureIsHangup(s) ELSE fd[s] = "stream"
  /\ phase' = [phase EXCEPT ![s] = "polled"]
  /\ UNCHANGED <<reason, flags, writer>>

PollPeer(s) ==
  /\ phase[s] = "running" /\ CancelOnDisconnect
  /\ PeerGone(s) \/ PeerStays(s)
  /\ UNCHANGED <<socket, ringVars, refs, span, sent, produced, history>>

\* ... then, has the stream failed in another way?
CheckFailed(s) ==
  /\ phase[s] = IF CancelOnDisconnect THEN "polled" ELSE "running"
  /\ \/ failed[s] /\ Stopping(s, "cancelled")
     \/ /\ ~failed[s] /\ phase' = [phase EXCEPT ![s] = "running"]
        /\ reason' = reason
  /\ UNCHANGED <<socket, ringVars, flags, refs, writerVars, produced, history>>

\* the driver is done with the request, or gives it up
EngineDone(s) ==
  /\ phase[s] = "running"
  /\ \E result \in {"ok", "failed"} : Stopping(s, result)
  /\ UNCHANGED <<socket, ringVars, flags, refs, writerVars, produced, history>>

\* sink_on_done(): whatever the result, the stream is finished and let go
Finish(s) ==
  /\ phase[s] = "stopping" /\ phase' = [phase EXCEPT ![s] = "finished"]
  /\ FinishStream(s)
  /\ UNCHANGED <<socket, ringVars, refs, span, sent, produced, reason, history>>

Release(s) ==
  /\ phase[s] = "finished" /\ phase' = [phase EXCEPT ![s] = "released"]
  /\ Unreference(s)
  /\ UNCHANGED <<socket, ringVars, flags, writerVars, produced, reason, history>>

\* everything but what handing over a chunk and closing the stream may mean
Callbacks(s) ==
  \/ Start(s) \/ StartFails(s) \/ Expire(s) \/ PollPeer(s) \/ CheckFailed(s)
  \/ EngineDone(s)

Sink(s) == Callbacks(s) \/ Finish(s) \/ Release(s) \/ \E n \in ChunkSizes : Chunk(s, n)
-----------------------------------------------------------------------------
(* The writer thread.                                                      *)

Frame == <<peer, sinkVars, accepted, refused>>

\* a send() that fails: the client hung up, or took nothing for too long
SendError(s) == IF peer[s] = "gone" THEN "hangup" ELSE "timeout"

Header(s) ==
  /\ writer[s] = "header" /\ writer' = [writer EXCEPT ![s] = "loop"]
  /\ \/ UNCHANGED flags
     \/ peer[s] # "reads" /\ MarkFailed(s, SendError(s))
  /\ UNCHANGED <<wire, term, fd, ringVars, refs, span, sent, Frame>>

\* the loop's critical section: sleep, leave, or take a span that does not wrap
TakeSpan(s) ==
  LET n == IF queued[s] > Cap - head[s] THEN Cap - head[s] ELSE queued[s] IN
  /\ writer[s] = "loop" /\ ~failed[s] /\ queued[s] > 0
  /\ writer' = [writer EXCEPT ![s] = "send"]
  /\ span' = [span EXCEPT ![s] = n] /\ sent' = [sent EXCEPT ![s] = 0]
  /\ UNCHANGED <<wire, term, fd, ringVars, flags, refs, Frame>>

Sleep(s) ==
  /\ writer[s] = "loop" /\ ~failed[s] /\ queued[s] = 0 /\ ~producerDone[s]
  /\ writer' = [writer EXCEPT ![s] = "asleep"]
  /\ UNCHANGED <<wire, term, fd, ringVars, flags, refs, span, sent, Frame>>

Leave(s) ==
  /\ writer[s] = "loop"
  /\ failed[s] \/ (queued[s] = 0 /\ producerDone[s])
  /\ writer' = [writer EXCEPT ![s] = "ended"]
  /\ UNCHANGED <<wire, term, fd, ringVars, flags, refs, span, sent, Frame>>

\* one send() of the span, straight out of the ring
SendSome(s) ==
  /\ writer[s] = "send" /\ sent[s] < span[s]
  /\ wire' = [wire EXCEPT ![s] = Append(@, ring[s][head[s] + sent[s]])]
  /\ sent' = [sent EXCEPT ![s] = @ + 1]
  /\ UNCHANGED <<term, fd, ringVars, flags, refs, writer, span, Frame>>

SendFails(s) ==
  /\ writer[s] = "send" /\ peer[s] # "reads"
  /\ MarkFailed(s, SendError(s))
  /\ writer' = [writer EXCEPT ![s] = "ended"]
  /\ UNCHANGED <<wire, term, fd, ringVars, refs, span, sent, Frame>>

\* all of it is sent: the span is handed back
Advance(s) ==
  /\ writer[s] = "send" /\ sent[s] = span[s]
  /\ head' = [head EXCEPT ![s] = (@ + span[s]) % Cap]
  /\ queued' = [queued EXCEPT ![s] = @ - span[s]]
  /\ writer' = [writer EXCEPT ![s] = "loop"]
  /\ UNCHANGED <<wire, term, fd, ring, flags, refs, span, sent, Frame>>

\* bug: a stream that failed is terminated like one that did not
DecideBlindly(s) ==
  /\ writer[s] = "ended" /\ writer' = [writer EXCEPT ![s] = "terminate"]
  /\ UNCHANGED <<wire, term, fd, ringVars, flags, refs, span, sent, Frame>>

\* is the end to be marked?  Decided under the mutex, done after it
Decide(s) ==
  /\ writer[s] = "ended"
  /\ writer' = [writer EXCEPT ![s] = IF failed[s] THEN "close" ELSE "terminate"]
  /\ UNCHANGED <<wire, term, fd, ringVars, flags, refs, span, sent, Frame>>

Terminate(s) ==
  /\ writer[s] = "terminate" /\ writer' = [writer EXCEPT ![s] = "close"]
  /\ \/ term' = [term EXCEPT ![s] = TRUE] /\ UNCHANGED flags
     \/ peer[s] # "reads" /\ MarkFailed(s, SendError(s)) /\ term' = term
  /\ UNCHANGED <<wire, fd, ringVars, refs, span, sent, Frame>>

Close(s) ==
  /\ writer[s] = "close" /\ writer' = [writer EXCEPT ![s] = "release"]
  /\ fd' = [fd EXCEPT ![s] = "closed"]
  /\ UNCHANGED <<wire, term, ringVars, flags, refs, span, sent, Frame>>

WriterReleases(s) ==
  /\ writer[s] = "release" /\ writer' = [writer EXCEPT ![s] = "gone"]
  /\ Unreference(s)
  /\ UNCHANGED <<wire, term, fd, ringVars, flags, span, sent, Frame>>

WriterStep(s) ==
  \/ Header(s) \/ TakeSpan(s) \/ Sleep(s) \/ Leave(s) \/ SendSome(s) \/ SendFails(s)
  \/ Advance(s) \/ Decide(s) \/ Terminate(s) \/ Close(s) \/ WriterReleases(s)

\* a wait on a condition variable may return for no reason
SpuriousWakeup(s) ==
  /\ writer[s] = "asleep" /\ writer' = [writer EXCEPT ![s] = "loop"]
  /\ UNCHANGED <<wire, term, fd, ringVars, flags, refs, span, sent, Frame>>

\* the client stops reading, or hangs up
PeerChanges(s) ==
  /\ phase[s] # "rejected" /\ fd[s] = "stream" /\ peer[s] # "gone"
  /\ \E p \in PeerMay \ {peer[s]} : peer' = [peer EXCEPT ![s] = p]
  /\ UNCHANGED <<wire, term, fd, ringVars, flags, refs, writerVars, sinkVars, history>>

Over(s) == phase[s] = "rejected" \/ (phase[s] = "released" /\ writer[s] = "gone")
Terminated == (\A s \in Streams : Over(s)) /\ UNCHANGED vars

Around(s) == WriterStep(s) \/ SpuriousWakeup(s) \/ PeerChanges(s)

Next == (\E s \in Streams : Sink(s) \/ Around(s)) \/ Terminated

Spec == Init /\ [][Next]_vars
-----------------------------------------------------------------------------
(* Safety.                                                                 *)

\* The span the writer reads without the mutex is never one the producer fills,
\* wrapped ring or not: it still holds the samples that come next on the wire.
SpanUntouched ==
  /\ TypeOK
  /\ \A s \in Streams : writer[s] = "send" =>
       \A i \in 0..(span[s] - 1) :
         ring[s][head[s] + i] = accepted[s][Len(wire[s]) - sent[s] + i + 1]

\* No thread is left with a stream that has been freed.
NoUseAfterFree ==
  \A s \in Streams : refs[s] = 0 =>
    /\ writer[s] \in {"none", "gone"}
    /\ phase[s] \notin {"running", "polled", "stopping", "finished"}

\* A slow reader is never counted as a disconnect, whoever discovers it first.
DisconnectIsReal ==
  \A s \in Streams : reason[s] = "peer_gone" => peer[s] = "gone"

\* The stream implements what ByteStream promises.
End == [s \in Streams |-> IF term[s] THEN "complete"
                          ELSE IF writer[s] \in {"release", "gone"} THEN "cut" ELSE "open"]
Promise == INSTANCE ByteStream WITH given <- accepted, got <- wire, end <- End
ImplementsByteStream == Promise!Spec
-----------------------------------------------------------------------------
(* Fairness and liveness.                                                  *)

\* The writer runs; a send() to a client that does not read ends by SO_SNDTIMEO.
WriterFairness == \A s \in Streams : WF_vars(WriterStep(s))

\* The driver ends every request, and then its sink is called.
SinkFairness ==
  \A s \in Streams : /\ WF_vars(Finish(s)) /\ WF_vars(Release(s))
                     /\ WF_vars(CheckFailed(s)) /\ SF_vars(EngineDone(s))

FairSpec == Spec /\ WriterFairness

\* A stream that failed gives its socket back without the driver's help; with
\* it, every stream that started is freed, its socket closed.
EveryStreamEnds ==
  /\ \A s \in Streams : failed[s] ~> fd[s] = "closed"
  /\ SinkFairness => \A s \in Streams :
       phase[s] = "running" ~> (refs[s] = 0 /\ fd[s] = "closed")
-----------------------------------------------------------------------------
(* What a comment says that the code does not do; see the README.          *)

\* sink_on_done(): after a mid-stream failure "the writer truncates the body".
OnlyWholeResponsesEnd == \A s \in Streams : term[s] => reason[s] = "ok"
=============================================================================
