----------------------------- MODULE SynthJobs -----------------------------
(***************************************************************************)
(* One serving process (server/main.c): the connections it is given, the   *)
(* HTTP workers that parse them, the synthesis jobs they queue, the one    *)
(* scheduler thread that serves the queue through the driver's four        *)
(* callbacks, the stream writers, and the shutdown that unwinds them all.  *)
(*                                                                         *)
(* A job is shared by a worker and the scheduler and counts its            *)
(* references; it owns the client's descriptor, which leaves it once, by   *)
(* an atomic claim.  The writer of a stream is StreamOut seen from         *)
(* outside: it may fail, and it closes the socket it was given.  The       *)
(* engine is external: a request in a slot ends or fails.                  *)
(***************************************************************************)
EXTENDS Naturals, Sequences, FiniteSets

CONSTANTS
  Conns,         \* bound: connections that arrive
  WarmUps,       \* synthetic start-up jobs, with no client behind them: at most one
  Workers,       \* the HTTP worker threads, g.worker_count
  ParkCap,       \* CONN_QUEUE_CAP
  MaxPending,    \* g.max_pending, the synthesis queue
  MaxActive,     \* g.max_active, resident requests
  HasDeadline,   \* --request-timeout-ms is not 0
  StartMayFail,  \* stream_out_start() may return NULL
  EngineMayFail  \* the driver may find it cannot serve this model

ASSUME JobAssumption ==
  /\ Conns \cap WarmUps = {} /\ "nobody" \notin Conns \cup WarmUps
  /\ \A c, d \in WarmUps : c = d    \* warmup_run() is called once
  /\ ParkCap \in Nat /\ MaxPending \in Nat /\ MaxActive \in Nat \ {0}
  /\ HasDeadline \in BOOLEAN /\ StartMayFail \in BOOLEAN /\ EngineMayFail \in BOOLEAN

VARIABLES
  conn,      \* each connection: its descriptor, its answer, its reports to the router
  parked,    \* g_queue.fds: descriptors waiting for a worker
  shut,      \* g_queue.shutdown
  worker,    \* where each worker is, and with whose connection
  job,       \* the job built for a connection, or for a warm-up: `sound` when it
             \* has samples, `error` when its result is not 0
  stream,    \* the stream_out of a streaming job and its writer thread
  pending,   \* g_batch's list
  stop,      \* g_batch.stop
  stopping,  \* g_batch.stopping
  sched,     \* where the scheduler thread is
  slot,      \* what has become of each request in the driver
  main       \* where the main thread is

vars == <<conn, parked, shut, worker, job, stream, pending, stop, stopping, sched, slot, main>>

Requests == Conns \cup WarmUps
Nobody == "nobody"
Kinds == {"batch", "stream"}
Finished == {"ended", "failed", "expired", "cancelled"}

\* the answers: 200 with the sound, or with none in it; a stream's header; errors
Replies == {"200", "empty", "stream", "500", "503", "504", "other"}

TypeOK ==
  /\ conn \in [Requests -> [sock : {"away", "open", "closed", "twice"},
                            reply : Replies \cup {"none", "garbled"},
                            reported : 0..2]]
  /\ parked \in Seq(Conns) /\ Len(parked) <= ParkCap
  /\ shut \in BOOLEAN
  /\ worker \in [Workers -> [at : {"idle", "parsing", "submit", "wait", "late", "answer",
                                   "release", "gone"},
                             conn : Conns \cup {Nobody}]]
  /\ job \in [Requests -> [kind : Kinds \cup {"none"}, refs : 0..2, claimed : BOOLEAN,
                           late : BOOLEAN, gaveUp : BOOLEAN, done : BOOLEAN,
                           sound : BOOLEAN, error : BOOLEAN]]
  /\ stream \in [Requests -> [out : {"none", "open", "failed", "released"},
                              writer : {"none", "writing", "over"}]]
  /\ pending \in Seq(Requests) /\ Len(pending) <= MaxPending
  /\ stop \in BOOLEAN /\ stopping \in BOOLEAN
  /\ sched \in [mode : {"serving", "refusing", "returned", "over"},
                at : {"loop", "took", "publish"}, conn : Requests \cup {Nobody}]
  /\ slot \in [Requests -> {"none", "live"} \cup Finished]
  /\ main \in {"start", "warming", "serving", "joining", "stopping", "draining", "exited"}

NoJob == [kind |-> "none", refs |-> 0, claimed |-> FALSE, late |-> FALSE,
          gaveUp |-> FALSE, done |-> FALSE, sound |-> FALSE, error |-> FALSE]
NewJob(k) == [NoJob EXCEPT !.kind = k, !.refs = 1]

Init ==
  /\ conn = [c \in Requests |-> [sock |-> "away", reply |-> "none", reported |-> 0]]
  /\ parked = <<>> /\ shut = FALSE
  /\ worker = [w \in Workers |-> [at |-> "idle", conn |-> Nobody]]
  /\ job = [c \in Requests |-> NoJob]
  /\ stream = [c \in Requests |-> [out |-> "none", writer |-> "none"]]
  /\ pending = <<>> /\ stop = FALSE /\ stopping = FALSE
  /\ sched \in {[mode |-> m, at |-> "loop", conn |-> Nobody] :
                  m \in {"serving"} \cup (IF EngineMayFail THEN {"refusing"} ELSE {})}
  /\ slot = [c \in Requests |-> "none"]
  /\ main = IF WarmUps = {} THEN "serving" ELSE "start"

-----------------------------------------------------------------------------
(* What is done to a connection: an answer, a close, a report to the       *)
(* router.  A second answer or close would reach whoever has the           *)
(* descriptor's number by then.                                            *)

Answer(cn, status) ==
  [cn EXCEPT !.reply = IF @ = "none" /\ cn.sock = "open" THEN status ELSE "garbled"]
CloseFd(cn) == [cn EXCEPT !.sock = IF @ = "open" THEN "closed" ELSE "twice"]
Report(cn) == [cn EXCEPT !.reported = @ + 1]
ConnClose(cn) == Report(CloseFd(cn))
RespondAndClose(cn, status) == CloseFd(Answer(cn, status))

\* job_release(): the last reference closes what nobody claimed and tells the
\* router, unless no router sent the job
LastReference(c, j, cn) ==
  CASE j.refs # 1 -> cn
    [] j.refs = 1 /\ c \in WarmUps -> cn
    [] j.refs = 1 /\ c \notin WarmUps -> Report(IF j.claimed THEN cn ELSE CloseFd(cn))

JobRelease(c, j, cn) ==
  /\ job' = [job EXCEPT ![c] = [j EXCEPT !.refs = @ - 1]]
  /\ conn' = [conn EXCEPT ![c] = LastReference(c, j, cn)]

Claimed(j) == [j EXCEPT !.claimed = TRUE]

\* job_respond_error(): answers only whoever claims the descriptor
RespondOnce(j, cn, status) == IF j.claimed THEN cn ELSE RespondAndClose(cn, status)
-----------------------------------------------------------------------------
(* The main thread: connections come in; a full queue sheds.               *)

Receive(c) ==
  /\ main = "serving" /\ conn[c].sock = "away"
  /\ Len(parked) < ParkCap
  /\ conn' = [conn EXCEPT ![c].sock = "open"]
  /\ parked' = Append(parked, c)
  /\ UNCHANGED <<shut, worker, job, stream, pending, stop, stopping, sched, slot, main>>

Shed(c) ==
  /\ main = "serving" /\ conn[c].sock = "away"
  /\ Len(parked) >= ParkCap
  /\ conn' = [conn EXCEPT ![c] = Report(RespondAndClose([@ EXCEPT !.sock = "open"], "503"))]
  /\ UNCHANGED <<parked, shut, worker, job, stream, pending, stop, stopping, sched, slot, main>>

\* warmup_run(): before anything is accepted, an ordinary job without a client
SubmitWarmUp(c) ==
  /\ main = "start"
  /\ IF stop \/ Len(pending) >= MaxPending
     THEN main' = "serving" /\ UNCHANGED <<job, pending>>
     ELSE /\ main' = "warming" /\ pending' = Append(pending, c)
          /\ job' = [job EXCEPT ![c] = [NewJob("batch") EXCEPT !.refs = 2]]
  /\ UNCHANGED <<conn, parked, shut, worker, stream, stop, stopping, sched, slot>>

WarmedUp(c) ==
  /\ main = "warming" /\ job[c].done
  /\ main' = "serving"
  /\ JobRelease(c, job[c], conn[c])
  /\ UNCHANGED <<parked, shut, worker, stream, pending, stop, stopping, sched, slot>>

\* SIGTERM, or the router closed the channel
Shutdown ==
  /\ main = "serving" /\ main' = "joining" /\ shut' = TRUE
  /\ UNCHANGED <<conn, parked, worker, job, stream, pending, stop, stopping, sched, slot>>

StopScheduler ==
  /\ main = "joining" /\ \A w \in Workers : worker[w].at = "gone"
  /\ main' = "stopping" /\ stop' = TRUE /\ stopping' = TRUE
  /\ UNCHANGED <<conn, parked, shut, worker, job, stream, pending, sched, slot>>

JoinScheduler ==
  /\ main = "stopping" /\ sched.mode = "over" /\ main' = "draining"
  /\ UNCHANGED <<conn, parked, shut, worker, job, stream, pending, stop, stopping, sched, slot>>

\* bug: a job that reached the queue but no slot is dropped unanswered
DrainNothing ==
  /\ main = "draining" /\ pending # <<>>
  /\ pending' = <<>>
  /\ UNCHANGED <<conn, parked, shut, worker, job, stream, stop, stopping, sched, slot, main>>

\* drain_pending_jobs(), one turn: respond, publish, release; the only job_finish()
\* with an error to store
DrainJob ==
  LET c == Head(pending)
      answered == Claimed([job[c] EXCEPT !.done = TRUE, !.error = TRUE]) IN
  /\ main = "draining" /\ pending # <<>>
  /\ pending' = Tail(pending)
  /\ JobRelease(c, answered, RespondOnce(job[c], conn[c], "503"))
  /\ UNCHANGED <<parked, shut, worker, stream, stop, stopping, sched, slot, main>>

\* then what is still parked is closed, and the process ends
Exit ==
  /\ main = "draining" /\ pending = <<>> /\ main' = "exited"
  /\ conn' = [c \in Requests |-> IF \E i \in DOMAIN parked : parked[i] = c
                                 THEN ConnClose(conn[c]) ELSE conn[c]]
  /\ parked' = <<>>
  /\ UNCHANGED <<shut, worker, job, stream, pending, stop, stopping, sched, slot>>
-----------------------------------------------------------------------------
(* An HTTP worker: worker_main(), handle_connection(), handle_speech().    *)

Move(w, at, c) == worker' = [worker EXCEPT ![w] = [at |-> at, conn |-> c]]
Free(w) == Move(w, "idle", Nobody)

TakeConn(w) ==
  /\ worker[w].at = "idle" /\ parked # <<>>
  /\ Move(w, "parsing", Head(parked)) /\ parked' = Tail(parked)
  /\ UNCHANGED <<conn, shut, job, stream, pending, stop, stopping, sched, slot, main>>

Leave(w) ==
  /\ worker[w].at = "idle" /\ parked = <<>> /\ shut
  /\ Move(w, "gone", Nobody)
  /\ UNCHANGED <<conn, parked, shut, job, stream, pending, stop, stopping, sched, slot, main>>

\* a route without a job, a request refused by validation, or a client that
\* never finished sending one and is closed without a word
AnswerDirectly(w) ==
  LET c == worker[w].conn IN
  /\ worker[w].at = "parsing" /\ Free(w)
  /\ \E answered \in {conn[c], Answer(conn[c], "other")} :
       conn' = [conn EXCEPT ![c] = ConnClose(answered)]
  /\ UNCHANGED <<parked, shut, job, stream, pending, stop, stopping, sched, slot, main>>

BuildJob(w, k) ==
  LET c == worker[w].conn IN
  /\ worker[w].at = "parsing" /\ Move(w, "submit", c)
  /\ job' = [job EXCEPT ![c] = NewJob(k)]
  /\ UNCHANGED <<conn, parked, shut, stream, pending, stop, stopping, sched, slot, main>>

\* bug: the queue does not count its reference
SubmitUncounted(w) ==
  LET c == worker[w].conn IN
  /\ worker[w].at = "submit"
  /\ ~stop /\ Len(pending) < MaxPending
  /\ pending' = Append(pending, c)
  /\ Move(w, IF job[c].kind = "stream" THEN "release" ELSE "wait", c)
  /\ UNCHANGED <<conn, parked, shut, job, stream, stop, stopping, sched, slot, main>>

\* job_enqueue(): the queue takes a reference; a stream has nothing to wait for
Submit(w) ==
  LET c == worker[w].conn IN
  /\ worker[w].at = "submit"
  /\ ~stop /\ Len(pending) < MaxPending
  /\ pending' = Append(pending, c)
  /\ job' = [job EXCEPT ![c].refs = @ + 1]
  /\ Move(w, IF job[c].kind = "stream" THEN "release" ELSE "wait", c)
  /\ UNCHANGED <<conn, parked, shut, stream, stop, stopping, sched, slot, main>>

QueueRefuses(w) ==
  LET c == worker[w].conn IN
  /\ worker[w].at = "submit" /\ Free(w)
  /\ stop \/ Len(pending) >= MaxPending
  /\ JobRelease(c, Claimed(job[c]), RespondOnce(job[c], conn[c], "503"))
  /\ UNCHANGED <<parked, shut, stream, pending, stop, stopping, sched, slot, main>>

\* bug: a spurious wakeup ends the wait
CompletedOrWoken(w) ==
  LET c == worker[w].conn IN
  /\ worker[w].at = "wait" /\ Move(w, "answer", c)
  /\ UNCHANGED <<conn, parked, shut, job, stream, pending, stop, stopping, sched, slot, main>>

\* job_wait(): a completion that raced the timeout wins
Completed(w) ==
  LET c == worker[w].conn IN
  /\ worker[w].at = "wait" /\ job[c].done /\ Move(w, "answer", c)
  /\ UNCHANGED <<conn, parked, shut, job, stream, pending, stop, stopping, sched, slot, main>>

GiveUp(w) ==
  LET c == worker[w].conn IN
  /\ worker[w].at = "wait" /\ job[c].late /\ ~job[c].done /\ Move(w, "late", c)
  /\ job' = [job EXCEPT ![c].gaveUp = TRUE]
  /\ UNCHANGED <<conn, parked, shut, stream, pending, stop, stopping, sched, slot, main>>

\* What a worker may answer once its wait is over: a job without an error has an
\* answer built for it, of whatever samples it has, if there is memory for it.
Verdicts(w) ==
  LET j == job[worker[w].conn] IN
  CASE worker[w].at = "late" -> {"504"}
    [] worker[w].at # "late" /\ j.error -> {"500"}
    [] worker[w].at # "late" /\ ~j.error -> {IF j.sound THEN "200" ELSE "empty", "500"}

Respond(w) ==
  LET c == worker[w].conn IN
  /\ worker[w].at \in {"late", "answer"} /\ Move(w, "release", c)
  /\ \E status \in Verdicts(w) :
       conn' = [conn EXCEPT ![c] = RespondOnce(job[c], @, status)]
  /\ job' = [job EXCEPT ![c] = Claimed(@)]
  /\ UNCHANGED <<parked, shut, stream, pending, stop, stopping, sched, slot, main>>

ReleaseJob(w) ==
  LET c == worker[w].conn IN
  /\ worker[w].at = "release" /\ Free(w)
  /\ JobRelease(c, job[c], conn[c])
  /\ UNCHANGED <<parked, shut, stream, pending, stop, stopping, sched, slot, main>>

WorkerStep(w) ==
  \/ TakeConn(w) \/ Leave(w) \/ AnswerDirectly(w) \/ Submit(w) \/ QueueRefuses(w)
  \/ Completed(w) \/ GiveUp(w) \/ Respond(w) \/ ReleaseJob(w)
  \/ \E k \in Kinds : BuildJob(w, k)

\* The wall clock reaches a request's deadline, wherever the request is.
DeadlinePasses(c) ==
  /\ HasDeadline /\ c \in Conns
  /\ job[c].refs > 0 /\ ~job[c].late /\ ~job[c].done
  /\ job' = [job EXCEPT ![c].late = TRUE]
  /\ UNCHANGED <<conn, parked, shut, worker, stream, pending, stop, stopping, sched, slot, main>>
-----------------------------------------------------------------------------
(* A stream's writer thread, as StreamOut has it: its stream may fail under *)
(* it, and it closes the socket once the stream failed or was finished.     *)

StreamDies(c) ==
  /\ main # "exited"
  /\ stream[c] = [out |-> "open", writer |-> "writing"]
  /\ stream' = [stream EXCEPT ![c].out = "failed"]
  /\ UNCHANGED <<conn, parked, shut, worker, job, pending, stop, stopping, sched, slot, main>>

WriterEnds(c) ==
  /\ main # "exited"
  /\ stream[c].writer = "writing" /\ stream[c].out \in {"failed", "released"}
  /\ stream' = [stream EXCEPT ![c].writer = "over"]
  /\ conn' = [conn EXCEPT ![c] = CloseFd(@)]
  /\ UNCHANGED <<parked, shut, worker, job, pending, stop, stopping, sched, slot, main>>
-----------------------------------------------------------------------------
(* The scheduler thread: scheduler_main(), inside the driver's loop.       *)

Occupied == {c \in Requests : slot[c] # "none"}
Loop == [sched EXCEPT !.at = "loop", !.conn = Nobody]

\* sink_next_job() from admit_pass(), or from refuse_all(): one job leaves the
\* queue, unless the service is stopping
NextJob ==
  /\ sched.mode \in {"serving", "refusing"} /\ sched.at = "loop"
  /\ ~stop /\ pending # <<>>
  /\ Cardinality(Occupied) < IF sched.mode = "refusing" THEN 1 ELSE MaxActive
  /\ sched' = [sched EXCEPT !.at = "took", !.conn = Head(pending)]
  /\ pending' = Tail(pending)
  /\ UNCHANGED <<conn, parked, shut, worker, job, stream, stop, stopping, slot, main>>

\* nobody is waiting for it any more
DropJob ==
  /\ sched.at = "took" /\ job[sched.conn].gaveUp /\ sched' = Loop
  /\ JobRelease(sched.conn, job[sched.conn], conn[sched.conn])
  /\ UNCHANGED <<parked, shut, worker, stream, pending, stop, stopping, slot, main>>

\* refuse_all() fails what it is handed at once; else the request gets a slot
Entered == IF sched.mode = "refusing" THEN "failed" ELSE "live"

AdmitBatch ==
  LET c == sched.conn IN
  /\ sched.at = "took" /\ job[c].kind = "batch" /\ ~job[c].gaveUp /\ sched' = Loop
  /\ slot' = [slot EXCEPT ![c] = Entered]
  /\ UNCHANGED <<conn, parked, shut, worker, job, stream, pending, stop, stopping, main>>

\* the writer is started, and sends the response header, on admission
AdmitStream ==
  LET c == sched.conn IN
  /\ sched.at = "took" /\ job[c].kind = "stream" /\ ~job[c].gaveUp /\ sched' = Loop
  /\ job' = [job EXCEPT ![c] = Claimed(@)]
  /\ stream' = [stream EXCEPT ![c] = [out |-> "open", writer |-> "writing"]]
  /\ conn' = [conn EXCEPT ![c] = Answer(@, "stream")]
  /\ slot' = [slot EXCEPT ![c] = Entered]
  /\ UNCHANGED <<parked, shut, worker, pending, stop, stopping, main>>

StreamCannotStart ==
  LET c == sched.conn IN
  /\ StartMayFail
  /\ sched.at = "took" /\ job[c].kind = "stream" /\ ~job[c].gaveUp /\ sched' = Loop
  /\ JobRelease(c, Claimed(job[c]), RespondAndClose(conn[c], "500"))
  /\ UNCHANGED <<parked, shut, worker, stream, pending, stop, stopping, slot, main>>

InDriver == sched.mode = "serving" /\ sched.at = "loop"

\* bug: only a dead stream is cancelled
CancelDeadStream(c) ==
  /\ InDriver /\ slot[c] = "live" /\ stream[c].out = "failed"
  /\ slot' = [slot EXCEPT ![c] = "cancelled"]
  /\ UNCHANGED <<conn, parked, shut, worker, job, stream, pending, stop, stopping, sched, main>>

\* sink_cancelled(), polled between steps
Cancel(c) ==
  /\ InDriver /\ slot[c] = "live"
  /\ job[c].gaveUp \/ stream[c].out = "failed"
  /\ slot' = [slot EXCEPT ![c] = "cancelled"]
  /\ UNCHANGED <<conn, parked, shut, worker, job, stream, pending, stop, stopping, sched, main>>

\* the engine ends the request, or fails it
EndRequest(c, outcome) ==
  /\ InDriver /\ slot[c] = "live" /\ outcome \in {"ended", "failed"}
  /\ slot' = [slot EXCEPT ![c] = outcome]
  /\ UNCHANGED <<conn, parked, shut, worker, job, stream, pending, stop, stopping, sched, main>>

\* stream_callback(): the engine has sound for a stream.  Only here is a stream's
\* deadline looked at, and a dead stream refuses the sound; either ends the
\* request.  Sound that is taken changes nothing that is modelled here.
StreamCallback(c) ==
  /\ InDriver /\ slot[c] = "live" /\ job[c].kind = "stream"
  /\ job[c].late \/ stream[c].out = "failed"
  /\ slot' = [slot EXCEPT ![c] = IF job[c].late THEN "expired" ELSE "failed"]
  /\ UNCHANGED <<conn, parked, shut, worker, job, stream, pending, stop, stopping, sched, main>>

\* bug: the descriptor is closed under the writer that owns it
RetireStreamClosing(c) ==
  /\ sched.mode \in {"serving", "refusing"} /\ sched.at = "loop"
  /\ slot[c] \in Finished /\ job[c].kind = "stream"
  /\ slot' = [slot EXCEPT ![c] = "none"]
  /\ stream' = [stream EXCEPT ![c].out = "released"]
  /\ JobRelease(c, job[c], CloseFd(conn[c]))
  /\ UNCHANGED <<parked, shut, worker, pending, stop, stopping, sched, main>>

\* bug: the stream is never let go
RetireStreamHolding(c) ==
  /\ sched.mode \in {"serving", "refusing"} /\ sched.at = "loop"
  /\ slot[c] \in Finished /\ job[c].kind = "stream"
  /\ slot' = [slot EXCEPT ![c] = "none"]
  /\ JobRelease(c, job[c], conn[c])
  /\ UNCHANGED <<parked, shut, worker, stream, pending, stop, stopping, sched, main>>

\* slot_retire(), then sink_on_done(): a stream is let go, its job with it
RetireStream(c) ==
  /\ sched.mode \in {"serving", "refusing"} /\ sched.at = "loop"
  /\ slot[c] \in Finished /\ job[c].kind = "stream"
  /\ slot' = [slot EXCEPT ![c] = "none"]
  /\ stream' = [stream EXCEPT ![c].out = "released"]
  /\ JobRelease(c, job[c], conn[c])
  /\ UNCHANGED <<parked, shut, worker, pending, stop, stopping, sched, main>>

\* ... a batch job is published, under its mutex, and only then released; it has
\* samples if the request ended well, and no error whatever became of it
RetireBatch(c) ==
  /\ sched.mode \in {"serving", "refusing"} /\ sched.at = "loop"
  /\ slot[c] \in Finished /\ job[c].kind = "batch"
  /\ slot' = [slot EXCEPT ![c] = "none"]
  /\ job' = [job EXCEPT ![c].done = TRUE, ![c].sound = (slot[c] = "ended")]
  /\ sched' = [sched EXCEPT !.at = "publish", !.conn = c]
  /\ UNCHANGED <<conn, parked, shut, worker, stream, pending, stop, stopping, main>>

Published ==
  /\ sched.at = "publish" /\ sched' = Loop
  /\ JobRelease(sched.conn, job[sched.conn], conn[sched.conn])
  /\ UNCHANGED <<parked, shut, worker, stream, pending, stop, stopping, slot, main>>

\* The driver returns: to a stopping service once its slots are empty, or
\* refuse_all() found the queue empty.
Return ==
  /\ sched.mode \in {"serving", "refusing"} /\ sched.at = "loop" /\ Occupied = {}
  /\ stop \/ (sched.mode = "refusing" /\ pending = <<>>)
  /\ sched' = [sched EXCEPT !.mode = "returned"]
  /\ UNCHANGED <<conn, parked, shut, worker, job, stream, pending, stop, stopping, slot, main>>

\* having stopped on its own, it refuses what would be queued from now on
EndScheduler ==
  /\ sched.mode = "returned" /\ sched' = [sched EXCEPT !.mode = "over"]
  /\ stop' = TRUE /\ stopping' = TRUE
  /\ UNCHANGED <<conn, parked, shut, worker, job, stream, pending, slot, main>>

SchedulerStep ==
  \/ NextJob \/ DropJob \/ AdmitBatch \/ AdmitStream \/ StreamCannotStart
  \/ \E c \in Requests : Cancel(c) \/ StreamCallback(c) \/ RetireStream(c) \/ RetireBatch(c)
  \/ Published \/ Return \/ EndScheduler

EngineStep == \E c \in Requests, outcome \in {"ended", "failed"} : EndRequest(c, outcome)

MainEnds == StopScheduler \/ JoinScheduler \/ DrainJob \/ Exit \/ \E c \in WarmUps : WarmedUp(c)

Over == main = "exited" /\ UNCHANGED vars

Next ==
  \/ \E c \in Conns : Receive(c) \/ Shed(c)
  \/ \E c \in WarmUps : SubmitWarmUp(c)
  \/ Shutdown \/ MainEnds
  \/ \E w \in Workers : WorkerStep(w)
  \/ SchedulerStep \/ EngineStep
  \/ \E c \in Requests : DeadlinePasses(c) \/ StreamDies(c) \/ WriterEnds(c)
  \/ Over

Spec == Init /\ [][Next]_vars

\* Some thread that can run does, and the clock advances.  A client's silence
\* (SO_RCVTIMEO) and a stalled reader (SO_SNDTIMEO) come to an end; an utterance
\* need not, but a stream has sound again and again while it lasts.  No step is
\* ever undone, so this is fairness to every thread.
ThreadStep ==
  \/ \E w \in Workers : WorkerStep(w)
  \/ SchedulerStep \/ MainEnds
  \/ \E c \in Requests : DeadlinePasses(c) \/ WriterEnds(c)

FairSpec == Spec /\ WF_vars(ThreadStep)
-----------------------------------------------------------------------------
(* Safety.                                                                 *)

\* The parties that hold a job: its worker, the queue, the scheduler, a slot,
\* and the main thread for a warm-up.
Holders(c) ==
  {<<"worker", w>> : w \in {v \in Workers : worker[v].conn = c
                             /\ worker[v].at \in {"submit", "wait", "late", "answer", "release"}}}
  \cup {<<"queue", i>> : i \in {k \in DOMAIN pending : pending[k] = c}}
  \cup (IF sched.conn = c THEN {<<"scheduler">>} ELSE {})
  \cup (IF slot[c] # "none" THEN {<<"slot">>} ELSE {})
  \cup (IF main = "warming" /\ c \in WarmUps THEN {<<"main">>} ELSE {})

\* A job's count is the number of parties that hold it: nobody reads a freed
\* job, and none is leaked, whichever of worker and scheduler lets go last.
CountIsExact == TypeOK /\ \A c \in Requests : job[c].refs = Cardinality(Holders(c))

\* A client is answered at most once and its descriptor closed at most once,
\* however the worker's deadline, the scheduler, the writer and the shutdown
\* interleave: a second close would land on another client's connection.  The
\* router is told that a connection is over at most once, never while a worker
\* or the driver still has it, and never of a warm-up it did not send.
AnsweredOnce ==
  \A c \in Requests :
    /\ conn[c].reply # "garbled" /\ conn[c].sock # "twice"
    /\ conn[c].reported <= 1
    /\ conn[c].reported = 1 => /\ c \in Conns /\ Holders(c) = {}
                               /\ \A w \in Workers : worker[w].conn # c
                               /\ \A i \in DOMAIN parked : parked[i] # c

\* When the process ends, every connection it took has been reported, and none
\* is open but those a stream's writer still has.
NothingLeftBehind ==
  main = "exited" => \A c \in Conns :
    conn[c].sock # "away" => /\ conn[c].reported = 1
                             /\ conn[c].sock = "closed" \/ stream[c].writer = "writing"

\* A worker's verdict rests on what the scheduler published.  200 is said only of
\* a job that was done, with sound exactly if the job ended well, and 500 only of
\* a job that was done; a job its worker gave up is answered 504 and nothing else,
\* though the scheduler may still publish it, drop it, or leave it to the
\* shutdown.  No worker reads a result that is being written.
VerdictIsPublished ==
  \A c \in Conns :
    /\ conn[c].reply \in {"200", "empty"} \/ (conn[c].reply = "500" /\ job[c].kind = "batch")
         => job[c].done /\ ~job[c].gaveUp
    /\ conn[c].reply = "200" => job[c].sound
    /\ conn[c].reply = "empty" => ~job[c].sound
    /\ conn[c].reply = "504" => job[c].gaveUp
    /\ job[c].gaveUp => conn[c].reply \in {"none", "504"}
-----------------------------------------------------------------------------
(* Liveness, under FairSpec.                                               *)

\* Everybody who is taken in is let go again, whatever fails on the way, unless
\* the process ends first; and a request that nobody waits for any more gives its
\* slot back, however long the utterance.
EveryoneLeaves ==
  \A c \in Conns :
    /\ conn[c].sock = "open" ~> (conn[c].sock = "closed" \/ main = "exited")
    /\ job[c].gaveUp ~> slot[c] = "none"

\* The shutdown ends: no thread it joins waits for one it has stopped.
ShutdownEnds == main = "joining" ~> main = "exited"
-----------------------------------------------------------------------------
(* What comments and docs say that the code does not do; see the README.   *)

\* "500: synthesis failure" (docs/server.md): a batch request that failed is
\* answered 200 with no sound, because its job's result stays 0
FailureIsAnError == \A c \in Conns : conn[c].reply # "empty"

\* "a queued job past [its deadline] is never synthesized at all": a stream has
\* no worker to give it up, so it enters the batch late or not
LateIsNeverSynthesized ==
  [][\A c \in Conns : job[c].kind = "stream" /\ slot[c] = "none" /\ slot'[c] = "live"
                        => ~job[c].late]_vars

\* "in the one order that leaves nothing dangling": the process outlives the
\* writers that are still draining their streams
NothingDangles == main = "exited" => \A c \in Requests : stream[c].writer # "writing"

\* "the synthesis driver stopped on its own; queued requests will be refused"
QueuedAreRefused ==
  \A c \in Conns :
    sched.mode = "over" /\ (\E i \in DOMAIN pending : pending[i] = c) ~> conn[c].reply # "none"
=============================================================================
