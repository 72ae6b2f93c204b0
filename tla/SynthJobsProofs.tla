-------------------------- MODULE SynthJobsProofs --------------------------
(***************************************************************************)
(* Theorems about the synthesis jobs of one serving process, for any       *)
(* number of connections, workers, queue places and slots.                 *)
(***************************************************************************)
EXTENDS SynthJobs, SequenceTheorems, FiniteSetTheorems, TLAPS

-----------------------------------------------------------------------------
(* The inductive invariant.                                                *)

In(s) == {s[i] : i \in DOMAIN s}
Once(s) == \A i, j \in DOMAIN s : s[i] = s[j] => i = j

\* A connection is in one worker's hands; a thread between requests has none.
WorkersOK ==
  /\ \A w \in Workers : worker[w].conn = Nobody <=> worker[w].at \in {"idle", "gone"}
  /\ \A v, w \in Workers : worker[v].conn = worker[w].conn /\ worker[v].conn # Nobody => v = w

\* The driver that has returned holds nothing.
SchedOK ==
  /\ sched.at = "loop" <=> sched.conn = Nobody
  /\ sched.mode \in {"returned", "over"} => /\ sched.at = "loop"
                                            /\ \A c \in Requests : slot[c] = "none"

\* The shutdown waits for the workers, then for the scheduler.
MainOK ==
  /\ main \in {"stopping", "draining", "exited"} => \A w \in Workers : worker[w].at = "gone"
  /\ main \in {"draining", "exited"} => sched.mode = "over"
  /\ main = "exited" => pending = <<>> /\ parked = <<>>

ShapeOK == TypeOK /\ WorkersOK /\ SchedOK /\ MainOK /\ Once(pending) /\ Once(parked)

\* Who holds c's job: its worker, the service (queue, scheduler or slot), main.
Has(c) == \E w \in Workers : worker[w].conn = c
At(c, place) == \E w \in Workers : worker[w].conn = c /\ worker[w].at = place
Held(c) == At(c, "submit") \/ At(c, "wait") \/ At(c, "late") \/ At(c, "answer") \/ At(c, "release")
Waiting(c) == c \in In(pending) \/ (sched.conn = c /\ sched.at = "took")
Served(c) == c \in In(pending) \/ sched.conn = c \/ slot[c] # "none"
WorkerRef(c) == IF Held(c) THEN 1 ELSE 0
ServiceRef(c) == IF Served(c) THEN 1 ELSE 0
MainRef(c) == IF main = "warming" /\ c \in WarmUps THEN 1 ELSE 0

\* The service has a job in one place; it publishes a batch job once, at the end,
\* and claims a stream's descriptor only when it starts the stream.
JobOK(c) ==
  /\ job[c].refs = WorkerRef(c) + ServiceRef(c) + MainRef(c)
  /\ c \in In(pending) => sched.conn # c
  /\ slot[c] # "none" => c \notin In(pending) /\ sched.conn # c
  /\ job[c].kind = "none" => job[c] = NoJob
  /\ At(c, "submit") => ~Served(c) /\ ~job[c].claimed /\ ~job[c].done
  /\ At(c, "wait") \/ At(c, "late") \/ At(c, "answer") => job[c].kind = "batch"
  /\ At(c, "late") => job[c].gaveUp
  /\ At(c, "answer") => job[c].done
  /\ Waiting(c) \/ slot[c] # "none" => ~job[c].done
  /\ Waiting(c) /\ job[c].kind = "stream" => ~job[c].claimed

\* The descriptor is open until somebody claims it, then the claimer's or the
\* stream writer's; the router hears of it after the last of them.
ConnOK(c) ==
  /\ conn[c].reply # "garbled" /\ conn[c].sock # "twice" /\ conn[c].reported <= 1
  /\ conn[c].sock = "away" => /\ conn[c].reply = "none" /\ conn[c].reported = 0
                              /\ job[c].kind = "none" /\ c \notin In(parked) /\ ~Has(c)
  /\ c \in In(parked) \/ At(c, "parsing") =>
       conn[c].sock = "open" /\ conn[c].reply = "none" /\ conn[c].reported = 0 /\ job[c].kind = "none"
  /\ c \in In(parked) => ~Has(c)
  /\ job[c].refs > 0 => conn[c].reported = 0
  /\ job[c].refs > 0 /\ ~job[c].claimed => conn[c].sock = "open" /\ conn[c].reply = "none"
  /\ stream[c].writer # "none" => job[c].claimed
  /\ stream[c].writer = "writing" => conn[c].sock = "open"
  /\ stream[c].writer # "writing" /\ (job[c].claimed \/ conn[c].reported = 1) => conn[c].sock = "closed"
  /\ conn[c].reported = 1 => c \notin In(parked) /\ ~Has(c)
  /\ conn[c].sock # "away" =>
       conn[c].reported = 1 \/ c \in In(parked) \/ Has(c) \/ job[c].refs > 0

\* A verdict rests on what was published.  Until its worker says it, nobody else
\* claims the descriptor; a worker that gave the job up says 504 or has said so.
VerdictOK(c) ==
  /\ conn[c].reply \in {"200", "empty"} \/ (conn[c].reply = "500" /\ job[c].kind = "batch")
       => job[c].done /\ ~job[c].gaveUp
  /\ conn[c].reply = "200" => job[c].sound
  /\ conn[c].reply = "empty" => ~job[c].sound
  /\ conn[c].reply = "504" => job[c].gaveUp
  /\ job[c].gaveUp => conn[c].reply \in {"none", "504"}
  /\ job[c].gaveUp => At(c, "late") \/ job[c].claimed
  /\ At(c, "submit") \/ At(c, "wait") \/ At(c, "answer") => ~job[c].gaveUp
  /\ At(c, "wait") \/ At(c, "late") \/ At(c, "answer") => ~job[c].claimed

\* A warm-up has no client; main waits for it before it serves.
WarmOK(c) ==
  /\ conn[c] = [sock |-> "away", reply |-> "none", reported |-> 0]
  /\ stream[c].writer = "none" /\ job[c].kind # "stream" /\ ~job[c].gaveUp
  /\ job[c].kind # "none" => main = "warming" \/ (job[c].done /\ main # "start")

RequestOK(c) == JobOK(c) /\ (c \in Conns => ConnOK(c) /\ VerdictOK(c)) /\ (c \in WarmUps => WarmOK(c))

JobsInv == ShapeOK /\ \A c \in Requests : RequestOK(c)

-----------------------------------------------------------------------------
(* Queues, records and workers.                                            *)

LEMMA TailOnce ==
  ASSUME NEW S, NEW s \in Seq(S), s # <<>>, Once(s)
  PROVE  /\ Head(s) \in S /\ Head(s) \in In(s) /\ Once(Tail(s)) /\ Tail(s) \in Seq(S)
         /\ In(Tail(s)) = In(s) \ {Head(s)} /\ Len(Tail(s)) = Len(s) - 1 /\ Len(s) \in Nat \ {0}
<1>1. /\ Head(s) \in S /\ Tail(s) \in Seq(S) /\ Len(Tail(s)) = Len(s) - 1
      /\ \A i \in 1..Len(Tail(s)) : Tail(s)[i] = s[i + 1]
      /\ Head(s) = s[1]
  BY HeadTailProperties
<1>2. PICK n \in Nat \ {0} : n = Len(s) /\ DOMAIN s = 1..n
  BY EmptySeq, LenProperties
<1>3. DOMAIN Tail(s) = 1..(n - 1)
  BY <1>1, <1>2, LenProperties
<1>4. 1 \in 1..n /\ \A i \in 1..(n - 1) : i + 1 \in 1..n /\ i + 1 # 1
  BY <1>2
<1>5. ASSUME NEW i \in 1..(n - 1), NEW j \in 1..(n - 1), Tail(s)[i] = Tail(s)[j] PROVE i = j
  <2>1. s[i + 1] = s[j + 1]
    BY <1>1, <1>2, <1>5
  <2>2. i + 1 = j + 1
    BY <1>2, <1>4, <2>1 DEF Once
  <2> QED  BY <2>2
<1>6. ASSUME NEW x \in In(Tail(s)) PROVE x \in In(s) \ {Head(s)}
  <2>1. PICK i \in 1..(n - 1) : x = Tail(s)[i]
    BY <1>3, <1>6 DEF In
  <2>2. x = s[i + 1] /\ i + 1 \in 1..n
    BY <1>1, <1>2, <1>4, <2>1
  <2>3. x # s[1]
    BY <1>2, <1>4, <2>2 DEF Once
  <2> QED  BY <1>1, <1>2, <2>2, <2>3 DEF In
<1>7. ASSUME NEW x \in In(s), x # Head(s) PROVE x \in In(Tail(s))
  <2>1. PICK i \in 1..n : x = s[i]
    BY <1>2 DEF In
  <2>2. i # 1
    BY <1>1, <1>7, <2>1
  <2>3. i - 1 \in 1..(n - 1) /\ (i - 1) + 1 = i
    BY <2>2
  <2>4. Tail(s)[i - 1] = x
    BY <1>1, <1>2, <2>1, <2>3
  <2> QED  BY <1>3, <2>3, <2>4 DEF In
<1>8. Head(s) \in In(s)
  BY <1>1, <1>2, <1>4 DEF In
<1> QED  BY <1>1, <1>2, <1>3, <1>5, <1>6, <1>7, <1>8 DEF Once

LEMMA AppendOnce ==
  ASSUME NEW S, NEW s \in Seq(S), NEW x \in S, Once(s), x \notin In(s)
  PROVE  /\ Append(s, x) \in Seq(S) /\ Once(Append(s, x)) /\ In(Append(s, x)) = In(s) \cup {x}
         /\ Len(Append(s, x)) = Len(s) + 1 /\ Len(s) \in Nat
<1>1. PICK n \in Nat : n = Len(s) /\ DOMAIN s = 1..n
  BY LenProperties
<1>2. /\ Append(s, x) \in Seq(S) /\ Len(Append(s, x)) = n + 1
      /\ \A i \in 1..n : Append(s, x)[i] = s[i]
      /\ Append(s, x)[n + 1] = x
  BY <1>1, AppendProperties
<1>3. DOMAIN Append(s, x) = 1..(n + 1)
  BY <1>2, LenProperties
<1>4. n + 1 \in 1..(n + 1) /\ \A i \in 1..(n + 1) : i \in 1..n \/ i = n + 1
  OBVIOUS
<1>5. \A i \in 1..n : s[i] # x /\ i \in 1..(n + 1)
  BY <1>1 DEF In
<1>6. ASSUME NEW i \in 1..(n + 1), NEW j \in 1..(n + 1), Append(s, x)[i] = Append(s, x)[j] PROVE i = j
  BY <1>1, <1>2, <1>4, <1>5, <1>6 DEF Once
<1>7. In(Append(s, x)) = In(s) \cup {x}
  <2>1. \A y \in In(Append(s, x)) : y \in In(s) \cup {x}
    BY <1>1, <1>2, <1>3, <1>4 DEF In
  <2>2. \A y \in In(s) \cup {x} : y \in In(Append(s, x))
    BY <1>1, <1>2, <1>3, <1>4, <1>5 DEF In
  <2> QED  BY <2>1, <2>2
<1> QED  BY <1>1, <1>2, <1>3, <1>6, <1>7 DEF Once

Socks == {"away", "open", "closed", "twice"}
ConnType == [sock : Socks, reply : Replies \cup {"none", "garbled"}, reported : 0..2]
JobType == [kind : Kinds \cup {"none"}, refs : 0..2, claimed : BOOLEAN,
            late : BOOLEAN, gaveUp : BOOLEAN, done : BOOLEAN,
            sound : BOOLEAN, error : BOOLEAN]
WorkerType == [at : {"idle", "parsing", "submit", "wait", "late", "answer", "release", "gone"},
               conn : Conns \cup {Nobody}]
StreamType == [out : {"none", "open", "failed", "released"}, writer : {"none", "writing", "over"}]
SchedType == [mode : {"serving", "refusing", "returned", "over"},
              at : {"loop", "took", "publish"}, conn : Requests \cup {Nobody}]

LEMMA Types ==
  TypeOK <=> /\ conn \in [Requests -> ConnType] /\ job \in [Requests -> JobType]
             /\ worker \in [Workers -> WorkerType] /\ stream \in [Requests -> StreamType]
             /\ sched \in SchedType /\ slot \in [Requests -> {"none", "live"} \cup Finished]
             /\ parked \in Seq(Conns) /\ Len(parked) <= ParkCap
             /\ pending \in Seq(Requests) /\ Len(pending) <= MaxPending
             /\ shut \in BOOLEAN /\ stop \in BOOLEAN /\ stopping \in BOOLEAN
             /\ main \in {"start", "warming", "serving", "joining", "stopping", "draining", "exited"}
BY DEF TypeOK, ConnType, Socks, Replies, JobType, WorkerType, StreamType, SchedType

LEMMA TypesNext ==
  TypeOK' <=> /\ conn' \in [Requests -> ConnType] /\ job' \in [Requests -> JobType]
              /\ worker' \in [Workers -> WorkerType] /\ stream' \in [Requests -> StreamType]
              /\ sched' \in SchedType /\ slot' \in [Requests -> {"none", "live"} \cup Finished]
              /\ parked' \in Seq(Conns) /\ Len(parked') <= ParkCap
              /\ pending' \in Seq(Requests) /\ Len(pending') <= MaxPending
              /\ shut' \in BOOLEAN /\ stop' \in BOOLEAN /\ stopping' \in BOOLEAN
              /\ main' \in {"start", "warming", "serving", "joining", "stopping", "draining", "exited"}
BY DEF TypeOK, ConnType, Socks, Replies, JobType, WorkerType, StreamType, SchedType

LEMMA Names == Nobody \notin Requests /\ Conns \cap WarmUps = {} /\ Conns \subseteq Requests
               /\ (\A c \in Requests : c \in Conns \/ c \in WarmUps)
               /\ (\A c, d \in WarmUps : c = d)
BY JobAssumption DEF Nobody, Requests

\* Where its worker has a connection, and what that says of the count.
Where(c, place) ==
  /\ Has(c) <=> place # "none"
  /\ At(c, "parsing") <=> place = "parsing"
  /\ At(c, "submit") <=> place = "submit"
  /\ At(c, "wait") <=> place = "wait"
  /\ At(c, "late") <=> place = "late"
  /\ At(c, "answer") <=> place = "answer"
  /\ At(c, "release") <=> place = "release"

LEMMA Here ==
  ASSUME WorkersOK, NEW w \in Workers, NEW c, c # Nobody, worker[w].conn = c, NEW p, p = worker[w].at,
         p # "none"
  PROVE  Where(c, p)
<1>1. \A v \in Workers : worker[v].conn = c <=> v = w
  BY DEF WorkersOK
<1> QED  BY <1>1 DEF Where, Has, At

LEMMA HereNext ==
  ASSUME WorkersOK', NEW w \in Workers, NEW c, c # Nobody, worker'[w].conn = c,
         NEW p, p = worker'[w].at, p # "none"
  PROVE  Where(c, p)'
<1>1. \A v \in Workers : worker'[v].conn = c <=> v = w
  BY DEF WorkersOK
<1> QED  BY <1>1 DEF Where, Has, At

LEMMA Nowhere == ASSUME NEW c, ~Has(c) PROVE Where(c, "none")
BY DEF Where, Has, At

LEMMA NowhereNext == ASSUME NEW c, \A w \in Workers : worker'[w].conn # c PROVE Where(c, "none")'
BY DEF Where, Has, At

\* A worker moves: to another place with its connection, or to or from none.
LEMMA Moved ==
  ASSUME TypeOK, WorkersOK, NEW w \in Workers, NEW c \in Conns \cup {Nobody},
         NEW at \in {"idle", "parsing", "submit", "wait", "late", "answer", "release", "gone"},
         Move(w, at, c), c = Nobody <=> at \in {"idle", "gone"},
         c = Nobody \/ c = worker[w].conn \/ ~Has(c)
  PROVE  /\ worker' \in [Workers -> WorkerType] /\ WorkersOK'
         /\ worker'[w].at = at /\ worker'[w].conn = c
         /\ \A v \in Workers \ {w} : worker'[v] = worker[v]
<1>1. worker \in [Workers -> WorkerType]
  BY Types
<1>2. /\ worker' = [worker EXCEPT ![w] = [at |-> at, conn |-> c]]
      /\ [at |-> at, conn |-> c] \in WorkerType
  BY DEF Move, WorkerType
<1>3. /\ worker' \in [Workers -> WorkerType] /\ worker'[w].at = at /\ worker'[w].conn = c
      /\ \A v \in Workers \ {w} : worker'[v] = worker[v]
  BY <1>1, <1>2
<1>4. WorkersOK'
  BY <1>3 DEF WorkersOK, Has
<1> QED  BY <1>3, <1>4

-----------------------------------------------------------------------------
(* One request at a time.                                                  *)

\* Nothing that the invariant says of a request has changed.
WorkerSame(d) ==
  \A w \in Workers : /\ worker'[w].conn = d <=> worker[w].conn = d
                     /\ worker[w].conn = d => worker'[w].at = worker[w].at
QueueSame(d) == (d \in In(pending') <=> d \in In(pending)) /\ (d \in In(parked') <=> d \in In(parked))
SchedSame(d) == (sched'.conn = d <=> sched.conn = d) /\ (sched.conn = d => sched'.at = sched.at)
MainSame(d) == d \in WarmUps => main' = main \/ {main, main'} \cap {"start", "warming"} = {}
Same(d) ==
  /\ conn'[d] = conn[d] /\ job'[d] = job[d] /\ stream'[d].writer = stream[d].writer /\ slot'[d] = slot[d]
  /\ WorkerSame(d) /\ QueueSame(d) /\ SchedSame(d) /\ MainSame(d)

LEMMA SameKeeps ==
  ASSUME NEW d \in Requests, RequestOK(d), Same(d)
  PROVE  RequestOK(d)'
<1>1. /\ Has(d)' <=> Has(d)
      /\ At(d, "parsing")' <=> At(d, "parsing")
      /\ At(d, "submit")' <=> At(d, "submit")
      /\ At(d, "wait")' <=> At(d, "wait")
      /\ At(d, "late")' <=> At(d, "late")
      /\ At(d, "answer")' <=> At(d, "answer")
      /\ At(d, "release")' <=> At(d, "release")
  BY DEF Same, WorkerSame, Has, At
<1>2. (Waiting(d)' <=> Waiting(d)) /\ (Served(d)' <=> Served(d))
  BY DEF Same, QueueSame, SchedSame, Waiting, Served
<1>3. WorkerRef(d)' = WorkerRef(d) /\ ServiceRef(d)' = ServiceRef(d) /\ MainRef(d)' = MainRef(d)
  BY <1>1, <1>2 DEF WorkerRef, ServiceRef, MainRef, Held, Same, MainSame
<1>4. JobOK(d)'
  BY <1>1, <1>2, <1>3 DEF RequestOK, JobOK, Same, QueueSame, SchedSame
<1>5. d \in Conns => ConnOK(d)' /\ VerdictOK(d)'
  BY <1>1 DEF RequestOK, ConnOK, VerdictOK, Same, QueueSame
<1>6. d \in WarmUps => WarmOK(d)'
  BY DEF RequestOK, WarmOK, Same, MainSame
<1> QED  BY <1>4, <1>5, <1>6 DEF RequestOK

LEMMA OneRequest ==
  ASSUME JobsInv, ShapeOK', NEW c, c \in Requests => RequestOK(c)',
         \A d \in Requests \ {c} : Same(d)
  PROVE  JobsInv'
<1>1. ASSUME NEW d \in Requests \ {c} PROVE RequestOK(d)'
  BY SameKeeps DEF JobsInv
<1> QED  BY <1>1 DEF JobsInv
-----------------------------------------------------------------------------
(* Answers, closes and reports, each done once.                            *)

LEMMA Closing ==
  ASSUME NEW cn \in ConnType, cn.sock = "open"
  PROVE  /\ CloseFd(cn) \in ConnType /\ CloseFd(cn).sock = "closed"
         /\ CloseFd(cn).reply = cn.reply /\ CloseFd(cn).reported = cn.reported
BY DEF CloseFd, ConnType, Socks

LEMMA Answering ==
  ASSUME NEW cn \in ConnType, cn.sock = "open", cn.reply = "none", NEW status \in Replies
  PROVE  /\ Answer(cn, status) \in ConnType /\ Answer(cn, status).sock = "open"
         /\ Answer(cn, status).reply = status /\ Answer(cn, status).reported = cn.reported
BY DEF Answer, ConnType, Socks

LEMMA Reporting ==
  ASSUME NEW cn \in ConnType, cn.reported = 0
  PROVE  /\ Report(cn) \in ConnType /\ Report(cn).reported = 1
         /\ Report(cn).reply = cn.reply /\ Report(cn).sock = cn.sock
BY DEF Report, ConnType

LEMMA Responding ==
  ASSUME NEW cn \in ConnType, cn.sock = "open", cn.reply = "none", NEW status \in Replies
  PROVE  /\ RespondAndClose(cn, status) \in ConnType /\ RespondAndClose(cn, status).sock = "closed"
         /\ RespondAndClose(cn, status).reply = status
         /\ RespondAndClose(cn, status).reported = cn.reported
BY Answering, Closing DEF RespondAndClose

LEMMA NewJobType ==
  ASSUME NEW k \in Kinds
  PROVE  /\ NewJob(k) \in JobType /\ NewJob(k).kind = k /\ NewJob(k).refs = 1
         /\ ~NewJob(k).claimed /\ ~NewJob(k).late /\ ~NewJob(k).gaveUp
         /\ ~NewJob(k).done /\ ~NewJob(k).sound
<1>1. /\ NoJob \in JobType /\ ~NoJob.claimed /\ ~NoJob.late /\ ~NoJob.gaveUp /\ ~NoJob.done /\ ~NoJob.sound
  BY DEF NoJob, JobType
<1>2. PICK n \in JobType : n = NoJob /\ ~n.claimed /\ ~n.late /\ ~n.gaveUp /\ ~n.done /\ ~n.sound
  BY <1>1
<1>3. NewJob(k) = [n EXCEPT !.kind = k, !.refs = 1] /\ k \in Kinds \cup {"none"} /\ 1 \in 0..2
  BY <1>2 DEF NewJob
<1>4. [n EXCEPT !.kind = k, !.refs = 1] \in JobType
  BY <1>3 DEF JobType
<1>5. /\ [n EXCEPT !.kind = k, !.refs = 1].kind = k /\ [n EXCEPT !.kind = k, !.refs = 1].refs = 1
      /\ [n EXCEPT !.kind = k, !.refs = 1].claimed = n.claimed
      /\ [n EXCEPT !.kind = k, !.refs = 1].late = n.late
      /\ [n EXCEPT !.kind = k, !.refs = 1].gaveUp = n.gaveUp
      /\ [n EXCEPT !.kind = k, !.refs = 1].done = n.done
      /\ [n EXCEPT !.kind = k, !.refs = 1].sound = n.sound
  BY DEF JobType
<1> QED  BY <1>2, <1>3, <1>4, <1>5

-----------------------------------------------------------------------------
(* Letting go of a job.                                                    *)

LEMMA Released ==
  ASSUME TypeOK, NEW c \in Requests, NEW j \in JobType, NEW cn \in ConnType,
         j.refs # 0, cn.reported # 2, JobRelease(c, j, cn)
  PROVE  /\ job' \in [Requests -> JobType] /\ conn' \in [Requests -> ConnType]
         /\ job'[c].refs = j.refs - 1 /\ job'[c].kind = j.kind /\ job'[c].claimed = j.claimed
         /\ job'[c].late = j.late /\ job'[c].gaveUp = j.gaveUp /\ job'[c].done = j.done
         /\ job'[c].sound = j.sound
         /\ conn'[c] = LastReference(c, j, cn)
         /\ \A d \in Requests \ {c} : job'[d] = job[d] /\ conn'[d] = conn[d]
<1>1. /\ job \in [Requests -> JobType] /\ conn \in [Requests -> ConnType]
      /\ job' = [job EXCEPT ![c] = [j EXCEPT !.refs = @ - 1]]
      /\ conn' = [conn EXCEPT ![c] = LastReference(c, j, cn)]
  BY Types DEF JobRelease
<1>2. [j EXCEPT !.refs = @ - 1] \in JobType
  <2>1. j.refs - 1 \in 0..2
    BY DEF JobType
  <2> QED  BY <2>1 DEF JobType
<1>3. LastReference(c, j, cn) \in ConnType
  <2>1. cn.reported + 1 \in 0..2
    BY DEF ConnType
  <2>2. CloseFd(cn) \in ConnType /\ CloseFd(cn).reported = cn.reported
    BY DEF CloseFd, ConnType, Socks
  <2>3. Report(cn) \in ConnType /\ Report(CloseFd(cn)) \in ConnType
    BY <2>1, <2>2 DEF Report, ConnType
  <2>4. c \in WarmUps \/ c \in Conns \ WarmUps
    BY Names
  <2> QED  BY <2>3, Names DEF LastReference
<1>4. job'[c] = [j EXCEPT !.refs = @ - 1] /\ conn'[c] = LastReference(c, j, cn)
  BY <1>1
<1> QED  BY <1>1, <1>2, <1>3, <1>4 DEF JobType

\* What becomes of the connection: closed, if nobody claimed it, and reported.
LEMMA ReleaseConn ==
  ASSUME TypeOK, NEW c \in Conns, NEW j \in JobType, NEW cn \in ConnType,
         j.refs # 0, cn.reported = 0, JobRelease(c, j, cn),
         cn.reply # "garbled", cn.sock \in {"open", "closed"},
         ~j.claimed => cn.sock = "open" /\ cn.reply = "none" /\ stream'[c].writer = "none",
         j.claimed => (cn.sock = "open" <=> stream'[c].writer = "writing"),
         c \notin In(parked)', ~At(c, "parsing")', j.refs = 1 => ~Has(c)'
  PROVE  ConnOK(c)' /\ conn'[c].reply = cn.reply
<1>0. c \in Requests /\ c \notin WarmUps
  BY Names
<1>1. /\ job'[c].refs = j.refs - 1 /\ job'[c].claimed = j.claimed
      /\ conn'[c] = LastReference(c, j, cn)
  BY <1>0, Released
<1>2. CASE j.refs # 1
  <2>1. conn'[c] = cn
    BY <1>0, <1>1, <1>2 DEF LastReference
  <2>2. job'[c].refs > 0
    BY <1>1, <1>2 DEF JobType
  <2> QED  BY <1>1, <2>1, <2>2 DEF ConnOK
<1>3. CASE j.refs = 1
  <2>1. /\ conn'[c].reported = 1 /\ conn'[c].reply = cn.reply
        /\ conn'[c].sock = IF j.claimed THEN cn.sock ELSE "closed"
    BY <1>0, <1>1, <1>3 DEF LastReference, Report, CloseFd, ConnType
  <2>2. job'[c].refs = 0
    BY <1>1, <1>3
  <2> QED  BY <1>1, <1>3, <2>1, <2>2 DEF ConnOK
<1> QED  BY <1>2, <1>3

-----------------------------------------------------------------------------
(* The main thread.                                                        *)

\* Of a connection without a job there is no verdict.
LEMMA NoVerdict ==
  ASSUME NEW c, job'[c] = NoJob, ~Has(c)', conn'[c].reply \in {"none", "other", "503"}
  PROVE  VerdictOK(c)'
BY DEF VerdictOK, NoJob, Has, At

LEMMA ReceiveKeeps ==
  ASSUME JobsInv, NEW c \in Conns, Receive(c)
  PROVE  JobsInv'
<1>0. /\ ShapeOK /\ TypeOK /\ RequestOK(c) /\ ConnOK(c) /\ c \in Requests /\ c \notin WarmUps
  BY Names DEF JobsInv, ShapeOK, RequestOK
<1>1. /\ main = "serving" /\ conn[c].sock = "away" /\ Len(parked) < ParkCap
      /\ conn' = [conn EXCEPT ![c].sock = "open"] /\ parked' = Append(parked, c)
      /\ UNCHANGED <<shut, worker, job, stream, pending, stop, stopping, sched, slot, main>>
  BY DEF Receive
<1>2. c \notin In(parked) /\ parked \in Seq(Conns)
  BY <1>0, <1>1, Types DEF ConnOK
<1>3. /\ parked' \in Seq(Conns) /\ Once(parked') /\ In(parked') = In(parked) \cup {c}
      /\ Len(parked') = Len(parked) + 1 /\ Len(parked) \in Nat
  BY <1>0, <1>1, <1>2, AppendOnce DEF ShapeOK
<1>4. /\ conn' \in [Requests -> ConnType] /\ conn'[c].sock = "open" /\ conn'[c].reply = conn[c].reply
      /\ conn'[c].reported = conn[c].reported
      /\ \A d \in Requests \ {c} : conn'[d] = conn[d]
  BY <1>0, <1>1, Types DEF ConnType, Socks
<1>5. TypeOK'
  <2>1. Len(parked') <= ParkCap
    BY <1>1, <1>3, JobAssumption
  <2> QED  BY <1>0, <1>1, <1>3, <1>4, <2>1, Types, TypesNext
<1>6. ShapeOK'
  BY <1>0, <1>1, <1>3, <1>5 DEF ShapeOK, WorkersOK, SchedOK, MainOK
<1>7. RequestOK(c)'
  <2>1. JobOK(c)'
    BY <1>0, <1>1 DEF RequestOK, JobOK, WorkerRef, ServiceRef, MainRef, Held, Served, Waiting, At
  <2>2. (Has(c)' <=> Has(c)) /\ (At(c, "parsing")' <=> At(c, "parsing"))
    BY <1>1 DEF Has, At
  <2>3. ~Has(c) /\ ~At(c, "parsing")
    BY <1>0, <1>1 DEF ConnOK, Has, At
  <2>4. job[c].kind = "none" /\ job[c] = NoJob /\ job[c].refs = 0 /\ ~job[c].claimed
    BY <1>0, <1>1 DEF ConnOK, RequestOK, JobOK, NoJob
  <2>5. ConnOK(c)'
    BY <1>0, <1>1, <1>3, <1>4, <2>2, <2>3, <2>4 DEF ConnOK
  <2>6. VerdictOK(c)'
    BY <1>0, <1>1, <1>4, <2>2, <2>3, <2>4, NoVerdict DEF ConnOK
  <2> QED  BY <1>0, <2>1, <2>5, <2>6 DEF RequestOK
<1>8. ASSUME NEW d \in Requests \ {c} PROVE Same(d)
  BY <1>1, <1>3, <1>4 DEF Same, WorkerSame, QueueSame, SchedSame, MainSame
<1> QED  BY <1>6, <1>7, <1>8, OneRequest

LEMMA ShedKeeps ==
  ASSUME JobsInv, NEW c \in Conns, Shed(c)
  PROVE  JobsInv'
<1>0. /\ ShapeOK /\ TypeOK /\ RequestOK(c) /\ ConnOK(c) /\ c \in Requests /\ c \notin WarmUps
  BY Names DEF JobsInv, ShapeOK, RequestOK
<1>1. /\ conn[c].sock = "away"
      /\ conn' = [conn EXCEPT ![c] = Report(RespondAndClose([@ EXCEPT !.sock = "open"], "503"))]
      /\ UNCHANGED <<parked, shut, worker, job, stream, pending, stop, stopping, sched, slot, main>>
  BY DEF Shed
<1>2. /\ conn[c].reply = "none" /\ conn[c].reported = 0 /\ c \notin In(parked) /\ ~Has(c)
      /\ job[c].kind = "none" /\ job[c] = NoJob
  BY <1>0, <1>1 DEF ConnOK, RequestOK, JobOK
<1>3. PICK cn \in ConnType : cn = conn[c] /\ cn.sock = "away" /\ cn.reply = "none" /\ cn.reported = 0
  BY <1>0, <1>1, <1>2, Types
<1>4. PICK n \in ConnType : /\ n = Report(RespondAndClose([cn EXCEPT !.sock = "open"], "503"))
                            /\ n.sock = "closed" /\ n.reply = "503" /\ n.reported = 1
  <2>1. PICK opened \in ConnType : /\ opened = [cn EXCEPT !.sock = "open"]
                                   /\ opened.sock = "open" /\ opened.reply = "none" /\ opened.reported = 0
    <3>1. /\ [cn EXCEPT !.sock = "open"] \in ConnType /\ [cn EXCEPT !.sock = "open"].sock = "open"
          /\ [cn EXCEPT !.sock = "open"].reply = "none" /\ [cn EXCEPT !.sock = "open"].reported = 0
      BY <1>3 DEF ConnType, Socks
    <3> QED  BY <3>1
  <2>2. PICK r \in ConnType : /\ r = RespondAndClose(opened, "503")
                              /\ r.sock = "closed" /\ r.reply = "503" /\ r.reported = 0
    <3>1. "503" \in Replies
      BY DEF Replies
    <3>2. /\ RespondAndClose(opened, "503") \in ConnType
          /\ RespondAndClose(opened, "503").sock = "closed"
          /\ RespondAndClose(opened, "503").reply = "503"
          /\ RespondAndClose(opened, "503").reported = 0
      BY <2>1, <3>1, Responding
    <3> QED  BY <3>2
  <2> QED  BY <2>1, <2>2, Reporting
<1>5. conn' \in [Requests -> ConnType] /\ conn'[c] = n /\ \A d \in Requests \ {c} : conn'[d] = conn[d]
  BY <1>0, <1>1, <1>3, <1>4, Types
<1>6. ShapeOK'
  <2>1. TypeOK'
    BY <1>0, <1>1, <1>5, Types, TypesNext
  <2> QED  BY <1>0, <1>1, <2>1 DEF ShapeOK, WorkersOK, SchedOK, MainOK
<1>7. RequestOK(c)'
  <2>1. JobOK(c)'
    BY <1>0, <1>1 DEF RequestOK, JobOK, WorkerRef, ServiceRef, MainRef, Held, Served, Waiting, At
  <2>2. ~Has(c)' /\ ~At(c, "parsing")'
    BY <1>1, <1>2 DEF Has, At
  <2>3. job[c].refs = 0 /\ ~job[c].claimed
    BY <1>2 DEF NoJob
  <2>5. ConnOK(c)'
    BY <1>0, <1>1, <1>2, <1>4, <1>5, <2>2, <2>3 DEF ConnOK
  <2>6. VerdictOK(c)'
    BY <1>1, <1>2, <1>4, <1>5, <2>2, NoVerdict
  <2> QED  BY <1>0, <2>1, <2>5, <2>6 DEF RequestOK
<1>8. ASSUME NEW d \in Requests \ {c} PROVE Same(d)
  BY <1>1, <1>5 DEF Same, WorkerSame, QueueSame, SchedSame, MainSame
<1> QED  BY <1>6, <1>7, <1>8, OneRequest

\* No worker ever has a warm-up.
LEMMA NoWorkerHas ==
  ASSUME TypeOK, NEW c \in WarmUps
  PROVE  Where(c, "none")
<1>1. worker \in [Workers -> WorkerType]
  BY Types
<1>2. \A w \in Workers : worker[w].conn # c
  BY <1>1, Names DEF WorkerType, Requests
<1> QED  BY <1>2, Nowhere DEF Has

LEMMA NoWorkerHasNext ==
  ASSUME TypeOK', NEW c \in WarmUps
  PROVE  Where(c, "none")'
<1>1. worker' \in [Workers -> WorkerType]
  BY TypesNext
<1>2. \A w \in Workers : worker'[w].conn # c
  BY <1>1, Names DEF WorkerType, Requests
<1> QED  BY <1>2, NowhereNext

LEMMA SubmitWarmUpKeeps ==
  ASSUME JobsInv, NEW c \in WarmUps, SubmitWarmUp(c)
  PROVE  JobsInv'
<1>0. /\ ShapeOK /\ TypeOK /\ JobOK(c) /\ WarmOK(c) /\ c \in Requests /\ c \notin Conns
      /\ Where(c, "none")
  BY Names, NoWorkerHas DEF JobsInv, ShapeOK, RequestOK, Requests
<1>1. /\ main = "start"
      /\ UNCHANGED <<conn, parked, shut, worker, stream, stop, stopping, sched, slot>>
  BY DEF SubmitWarmUp
<1>2. job[c] = NoJob /\ job[c].refs = 0 /\ WorkerRef(c) = 0 /\ MainRef(c) = 0
  BY <1>0, <1>1 DEF JobOK, WarmOK, WorkerRef, MainRef, Held, Where, NoJob
<1>3. ~Served(c)
  BY <1>0, <1>2 DEF JobOK, ServiceRef
<1>4. CASE UNCHANGED <<job, pending>> /\ main' = "serving"
  <2>1. ShapeOK'
    <3>1. TypeOK'
      BY <1>0, <1>1, <1>4, Types, TypesNext
    <3> QED  BY <1>0, <1>1, <1>4, <3>1 DEF ShapeOK, WorkersOK, SchedOK, MainOK
  <2>2. RequestOK(c)'
    BY <1>0, <1>1, <1>2, <1>4
       DEF RequestOK, JobOK, WarmOK, WorkerRef, ServiceRef, MainRef, Held, Served, Waiting, At, NoJob
  <2>3. ASSUME NEW d \in Requests \ {c} PROVE Same(d)
    BY <1>1, <1>4, Names DEF Same, WorkerSame, QueueSame, SchedSame, MainSame
  <2> QED  BY <2>1, <2>2, <2>3, OneRequest
<1>5. CASE /\ main' = "warming" /\ pending' = Append(pending, c) /\ Len(pending) < MaxPending
           /\ job' = [job EXCEPT ![c] = [NewJob("batch") EXCEPT !.refs = 2]]
  <2>1. /\ pending' \in Seq(Requests) /\ Once(pending') /\ In(pending') = In(pending) \cup {c}
        /\ Len(pending') = Len(pending) + 1 /\ Len(pending) \in Nat
    BY <1>0, <1>3, <1>5, Types, AppendOnce DEF ShapeOK, Served
  <2>2. /\ job' \in [Requests -> JobType] /\ job'[c].refs = 2 /\ job'[c].kind = "batch"
        /\ ~job'[c].done /\ ~job'[c].gaveUp
        /\ \A d \in Requests \ {c} : job'[d] = job[d]
    <3>1. PICK n \in JobType : /\ n = NewJob("batch") /\ n.kind = "batch" /\ n.refs = 1
                               /\ ~n.done /\ ~n.gaveUp
      BY NewJobType DEF Kinds
    <3>2. PICK m \in JobType : /\ m = [n EXCEPT !.refs = 2] /\ m.kind = "batch" /\ m.refs = 2
                               /\ ~m.done /\ ~m.gaveUp
      <4>1. [n EXCEPT !.refs = 2] \in JobType /\ [n EXCEPT !.refs = 2].refs = 2
            /\ [n EXCEPT !.refs = 2].kind = n.kind /\ [n EXCEPT !.refs = 2].done = n.done
            /\ [n EXCEPT !.refs = 2].gaveUp = n.gaveUp
        BY DEF JobType
      <4> QED  BY <3>1, <4>1
    <3> QED  BY <1>0, <1>5, <3>1, <3>2, Types
  <2>3. TypeOK'
    <3>1. Len(pending') <= MaxPending
      BY <1>5, <2>1, JobAssumption
    <3> QED  BY <1>0, <1>1, <1>5, <2>1, <2>2, <3>1, Types, TypesNext
  <2>4. ShapeOK'
    BY <1>0, <1>1, <1>5, <2>1, <2>3 DEF ShapeOK, WorkersOK, SchedOK, MainOK
  <2>5. Where(c, "none")'
    BY <2>3, NoWorkerHasNext
  <2>6. JobOK(c)'
    BY <1>1, <1>3, <1>5, <2>1, <2>2, <2>5
       DEF JobOK, WorkerRef, ServiceRef, MainRef, Held, Served, Waiting, Where
  <2>7. WarmOK(c)'
    BY <1>0, <1>1, <1>5, <2>2 DEF WarmOK
  <2>8. ASSUME NEW d \in Requests \ {c} PROVE Same(d)
    BY <1>1, <2>1, <2>2, Names DEF Same, WorkerSame, QueueSame, SchedSame, MainSame
  <2> QED  BY <1>0, <2>4, <2>6, <2>7, <2>8, OneRequest DEF RequestOK
<1>6. stop \/ Len(pending) >= MaxPending \/ Len(pending) < MaxPending
  BY <1>0, Types, LenProperties, JobAssumption
<1> QED  BY <1>4, <1>5, <1>6, JobAssumption, Types, LenProperties, <1>0 DEF SubmitWarmUp

LEMMA WarmedUpKeeps ==
  ASSUME JobsInv, NEW c \in WarmUps, WarmedUp(c)
  PROVE  JobsInv'
<1>0. /\ ShapeOK /\ TypeOK /\ JobOK(c) /\ WarmOK(c) /\ c \in Requests /\ c \notin Conns
      /\ Where(c, "none")
  BY Names, NoWorkerHas DEF JobsInv, ShapeOK, RequestOK, Requests
<1>1. /\ main = "warming" /\ job[c].done /\ main' = "serving" /\ JobRelease(c, job[c], conn[c])
      /\ UNCHANGED <<parked, shut, worker, stream, pending, stop, stopping, sched, slot>>
  BY DEF WarmedUp
<1>2. /\ job[c] \in JobType /\ conn[c] \in ConnType /\ conn[c].reported # 2
      /\ WorkerRef(c) = 0 /\ MainRef(c) = 1 /\ ServiceRef(c) \in {0, 1}
  BY <1>0, <1>1, Types DEF WarmOK, WorkerRef, MainRef, ServiceRef, Held, Where
<1>3. job[c].refs # 0
  BY <1>0, <1>2 DEF JobOK
<1>4. /\ job' \in [Requests -> JobType] /\ conn' \in [Requests -> ConnType]
      /\ job'[c].refs = job[c].refs - 1 /\ job'[c].kind = job[c].kind /\ job'[c].gaveUp = job[c].gaveUp
      /\ job'[c].done = job[c].done /\ job'[c].claimed = job[c].claimed
      /\ conn'[c] = LastReference(c, job[c], conn[c])
      /\ \A d \in Requests \ {c} : job'[d] = job[d] /\ conn'[d] = conn[d]
  <2>1. PICK j \in JobType : j = job[c]
    BY <1>2
  <2>2. PICK cn \in ConnType : cn = conn[c]
    BY <1>2
  <2>3. JobRelease(c, j, cn) /\ j.refs # 0 /\ cn.reported # 2
    BY <1>1, <1>2, <1>3, <2>1, <2>2
  <2>4. /\ job' \in [Requests -> JobType] /\ conn' \in [Requests -> ConnType]
        /\ job'[c].refs = j.refs - 1 /\ job'[c].kind = j.kind /\ job'[c].gaveUp = j.gaveUp
        /\ job'[c].done = j.done /\ job'[c].claimed = j.claimed
        /\ conn'[c] = LastReference(c, j, cn)
        /\ \A d \in Requests \ {c} : job'[d] = job[d] /\ conn'[d] = conn[d]
    BY <1>0, <2>3, Released
  <2> QED  BY <2>1, <2>2, <2>4
<1>5. conn'[c] = conn[c]
  <2>1. LastReference(c, job[c], conn[c]) = conn[c]
    BY <1>0, Zenon DEF LastReference
  <2> QED  BY <1>4, <2>1
<1>6. ShapeOK'
  <2>1. TypeOK'
    BY <1>0, <1>1, <1>4, Types, TypesNext
  <2> QED  BY <1>0, <1>1, <2>1 DEF ShapeOK, WorkersOK, SchedOK, MainOK
<1>7. JobOK(c)'
  <2>1. Where(c, "none")'
    BY <1>6, NoWorkerHasNext DEF ShapeOK
  <2>2. WorkerRef(c)' = 0 /\ MainRef(c)' = 0 /\ ServiceRef(c)' = ServiceRef(c)
    BY <1>1, <2>1 DEF WorkerRef, MainRef, ServiceRef, Served, Held, Where
  <2>3. job'[c].refs = WorkerRef(c)' + ServiceRef(c)' + MainRef(c)'
    BY <1>0, <1>2, <1>4, <2>2 DEF JobOK
  <2>4. job[c].kind # "none"
    BY <1>0, <1>1 DEF JobOK, NoJob
  <2> QED  BY <1>0, <1>1, <1>4, <2>1, <2>3, <2>4 DEF JobOK, Served, Waiting, Where
<1>8. WarmOK(c)'
  BY <1>0, <1>1, <1>4, <1>5 DEF WarmOK
<1>9. ASSUME NEW d \in Requests \ {c} PROVE Same(d)
  BY <1>1, <1>4, Names DEF Same, WorkerSame, QueueSame, SchedSame, MainSame
<1> QED  BY <1>0, <1>6, <1>7, <1>8, <1>9, OneRequest DEF RequestOK

\* The steps of the shutdown that touch no request.
LEMMA ShutdownStepsKeep ==
  ASSUME JobsInv, Shutdown \/ StopScheduler \/ JoinScheduler
  PROVE  JobsInv'
<1>0. ShapeOK /\ TypeOK
  BY DEF JobsInv, ShapeOK
<1>1. /\ UNCHANGED <<conn, parked, worker, job, stream, pending, sched, slot>>
      /\ main \in {"serving", "joining", "stopping"} /\ main' \in {"joining", "stopping", "draining"}
      /\ shut' \in BOOLEAN /\ stop' \in BOOLEAN /\ stopping' \in BOOLEAN
  BY <1>0, Types DEF Shutdown, StopScheduler, JoinScheduler
<1>2. TypeOK'
  BY <1>0, <1>1, Types, TypesNext
<1>3. MainOK'
  BY <1>0, <1>1 DEF ShapeOK, MainOK, Shutdown, StopScheduler, JoinScheduler
<1>4. ShapeOK'
  BY <1>0, <1>1, <1>2, <1>3 DEF ShapeOK, WorkersOK, SchedOK
<1>5. ASSUME NEW d \in Requests PROVE Same(d)
  BY <1>1 DEF Same, WorkerSame, QueueSame, SchedSame, MainSame
<1> QED  BY <1>4, <1>5, OneRequest, Names

\* drain_pending_jobs(): nobody else is left that could have the job.
LEMMA DrainJobKeeps ==
  ASSUME JobsInv, DrainJob
  PROVE  JobsInv'
<1>0. ShapeOK /\ TypeOK
  BY DEF JobsInv, ShapeOK
<1>1. /\ main = "draining" /\ pending # <<>> /\ pending' = Tail(pending)
      /\ UNCHANGED <<parked, shut, worker, stream, stop, stopping, sched, slot, main>>
  BY DEF DrainJob
<1>2. /\ Head(pending) \in Requests /\ Head(pending) \in In(pending) /\ Once(pending')
      /\ pending' \in Seq(Requests) /\ In(pending') = In(pending) \ {Head(pending)}
      /\ Len(pending') = Len(pending) - 1 /\ Len(pending) \in Nat \ {0}
  BY <1>0, <1>1, Types, TailOnce DEF ShapeOK
<1>3. PICK c \in Requests : c = Head(pending)
  BY <1>2
<1>4. /\ JobOK(c) /\ (c \in Conns => ConnOK(c) /\ VerdictOK(c)) /\ (c \in WarmUps => WarmOK(c))
  BY DEF JobsInv, RequestOK
<1>5. ~Has(c) /\ Where(c, "none")
  <2>1. \A w \in Workers : worker[w].conn = Nobody
    BY <1>0, <1>1 DEF ShapeOK, WorkersOK, MainOK
  <2> QED  BY <2>1, Names, Nowhere DEF Has
<1>6. sched.conn = Nobody /\ slot[c] = "none"
  BY <1>0, <1>1 DEF ShapeOK, MainOK, SchedOK
<1>7. WorkerRef(c) = 0 /\ ServiceRef(c) = 1 /\ MainRef(c) = 0
  BY <1>1, <1>2, <1>3, <1>5 DEF WorkerRef, ServiceRef, MainRef, Held, Served, Where
<1>8. job[c].refs = 1 /\ ~job[c].done /\ job[c] \in JobType
  BY <1>0, <1>2, <1>3, <1>4, <1>7, Types DEF JobOK, Waiting
<1>9. c \in Conns /\ c \notin WarmUps /\ ConnOK(c) /\ VerdictOK(c)
  <2>1. job[c].kind # "none"
    BY <1>4, <1>8 DEF JobOK, NoJob
  <2> QED  BY <1>1, <1>4, <1>8, <2>1, Names DEF WarmOK
<1>10. PICK j \in JobType : /\ j = Claimed([job[c] EXCEPT !.done = TRUE, !.error = TRUE])
                            /\ j.refs = 1 /\ j.claimed /\ j.done /\ j.sound = job[c].sound /\ j.late = job[c].late
                            /\ j.gaveUp = job[c].gaveUp /\ j.kind = job[c].kind
  <2>1. PICK i \in JobType : /\ i = [job[c] EXCEPT !.done = TRUE, !.error = TRUE]
                            /\ i.refs = 1 /\ i.done /\ i.sound = job[c].sound /\ i.late = job[c].late
                            /\ i.gaveUp = job[c].gaveUp /\ i.kind = job[c].kind
    <3>1. [job[c] EXCEPT !.done = TRUE, !.error = TRUE] \in JobType
      BY <1>8 DEF JobType
    <3> QED  BY <1>8, <3>1 DEF JobType
  <2>2. Claimed(i) \in JobType
    BY DEF Claimed, JobType
  <2> QED  BY <2>1, <2>2 DEF Claimed, JobType
<1>11. PICK cn \in ConnType : /\ cn = RespondOnce(job[c], conn[c], "503") /\ cn.reported = 0
                              /\ cn.sock \in {"open", "closed"} /\ cn.reply # "garbled"
                              /\ cn.reply = "503" \/ cn.reply = conn[c].reply
                              /\ cn.sock = "open" <=> stream[c].writer = "writing"
  <2>1. conn[c] \in ConnType /\ "503" \in Replies /\ conn[c].reported = 0
    BY <1>0, <1>8, <1>9, Types DEF ConnOK, Replies
  <2>2. CASE job[c].claimed
    <3>1. RespondOnce(job[c], conn[c], "503") = conn[c]
      BY <2>2 DEF RespondOnce
    <3>2. conn[c].sock \in {"open", "closed"} /\ conn[c].reply # "garbled"
      BY <1>8, <1>9, <2>1, <2>2 DEF ConnOK, ConnType, Socks, JobType
    <3>3. conn[c].sock = "open" <=> stream[c].writer = "writing"
      BY <1>9, <2>2 DEF ConnOK
    <3> QED  BY <2>1, <3>1, <3>2, <3>3
  <2>3. CASE ~job[c].claimed
    <3>1. RespondOnce(job[c], conn[c], "503") = RespondAndClose(conn[c], "503")
      BY <2>3 DEF RespondOnce
    <3>2. conn[c].sock = "open" /\ conn[c].reply = "none" /\ stream[c].writer = "none"
      BY <1>8, <1>9, <2>3 DEF ConnOK
    <3>3. /\ RespondAndClose(conn[c], "503") \in ConnType
          /\ RespondAndClose(conn[c], "503").sock = "closed"
          /\ RespondAndClose(conn[c], "503").reply = "503"
          /\ RespondAndClose(conn[c], "503").reported = 0
      BY <2>1, <3>2, Responding
    <3> QED  BY <3>1, <3>2, <3>3
  <2> QED  BY <2>2, <2>3
<1>12. JobRelease(c, j, cn)
  BY <1>3, <1>10, <1>11 DEF DrainJob
<1>13. /\ job' \in [Requests -> JobType] /\ conn' \in [Requests -> ConnType]
       /\ job'[c].refs = 0 /\ job'[c].kind = job[c].kind /\ job'[c].done /\ job'[c].claimed
       /\ job'[c].sound = job[c].sound /\ job'[c].gaveUp = job[c].gaveUp
       /\ \A d \in Requests \ {c} : job'[d] = job[d] /\ conn'[d] = conn[d]
  BY <1>0, <1>10, <1>11, <1>12, Released
<1>14. ShapeOK'
  <2>1. TypeOK'
    <3>1. Len(pending') <= MaxPending
      BY <1>0, <1>2, Types, JobAssumption
    <3> QED  BY <1>0, <1>1, <1>2, <1>13, <3>1, Types, TypesNext
  <2> QED  BY <1>0, <1>1, <1>2, <2>1 DEF ShapeOK, WorkersOK, SchedOK, MainOK
<1>15. JobOK(c)'
  <2>1. Where(c, "none")'
    BY <1>1, <1>5, NowhereNext DEF Has
  <2>2. ~Served(c)' /\ ~Waiting(c)' /\ MainRef(c)' = 0
    BY <1>1, <1>2, <1>3, <1>6, <1>9, Names DEF Served, Waiting, MainRef
  <2>3. job'[c].kind # "none"
    BY <1>4, <1>8, <1>13 DEF JobOK, NoJob
  <2> QED  BY <1>1, <1>6, <1>13, <2>1, <2>2, <2>3
           DEF JobOK, WorkerRef, ServiceRef, Held, Where, Served, Waiting
<1>16. ConnOK(c)' /\ conn'[c].reply = cn.reply
  <2>1. ~Has(c)' /\ ~At(c, "parsing")' /\ stream'[c] = stream[c]
    BY <1>1, <1>5 DEF Has, At
  <2>2. c \notin In(parked)'
    <3>1. job[c].kind # "none"
      BY <1>4, <1>8 DEF JobOK, NoJob
    <3> QED  BY <1>1, <1>9, <3>1 DEF ConnOK
  <2> QED  BY <1>0, <1>9, <1>10, <1>11, <1>12, <2>1, <2>2, ReleaseConn
<1>17. VerdictOK(c)'
  <2>1. ~At(c, "late") /\ ~At(c, "submit")' /\ ~At(c, "wait")' /\ ~At(c, "late")' /\ ~At(c, "answer")'
    BY <1>1, <1>5 DEF Where, Has, At
  <2>2. job[c].gaveUp => cn.reply = conn[c].reply
    BY <1>9, <1>11, <2>1 DEF VerdictOK, RespondOnce
  <2> QED  BY <1>8, <1>9, <1>11, <1>13, <1>16, <2>1, <2>2 DEF VerdictOK
<1>18. ASSUME NEW d \in Requests \ {c} PROVE Same(d)
  BY <1>1, <1>2, <1>3, <1>13 DEF Same, WorkerSame, QueueSame, SchedSame, MainSame
<1> QED  BY <1>9, <1>14, <1>15, <1>16, <1>17, <1>18, OneRequest DEF RequestOK

\* What is still parked is closed and reported.
LEMMA ExitKeeps ==
  ASSUME JobsInv, Exit
  PROVE  JobsInv'
<1>0. ShapeOK /\ TypeOK
  BY DEF JobsInv, ShapeOK
<1>1. /\ main = "draining" /\ pending = <<>> /\ main' = "exited" /\ parked' = <<>>
      /\ conn' = [c \in Requests |-> IF \E i \in DOMAIN parked : parked[i] = c
                                     THEN ConnClose(conn[c]) ELSE conn[c]]
      /\ UNCHANGED <<shut, worker, job, stream, pending, stop, stopping, sched, slot>>
  BY DEF Exit
<1>2. ASSUME NEW c \in Requests, c \in In(parked)
      PROVE  /\ c \in Conns /\ JobOK(c) /\ ConnOK(c)
             /\ conn[c].sock = "open" /\ conn[c].reply = "none" /\ conn[c].reported = 0
             /\ job[c] = NoJob /\ ~Has(c) /\ stream[c].writer = "none"
             /\ conn'[c] \in ConnType /\ conn'[c].sock = "closed" /\ conn'[c].reply = "none"
             /\ conn'[c].reported = 1
  <2>1. PICK i \in DOMAIN parked : parked[i] = c
    BY <1>2 DEF In
  <2>2. c \in Conns
    BY <1>0, <2>1, Types, ElementOfSeq, LenProperties
  <2>3. /\ JobOK(c) /\ ConnOK(c)
        /\ conn[c].sock = "open" /\ conn[c].reply = "none" /\ conn[c].reported = 0
        /\ job[c].kind = "none" /\ ~Has(c)
    BY <1>2, <2>2 DEF JobsInv, RequestOK, ConnOK
  <2>4. job[c] = NoJob /\ stream[c].writer = "none"
    BY <2>3 DEF JobOK, ConnOK, NoJob
  <2>5. conn'[c] = Report(CloseFd(conn[c])) /\ conn[c] \in ConnType
    BY <1>0, <1>1, <2>1, Types DEF ConnClose
  <2>6. PICK n \in ConnType : /\ n = CloseFd(conn[c]) /\ n.sock = "closed" /\ n.reply = "none"
                             /\ n.reported = 0
    BY <2>3, <2>5, Closing
  <2> QED  BY <2>2, <2>3, <2>4, <2>5, <2>6, Reporting
<1>3. ASSUME NEW c \in Requests, c \notin In(parked) PROVE conn'[c] = conn[c]
  BY <1>1, <1>3 DEF In
<1>4. conn' \in [Requests -> ConnType]
  <2>1. \A c \in Requests : conn'[c] \in ConnType
    BY <1>0, <1>2, <1>3, Types
  <2>2. conn' = [c \in Requests |-> conn'[c]]
    BY <1>1
  <2> QED  BY <2>1, <2>2
<1>5. In(parked') = {} /\ parked' \in Seq(Conns) /\ Len(parked') = 0 /\ Once(parked')
  BY <1>1, EmptySeq DEF In, Once
<1>6. ShapeOK'
  <2>1. TypeOK'
    BY <1>0, <1>1, <1>4, <1>5, Types, TypesNext, JobAssumption
  <2> QED  BY <1>0, <1>1, <1>5, <2>1 DEF ShapeOK, WorkersOK, SchedOK, MainOK
<1>7. ASSUME NEW c \in Requests, c \in In(parked) PROVE RequestOK(c)'
  <2>1. c \in Conns /\ c \notin WarmUps
    BY <1>2, <1>7, Names
  <2>2. JobOK(c)'
    BY <1>1, <1>2, <1>7, <2>1
       DEF JobOK, WorkerRef, ServiceRef, MainRef, Held, Served, Waiting, At
  <2>3. ~Has(c)' /\ ~At(c, "parsing")'
    BY <1>1, <1>2, <1>7 DEF Has, At
  <2>4. job'[c].refs = 0 /\ stream'[c].writer = "none" /\ job'[c].kind = "none" /\ ~job'[c].claimed
    BY <1>1, <1>2, <1>7 DEF NoJob
  <2>5. ConnOK(c)'
    BY <1>2, <1>5, <1>7, <2>3, <2>4 DEF ConnOK
  <2>6. VerdictOK(c)'
    BY <1>1, <1>2, <1>7, <2>3, NoVerdict
  <2> QED  BY <2>1, <2>2, <2>5, <2>6 DEF RequestOK
<1>8. ASSUME NEW d \in Requests, d \notin In(parked) PROVE RequestOK(d)'
  <2>1. Same(d)
    BY <1>1, <1>3, <1>5, <1>8 DEF Same, WorkerSame, QueueSame, SchedSame, MainSame
  <2> QED  BY <2>1, SameKeeps DEF JobsInv
<1> QED  BY <1>6, <1>7, <1>8 DEF JobsInv

-----------------------------------------------------------------------------
(* The workers.                                                            *)

Busy == {"parsing", "submit", "wait", "late", "answer", "release"}

\* A worker with a connection: it is a client's, and the shutdown waits for it.
LEMMA Mine ==
  ASSUME ShapeOK, NEW w \in Workers, worker[w].at \in Busy, NEW c, c = worker[w].conn
  PROVE  /\ c \in Conns /\ c \in Requests /\ c \notin WarmUps /\ c # Nobody
         /\ Where(c, worker[w].at) /\ main \notin {"stopping", "draining", "exited"}
<1>1. worker[w] \in WorkerType /\ worker[w].conn # Nobody
  BY Types DEF ShapeOK, WorkersOK, Busy
<1>2. c \in Conns /\ c \in Requests /\ c \notin WarmUps /\ c # Nobody
  BY <1>1, Names DEF WorkerType
<1>3. Where(c, worker[w].at)
  BY <1>2, Here DEF ShapeOK, Busy
<1>4. main \notin {"stopping", "draining", "exited"}
  BY DEF ShapeOK, MainOK, Busy
<1> QED  BY <1>2, <1>3, <1>4

\* It goes on with the same connection.
LEMMA Onward ==
  ASSUME ShapeOK, NEW w \in Workers, worker[w].at \in Busy, NEW c, c = worker[w].conn,
         NEW at \in Busy, Move(w, at, c)
  PROVE  /\ worker' \in [Workers -> WorkerType] /\ WorkersOK' /\ Where(c, at)'
         /\ \A d \in Requests \ {c} : WorkerSame(d)
<1>1. c \in Conns /\ c # Nobody
  BY Mine
<1>2. /\ worker' \in [Workers -> WorkerType] /\ WorkersOK'
      /\ worker'[w].at = at /\ worker'[w].conn = c
      /\ \A v \in Workers \ {w} : worker'[v] = worker[v]
  <2>1. c = Nobody <=> at \in {"idle", "gone"}
    BY <1>1 DEF Busy
  <2>2. at \in {"idle", "parsing", "submit", "wait", "late", "answer", "release", "gone"}
    BY DEF Busy
  <2> QED  BY <1>1, <2>1, <2>2, Moved DEF ShapeOK
<1>3. Where(c, at)'
  BY <1>1, <1>2, HereNext DEF Busy
<1>4. \A d \in Requests \ {c} : WorkerSame(d)
  BY <1>2 DEF WorkerSame
<1> QED  BY <1>2, <1>3, <1>4

\* It is done with its connection.
LEMMA Freed ==
  ASSUME ShapeOK, NEW w \in Workers, worker[w].at \in Busy, NEW c, c = worker[w].conn, Free(w)
  PROVE  /\ worker' \in [Workers -> WorkerType] /\ WorkersOK' /\ Where(c, "none")' /\ ~Has(c)'
         /\ \A d \in Requests \ {c} : WorkerSame(d)
<1>1. c \in Conns /\ c # Nobody
  BY Mine
<1>2. /\ worker' \in [Workers -> WorkerType] /\ WorkersOK'
      /\ worker'[w].at = "idle" /\ worker'[w].conn = Nobody
      /\ \A v \in Workers \ {w} : worker'[v] = worker[v]
  <2>1. Move(w, "idle", Nobody)
    BY DEF Free
  <2> QED  BY <2>1, Moved DEF ShapeOK
<1>3. \A v \in Workers : worker'[v].conn # c
  BY <1>1, <1>2 DEF ShapeOK, WorkersOK
<1>4. \A d \in Requests \ {c} : WorkerSame(d)
  BY <1>2, Names DEF WorkerSame
<1> QED  BY <1>2, <1>3, <1>4, NowhereNext DEF Has

LEMMA TakeConnKeeps ==
  ASSUME JobsInv, NEW w \in Workers, TakeConn(w)
  PROVE  JobsInv'
<1>0. ShapeOK /\ TypeOK /\ WorkersOK
  BY DEF JobsInv, ShapeOK
<1>1. /\ worker[w].at = "idle" /\ parked # <<>>
      /\ Move(w, "parsing", Head(parked)) /\ parked' = Tail(parked)
      /\ UNCHANGED <<conn, shut, job, stream, pending, stop, stopping, sched, slot, main>>
  BY DEF TakeConn
<1>2. /\ Head(parked) \in Conns /\ Head(parked) \in In(parked) /\ Once(parked')
      /\ parked' \in Seq(Conns) /\ In(parked') = In(parked) \ {Head(parked)}
      /\ Len(parked') = Len(parked) - 1 /\ Len(parked) \in Nat \ {0}
  BY <1>0, <1>1, Types, TailOnce DEF ShapeOK
<1>3. PICK c \in Conns : c = Head(parked)
  BY <1>2
<1>4. /\ c \in Requests /\ c \notin WarmUps /\ c # Nobody /\ JobOK(c) /\ ConnOK(c) /\ VerdictOK(c)
      /\ ~Has(c)
  BY <1>2, <1>3, Names DEF JobsInv, RequestOK, ConnOK
<1>5. /\ worker' \in [Workers -> WorkerType] /\ WorkersOK'
      /\ worker'[w].at = "parsing" /\ worker'[w].conn = c
      /\ \A v \in Workers \ {w} : worker'[v] = worker[v]
  BY <1>0, <1>1, <1>3, <1>4, Moved
<1>6. Where(c, "none") /\ Where(c, "parsing")'
  BY <1>4, <1>5, Nowhere, HereNext
<1>7. main \notin {"stopping", "draining", "exited"}
  BY <1>0, <1>1 DEF ShapeOK, MainOK
<1>8. ShapeOK'
  <2>1. Len(parked') <= ParkCap
    BY <1>0, <1>2, Types, JobAssumption
  <2>2. TypeOK'
    BY <1>0, <1>1, <1>2, <1>5, <2>1, Types, TypesNext
  <2> QED  BY <1>0, <1>1, <1>2, <1>5, <1>7, <2>2 DEF ShapeOK, SchedOK, MainOK
<1>9. RequestOK(c)'
  <2>1. JobOK(c)'
    BY <1>1, <1>4, <1>6 DEF JobOK, WorkerRef, ServiceRef, MainRef, Held, Served, Waiting, Where
  <2>2. ConnOK(c)'
    BY <1>1, <1>2, <1>3, <1>4, <1>6 DEF ConnOK, Where
  <2>3. job[c].kind = "none" /\ conn[c].reply = "none"
    BY <1>2, <1>3, <1>4 DEF ConnOK
  <2>4. ~job[c].gaveUp
    BY <1>4, <2>3 DEF JobOK, NoJob
  <2>5. VerdictOK(c)'
    BY <1>1, <1>6, <2>3, <2>4 DEF VerdictOK, Where
  <2> QED  BY <1>4, <2>1, <2>2, <2>5 DEF RequestOK
<1>10. ASSUME NEW d \in Requests \ {c} PROVE Same(d)
  <2>1. WorkerSame(d)
    BY <1>0, <1>1, <1>5, Names DEF WorkerSame, WorkersOK
  <2> QED  BY <1>1, <1>2, <1>3, <2>1 DEF Same, QueueSame, SchedSame, MainSame
<1> QED  BY <1>8, <1>9, <1>10, OneRequest

LEMMA LeaveKeeps ==
  ASSUME JobsInv, NEW w \in Workers, Leave(w)
  PROVE  JobsInv'
<1>0. ShapeOK /\ TypeOK /\ WorkersOK
  BY DEF JobsInv, ShapeOK
<1>1. /\ worker[w].at = "idle" /\ Move(w, "gone", Nobody)
      /\ UNCHANGED <<conn, parked, shut, job, stream, pending, stop, stopping, sched, slot, main>>
  BY DEF Leave
<1>2. /\ worker' \in [Workers -> WorkerType] /\ WorkersOK'
      /\ worker'[w].at = "gone" /\ worker'[w].conn = Nobody
      /\ \A v \in Workers \ {w} : worker'[v] = worker[v]
  BY <1>0, <1>1, Moved
<1>3. ShapeOK'
  <2>1. TypeOK'
    BY <1>0, <1>1, <1>2, Types, TypesNext
  <2>2. \A v \in Workers : worker[v].at = "gone" => worker'[v].at = "gone"
    BY <1>2
  <2> QED  BY <1>0, <1>1, <1>2, <2>1, <2>2 DEF ShapeOK, SchedOK, MainOK
<1>4. ASSUME NEW d \in Requests PROVE Same(d)
  <2>1. WorkerSame(d)
    BY <1>0, <1>1, <1>2, Names DEF WorkerSame, WorkersOK
  <2> QED  BY <1>1, <2>1 DEF Same, QueueSame, SchedSame, MainSame
<1> QED  BY <1>3, <1>4, OneRequest, Names

LEMMA AnswerDirectlyKeeps ==
  ASSUME JobsInv, NEW w \in Workers, AnswerDirectly(w)
  PROVE  JobsInv'
<1>0. ShapeOK /\ TypeOK
  BY DEF JobsInv, ShapeOK
<1>1. PICK c : c = worker[w].conn
  OBVIOUS
<1>2. /\ worker[w].at = "parsing" /\ Free(w)
      /\ \E answered \in {conn[c], Answer(conn[c], "other")} :
           conn' = [conn EXCEPT ![c] = ConnClose(answered)]
      /\ UNCHANGED <<parked, shut, job, stream, pending, stop, stopping, sched, slot, main>>
  BY <1>1 DEF AnswerDirectly
<1>3. /\ c \in Conns /\ c \in Requests /\ c \notin WarmUps /\ Where(c, "parsing")
      /\ main \notin {"stopping", "draining", "exited"}
  <2>1. worker[w].at \in Busy
    BY <1>2 DEF Busy
  <2> QED  BY <1>0, <1>1, <1>2, <2>1, Mine
<1>4. JobOK(c) /\ ConnOK(c) /\ At(c, "parsing") /\ Has(c)
  BY <1>3 DEF JobsInv, RequestOK, Where
<1>5. /\ conn[c].sock = "open" /\ conn[c].reply = "none" /\ conn[c].reported = 0
      /\ job[c].kind = "none" /\ job[c] = NoJob /\ c \notin In(parked)
      /\ stream[c].writer = "none" /\ conn[c] \in ConnType
  <2>1. /\ conn[c].sock = "open" /\ conn[c].reply = "none" /\ conn[c].reported = 0
        /\ job[c].kind = "none" /\ c \notin In(parked)
    BY <1>4 DEF ConnOK
  <2>2. job[c] = NoJob /\ stream[c].writer = "none"
    BY <1>4, <2>1 DEF JobOK, ConnOK, NoJob
  <2> QED  BY <1>0, <1>3, <2>1, <2>2, Types
<1>6. PICK n \in ConnType : /\ conn' = [conn EXCEPT ![c] = n] /\ n.sock = "closed"
                            /\ n.reply \in {"none", "other"} /\ n.reported = 1
  <2>1. PICK a \in ConnType : /\ conn' = [conn EXCEPT ![c] = ConnClose(a)] /\ a.sock = "open"
                             /\ a.reply \in {"none", "other"} /\ a.reported = 0
    <3>1. "other" \in Replies
      BY DEF Replies
    <3>2. /\ Answer(conn[c], "other") \in ConnType /\ Answer(conn[c], "other").sock = "open"
          /\ Answer(conn[c], "other").reply = "other" /\ Answer(conn[c], "other").reported = 0
      BY <1>5, <3>1, Answering
    <3> QED  BY <1>2, <1>5, <3>2
  <2>2. PICK b \in ConnType : /\ b = CloseFd(a) /\ b.sock = "closed"
                             /\ b.reply = a.reply /\ b.reported = 0
    BY <2>1, Closing
  <2>3. ConnClose(a) = Report(b) /\ Report(b) \in ConnType /\ Report(b).reported = 1
        /\ Report(b).reply = b.reply /\ Report(b).sock = b.sock
    BY <2>2, Reporting DEF ConnClose
  <2> QED  BY <2>1, <2>2, <2>3
<1>7. conn' \in [Requests -> ConnType] /\ conn'[c] = n /\ \A d \in Requests \ {c} : conn'[d] = conn[d]
  BY <1>0, <1>3, <1>6, Types
<1>8. /\ worker' \in [Workers -> WorkerType] /\ WorkersOK' /\ Where(c, "none")' /\ ~Has(c)'
      /\ \A d \in Requests \ {c} : WorkerSame(d)
  <2>1. worker[w].at \in Busy
    BY <1>2 DEF Busy
  <2> QED  BY <1>0, <1>1, <1>2, <2>1, Freed
<1>9. ShapeOK'
  <2>1. TypeOK'
    BY <1>0, <1>2, <1>7, <1>8, Types, TypesNext
  <2> QED  BY <1>0, <1>2, <1>3, <1>8, <2>1 DEF ShapeOK, SchedOK, MainOK
<1>10. JobOK(c)'
  BY <1>2, <1>3, <1>4, <1>8 DEF JobOK, WorkerRef, ServiceRef, MainRef, Held, Served, Waiting, Where
<1>11. ConnOK(c)' /\ VerdictOK(c)'
  <2>1. job'[c].refs = 0 /\ job'[c].kind = "none" /\ ~job'[c].claimed /\ stream'[c].writer = "none"
        /\ c \notin In(parked')
    BY <1>2, <1>5 DEF NoJob
  <2>2. ConnOK(c)'
    BY <1>6, <1>7, <1>8, <2>1 DEF ConnOK, Where
  <2> QED  BY <1>2, <1>5, <1>6, <1>7, <1>8, <2>2, NoVerdict
<1>12. ASSUME NEW d \in Requests \ {c} PROVE Same(d)
  BY <1>2, <1>7, <1>8 DEF Same, QueueSame, SchedSame, MainSame
<1> QED  BY <1>3, <1>9, <1>10, <1>11, <1>12, OneRequest DEF RequestOK

LEMMA BuildJobKeeps ==
  ASSUME JobsInv, NEW w \in Workers, NEW k \in Kinds, BuildJob(w, k)
  PROVE  JobsInv'
<1>0. ShapeOK /\ TypeOK
  BY DEF JobsInv, ShapeOK
<1>1. PICK c : c = worker[w].conn
  OBVIOUS
<1>2. /\ worker[w].at = "parsing" /\ Move(w, "submit", c) /\ job' = [job EXCEPT ![c] = NewJob(k)]
      /\ UNCHANGED <<conn, parked, shut, stream, pending, stop, stopping, sched, slot, main>>
  BY <1>1 DEF BuildJob
<1>3. "parsing" \in Busy /\ "submit" \in Busy
  BY DEF Busy
<1>4. /\ c \in Conns /\ c \in Requests /\ c \notin WarmUps /\ Where(c, "parsing")
      /\ main \notin {"stopping", "draining", "exited"}
  BY <1>0, <1>1, <1>2, <1>3, Mine
<1>5. JobOK(c) /\ ConnOK(c) /\ At(c, "parsing")
  BY <1>4 DEF JobsInv, RequestOK, Where
<1>6. /\ conn[c].sock = "open" /\ conn[c].reply = "none" /\ conn[c].reported = 0
      /\ job[c] = NoJob /\ job[c].refs = 0 /\ c \notin In(parked) /\ stream[c].writer = "none"
  <2>1. /\ conn[c].sock = "open" /\ conn[c].reply = "none" /\ conn[c].reported = 0
        /\ job[c].kind = "none" /\ c \notin In(parked)
    BY <1>4, <1>5 DEF ConnOK, Where
  <2> QED  BY <1>5, <2>1 DEF JobOK, ConnOK, NoJob
<1>7. ~Served(c)
  BY <1>4, <1>5, <1>6 DEF JobOK, WorkerRef, ServiceRef, MainRef
<1>8. /\ job' \in [Requests -> JobType] /\ job'[c].kind = k /\ job'[c].refs = 1 /\ ~job'[c].claimed
      /\ ~job'[c].done /\ ~job'[c].gaveUp /\ \A d \in Requests \ {c} : job'[d] = job[d]
  BY <1>0, <1>2, <1>4, Types, NewJobType
<1>9. /\ worker' \in [Workers -> WorkerType] /\ WorkersOK' /\ Where(c, "submit")'
      /\ \A d \in Requests \ {c} : WorkerSame(d)
  BY <1>0, <1>1, <1>2, <1>3, Onward
<1>10. ShapeOK'
  <2>1. TypeOK'
    BY <1>0, <1>2, <1>8, <1>9, Types, TypesNext
  <2> QED  BY <1>0, <1>2, <1>4, <1>9, <2>1 DEF ShapeOK, SchedOK, MainOK
<1>11. JobOK(c)'
  <2>1. ~Served(c)' /\ k # "none"
    BY <1>2, <1>7 DEF Served, Kinds
  <2> QED  BY <1>2, <1>4, <1>8, <1>9, <2>1
           DEF JobOK, WorkerRef, ServiceRef, MainRef, Held, Served, Waiting, Where
<1>12. ConnOK(c)' /\ VerdictOK(c)'
  BY <1>2, <1>6, <1>8, <1>9 DEF ConnOK, VerdictOK, Where
<1>13. ASSUME NEW d \in Requests \ {c} PROVE Same(d)
  BY <1>2, <1>8, <1>9 DEF Same, QueueSame, SchedSame, MainSame
<1> QED  BY <1>4, <1>10, <1>11, <1>12, <1>13, OneRequest DEF RequestOK

LEMMA SubmitKeeps ==
  ASSUME JobsInv, NEW w \in Workers, Submit(w)
  PROVE  JobsInv'
<1>0. ShapeOK /\ TypeOK
  BY DEF JobsInv, ShapeOK
<1>1. PICK c : c = worker[w].conn
  OBVIOUS
<1>2. /\ worker[w].at = "submit" /\ Len(pending) < MaxPending /\ pending' = Append(pending, c)
      /\ job' = [job EXCEPT ![c].refs = @ + 1]
      /\ Move(w, IF job[c].kind = "stream" THEN "release" ELSE "wait", c)
      /\ UNCHANGED <<conn, parked, shut, stream, stop, stopping, sched, slot, main>>
  BY <1>1 DEF Submit
<1>3. PICK at \in Busy : at = (IF job[c].kind = "stream" THEN "release" ELSE "wait") /\ Move(w, at, c)
  BY <1>2 DEF Busy
<1>4. /\ c \in Conns /\ c \in Requests /\ c \notin WarmUps /\ Where(c, "submit")
      /\ main \notin {"stopping", "draining", "exited"}
  <2>1. "submit" \in Busy
    BY DEF Busy
  <2> QED  BY <1>0, <1>1, <1>2, <2>1, Mine
<1>5. JobOK(c) /\ ConnOK(c) /\ VerdictOK(c) /\ At(c, "submit") /\ Has(c)
  BY <1>4 DEF JobsInv, RequestOK, Where
<1>6. ~Served(c) /\ ~job[c].claimed /\ ~job[c].done /\ job[c].refs = 1
  BY <1>4, <1>5 DEF JobOK, WorkerRef, ServiceRef, MainRef, Held, Where
<1>7. job[c].kind # "none" /\ job[c] \in JobType
  BY <1>0, <1>4, <1>5, <1>6, Types DEF JobOK, NoJob
<1>8. /\ job' \in [Requests -> JobType] /\ job'[c].refs = 2 /\ job'[c].kind = job[c].kind
      /\ job'[c].claimed = job[c].claimed /\ job'[c].done = job[c].done /\ job'[c].sound = job[c].sound
      /\ job'[c].gaveUp = job[c].gaveUp
      /\ \A d \in Requests \ {c} : job'[d] = job[d]
  <2>1. job' = [job EXCEPT ![c] = [job[c] EXCEPT !.refs = @ + 1]]
    BY <1>2
  <2>2. PICK n \in JobType : /\ n = [job[c] EXCEPT !.refs = @ + 1] /\ n.refs = 2 /\ n.kind = job[c].kind
                             /\ n.claimed = job[c].claimed /\ n.done = job[c].done /\ n.sound = job[c].sound
                             /\ n.gaveUp = job[c].gaveUp
    <3>1. [job[c] EXCEPT !.refs = @ + 1] \in JobType
      BY <1>6, <1>7 DEF JobType
    <3> QED  BY <1>6, <1>7, <3>1 DEF JobType
  <2> QED  BY <1>0, <1>4, <2>1, <2>2, Types
<1>9. /\ worker' \in [Workers -> WorkerType] /\ WorkersOK' /\ Where(c, at)'
      /\ \A d \in Requests \ {c} : WorkerSame(d)
  <2>1. worker[w].at \in Busy
    BY <1>2 DEF Busy
  <2> QED  BY <1>0, <1>1, <1>3, <2>1, Onward
<1>10. /\ pending' \in Seq(Requests) /\ Once(pending') /\ In(pending') = In(pending) \cup {c}
       /\ Len(pending') = Len(pending) + 1 /\ Len(pending) \in Nat
  BY <1>0, <1>2, <1>4, <1>6, Types, AppendOnce DEF ShapeOK, Served
<1>11. ShapeOK'
  <2>1. Len(pending') <= MaxPending
    BY <1>2, <1>10, JobAssumption
  <2>2. TypeOK'
    BY <1>0, <1>2, <1>8, <1>9, <1>10, <2>1, Types, TypesNext
  <2> QED  BY <1>0, <1>2, <1>4, <1>9, <1>10, <2>2 DEF ShapeOK, SchedOK, MainOK
<1>12. JobOK(c)'
  <2>1. Served(c)' /\ WorkerRef(c)' = 1 /\ ServiceRef(c)' = 1 /\ MainRef(c)' = 0
    BY <1>2, <1>3, <1>4, <1>9, <1>10 DEF WorkerRef, ServiceRef, MainRef, Served, Held, Where
  <2>2. /\ At(c, "wait")' => job[c].kind = "batch"
        /\ ~At(c, "late")' /\ ~At(c, "answer")' /\ ~At(c, "submit")'
    BY <1>3, <1>7, <1>9 DEF Where, JobType, Kinds
  <2>3. sched'.conn # c /\ slot'[c] = "none"
    BY <1>2, <1>6 DEF Served
  <2> QED  BY <1>6, <1>7, <1>8, <2>1, <2>2, <2>3 DEF JobOK, Waiting
<1>13. ConnOK(c)'
  <2>1. /\ conn[c].sock = "open" /\ conn[c].reply = "none" /\ conn[c].reported = 0 /\ c \notin In(parked)
        /\ stream[c].writer = "none"
    BY <1>5, <1>6 DEF ConnOK
  <2>2. Has(c)' /\ ~At(c, "parsing")'
    BY <1>3, <1>9 DEF Where, Busy
  <2> QED  BY <1>2, <1>6, <1>8, <2>1, <2>2 DEF ConnOK
<1>14. VerdictOK(c)'
  <2>1. ~At(c, "submit")' /\ ~At(c, "late")' /\ ~At(c, "answer")'
    BY <1>3, <1>9 DEF Where
  <2>2. ~job[c].gaveUp
    BY <1>5 DEF VerdictOK
  <2> QED  BY <1>2, <1>5, <1>6, <1>8, <2>1, <2>2 DEF VerdictOK
<1>15. ASSUME NEW d \in Requests \ {c} PROVE Same(d)
  BY <1>2, <1>8, <1>9, <1>10 DEF Same, QueueSame, SchedSame, MainSame
<1> QED  BY <1>4, <1>11, <1>12, <1>13, <1>14, <1>15, OneRequest DEF RequestOK

\* What job_respond_error() leaves of the connection of a job that nobody has answered yet.
LEMMA Refused ==
  ASSUME TypeOK, NEW c \in Conns, ConnOK(c), job[c].refs > 0, NEW status \in Replies, status # "garbled"
  PROVE  /\ RespondOnce(job[c], conn[c], status) \in ConnType
         /\ RespondOnce(job[c], conn[c], status).reported = 0
         /\ RespondOnce(job[c], conn[c], status).reply \in {status, conn[c].reply} \ {"garbled"}
         /\ ~job[c].claimed => RespondOnce(job[c], conn[c], status).reply = status
         /\ RespondOnce(job[c], conn[c], status).sock \in {"open", "closed"}
         /\ RespondOnce(job[c], conn[c], status).sock = "open" <=> stream[c].writer = "writing"
<1>1. conn[c] \in ConnType /\ conn[c].reported = 0 /\ job[c] \in JobType
  BY Types, Names DEF ConnOK
<1>2. CASE job[c].claimed
  <2>1. RespondOnce(job[c], conn[c], status) = conn[c]
    BY <1>2 DEF RespondOnce
  <2>2. job[c].kind = "none" \/ conn[c].sock # "away"
    BY DEF ConnOK
  <2>3. conn[c].sock \in {"open", "closed"} /\ conn[c].reply # "garbled"
        /\ (conn[c].sock = "open" <=> stream[c].writer = "writing")
    BY <1>1, <1>2 DEF ConnOK, ConnType, Socks
  <2> QED  BY <1>1, <1>2, <2>1, <2>3
<1>3. CASE ~job[c].claimed
  <2>1. RespondOnce(job[c], conn[c], status) = RespondAndClose(conn[c], status)
    BY <1>3 DEF RespondOnce
  <2>2. conn[c].sock = "open" /\ conn[c].reply = "none" /\ stream[c].writer = "none"
    BY <1>1, <1>3 DEF ConnOK
  <2>3. /\ RespondAndClose(conn[c], status) \in ConnType
        /\ RespondAndClose(conn[c], status).sock = "closed"
        /\ RespondAndClose(conn[c], status).reply = status
        /\ RespondAndClose(conn[c], status).reported = 0
    BY <1>1, <2>2, Responding
  <2> QED  BY <2>1, <2>2, <2>3
<1> QED  BY <1>2, <1>3

LEMMA ClaimedType ==
  ASSUME NEW j \in JobType
  PROVE  /\ Claimed(j) \in JobType /\ Claimed(j).claimed /\ Claimed(j).refs = j.refs
         /\ Claimed(j).kind = j.kind /\ Claimed(j).late = j.late /\ Claimed(j).gaveUp = j.gaveUp
         /\ Claimed(j).done = j.done /\ Claimed(j).sound = j.sound
BY DEF Claimed, JobType

LEMMA QueueRefusesKeeps ==
  ASSUME JobsInv, NEW w \in Workers, QueueRefuses(w)
  PROVE  JobsInv'
<1>0. ShapeOK /\ TypeOK
  BY DEF JobsInv, ShapeOK
<1>1. PICK c : c = worker[w].conn
  OBVIOUS
<1>2. /\ worker[w].at = "submit" /\ Free(w)
      /\ JobRelease(c, Claimed(job[c]), RespondOnce(job[c], conn[c], "503"))
      /\ UNCHANGED <<parked, shut, stream, pending, stop, stopping, sched, slot, main>>
  BY <1>1 DEF QueueRefuses
<1>3. worker[w].at \in Busy
  BY <1>2 DEF Busy
<1>4. /\ c \in Conns /\ c \in Requests /\ c \notin WarmUps /\ Where(c, "submit")
      /\ main \notin {"stopping", "draining", "exited"}
  BY <1>0, <1>1, <1>2, <1>3, Mine
<1>5. JobOK(c) /\ ConnOK(c) /\ VerdictOK(c) /\ At(c, "submit") /\ Has(c)
  BY <1>4 DEF JobsInv, RequestOK, Where
<1>6. ~Served(c) /\ ~job[c].claimed /\ ~job[c].done /\ job[c].refs = 1 /\ job[c] \in JobType
  BY <1>0, <1>4, <1>5, Types DEF JobOK, WorkerRef, ServiceRef, MainRef, Held, Where
<1>7. job[c].kind # "none"
  BY <1>5, <1>6 DEF JobOK, NoJob
<1>8. PICK j \in JobType : /\ j = Claimed(job[c]) /\ j.claimed /\ j.refs = 1 /\ j.kind = job[c].kind
                           /\ j.gaveUp = job[c].gaveUp /\ j.done = job[c].done /\ j.sound = job[c].sound
  BY <1>6, ClaimedType
<1>9. PICK cn \in ConnType : /\ cn = RespondOnce(job[c], conn[c], "503") /\ cn.reported = 0
                             /\ cn.reply = "503" /\ cn.sock \in {"open", "closed"}
                             /\ cn.sock = "open" <=> stream[c].writer = "writing"
  <2>1. "503" \in Replies
    BY DEF Replies
  <2> QED  BY <1>0, <1>4, <1>5, <1>6, <2>1, Refused
<1>10. JobRelease(c, j, cn)
  BY <1>2, <1>8, <1>9
<1>11. /\ job' \in [Requests -> JobType] /\ conn' \in [Requests -> ConnType]
       /\ job'[c].refs = 0 /\ job'[c].kind = job[c].kind /\ job'[c].done = job[c].done
       /\ job'[c].gaveUp = job[c].gaveUp
       /\ \A d \in Requests \ {c} : job'[d] = job[d] /\ conn'[d] = conn[d]
  BY <1>0, <1>4, <1>8, <1>9, <1>10, Released
<1>12. /\ worker' \in [Workers -> WorkerType] /\ WorkersOK' /\ Where(c, "none")' /\ ~Has(c)'
       /\ \A d \in Requests \ {c} : WorkerSame(d)
  BY <1>0, <1>1, <1>2, <1>3, Freed
<1>13. ShapeOK'
  <2>1. TypeOK'
    BY <1>0, <1>2, <1>11, <1>12, Types, TypesNext
  <2> QED  BY <1>0, <1>2, <1>4, <1>12, <2>1 DEF ShapeOK, SchedOK, MainOK
<1>14. JobOK(c)'
  <2>1. ~Served(c)'
    BY <1>2, <1>6 DEF Served
  <2> QED  BY <1>2, <1>4, <1>6, <1>7, <1>11, <1>12, <2>1
           DEF JobOK, WorkerRef, ServiceRef, MainRef, Held, Served, Waiting, Where
<1>15. ConnOK(c)' /\ conn'[c].reply = "503"
  <2>1. c \notin In(parked)' /\ ~At(c, "parsing")' /\ stream'[c] = stream[c]
    BY <1>2, <1>5, <1>12 DEF ConnOK, Where
  <2> QED  BY <1>0, <1>4, <1>8, <1>9, <1>10, <1>12, <2>1, ReleaseConn
<1>16. VerdictOK(c)'
  <2>1. ~job[c].gaveUp
    BY <1>5 DEF VerdictOK
  <2> QED  BY <1>11, <1>12, <1>15, <2>1 DEF VerdictOK, Where
<1>17. ASSUME NEW d \in Requests \ {c} PROVE Same(d)
  BY <1>2, <1>11, <1>12 DEF Same, QueueSame, SchedSame, MainSame
<1> QED  BY <1>4, <1>13, <1>14, <1>15, <1>16, <1>17, OneRequest DEF RequestOK

LEMMA CompletedKeeps ==
  ASSUME JobsInv, NEW w \in Workers, Completed(w)
  PROVE  JobsInv'
<1>0. ShapeOK /\ TypeOK
  BY DEF JobsInv, ShapeOK
<1>1. PICK c : c = worker[w].conn
  OBVIOUS
<1>2. /\ worker[w].at = "wait" /\ job[c].done /\ Move(w, "answer", c)
      /\ UNCHANGED <<conn, parked, shut, job, stream, pending, stop, stopping, sched, slot, main>>
  BY <1>1 DEF Completed
<1>3. worker[w].at \in Busy /\ "answer" \in Busy
  BY <1>2 DEF Busy
<1>4. /\ c \in Conns /\ c \in Requests /\ c \notin WarmUps /\ Where(c, "wait")
      /\ main \notin {"stopping", "draining", "exited"}
  BY <1>0, <1>1, <1>2, <1>3, Mine
<1>5. JobOK(c) /\ ConnOK(c) /\ VerdictOK(c)
  BY <1>4 DEF JobsInv, RequestOK
<1>6. /\ worker' \in [Workers -> WorkerType] /\ WorkersOK' /\ Where(c, "answer")'
      /\ \A d \in Requests \ {c} : WorkerSame(d)
  BY <1>0, <1>1, <1>2, <1>3, Onward
<1>7. ShapeOK'
  <2>1. TypeOK'
    BY <1>0, <1>2, <1>6, Types, TypesNext
  <2> QED  BY <1>0, <1>2, <1>4, <1>6, <2>1 DEF ShapeOK, SchedOK, MainOK
<1>8. JobOK(c)'
  <2>1. WorkerRef(c)' = WorkerRef(c) /\ ServiceRef(c)' = ServiceRef(c) /\ MainRef(c)' = MainRef(c)
    BY <1>2, <1>4, <1>6 DEF WorkerRef, ServiceRef, MainRef, Held, Served, Where
  <2>2. job[c].kind = "batch"
    BY <1>4, <1>5 DEF JobOK, Where
  <2> QED  BY <1>2, <1>5, <1>6, <2>1, <2>2 DEF JobOK, Waiting, Where
<1>9. ConnOK(c)' /\ VerdictOK(c)'
  <2>1. ConnOK(c)'
    BY <1>2, <1>4, <1>5, <1>6 DEF ConnOK, Where
  <2>2. ~job[c].gaveUp /\ ~job[c].claimed
    BY <1>4, <1>5 DEF VerdictOK, Where
  <2>3. VerdictOK(c)'
    BY <1>2, <1>5, <1>6, <2>2 DEF VerdictOK, Where
  <2> QED  BY <2>1, <2>3
<1>10. ASSUME NEW d \in Requests \ {c} PROVE Same(d)
  BY <1>2, <1>6 DEF Same, QueueSame, SchedSame, MainSame
<1> QED  BY <1>4, <1>7, <1>8, <1>9, <1>10, OneRequest DEF RequestOK

LEMMA GiveUpKeeps ==
  ASSUME JobsInv, NEW w \in Workers, GiveUp(w)
  PROVE  JobsInv'
<1>0. ShapeOK /\ TypeOK
  BY DEF JobsInv, ShapeOK
<1>1. PICK c : c = worker[w].conn
  OBVIOUS
<1>2. /\ worker[w].at = "wait" /\ ~job[c].done /\ Move(w, "late", c)
      /\ job' = [job EXCEPT ![c].gaveUp = TRUE]
      /\ UNCHANGED <<conn, parked, shut, stream, pending, stop, stopping, sched, slot, main>>
  BY <1>1 DEF GiveUp
<1>3. worker[w].at \in Busy /\ "late" \in Busy
  BY <1>2 DEF Busy
<1>4. /\ c \in Conns /\ c \in Requests /\ c \notin WarmUps /\ Where(c, "wait")
      /\ main \notin {"stopping", "draining", "exited"}
  BY <1>0, <1>1, <1>2, <1>3, Mine
<1>5. JobOK(c) /\ ConnOK(c) /\ VerdictOK(c) /\ job[c].kind = "batch"
  BY <1>4 DEF JobsInv, RequestOK, JobOK, Where
<1>6. /\ job' \in [Requests -> JobType] /\ job'[c].gaveUp /\ job'[c].refs = job[c].refs
      /\ job'[c].kind = job[c].kind /\ job'[c].claimed = job[c].claimed /\ job'[c].done = job[c].done
      /\ job'[c].sound = job[c].sound /\ \A d \in Requests \ {c} : job'[d] = job[d]
  BY <1>0, <1>2, <1>4, Types DEF JobType
<1>7. /\ worker' \in [Workers -> WorkerType] /\ WorkersOK' /\ Where(c, "late")'
      /\ \A d \in Requests \ {c} : WorkerSame(d)
  BY <1>0, <1>1, <1>2, <1>3, Onward
<1>8. ShapeOK'
  <2>1. TypeOK'
    BY <1>0, <1>2, <1>6, <1>7, Types, TypesNext
  <2> QED  BY <1>0, <1>2, <1>4, <1>7, <2>1 DEF ShapeOK, SchedOK, MainOK
<1>9. JobOK(c)'
  <2>1. WorkerRef(c)' = WorkerRef(c) /\ ServiceRef(c)' = ServiceRef(c) /\ MainRef(c)' = MainRef(c)
    BY <1>2, <1>4, <1>7 DEF WorkerRef, ServiceRef, MainRef, Held, Served, Where
  <2> QED  BY <1>2, <1>5, <1>6, <1>7, <2>1 DEF JobOK, Waiting, Where
<1>10. ConnOK(c)' /\ VerdictOK(c)'
  <2>1. ConnOK(c)'
    BY <1>2, <1>4, <1>5, <1>6, <1>7 DEF ConnOK, Where
  <2>2. ~job[c].claimed /\ job[c].refs > 0
    <3>1. WorkerRef(c) = 1 /\ ServiceRef(c) \in {0, 1} /\ MainRef(c) \in {0, 1}
      BY <1>4 DEF WorkerRef, ServiceRef, MainRef, Held, Where
    <3>2. ~job[c].claimed
      BY <1>4, <1>5 DEF VerdictOK, Where
    <3> QED  BY <1>5, <3>1, <3>2 DEF JobOK
  <2>3. conn[c].reply = "none"
    BY <1>5, <2>2 DEF ConnOK
  <2>4. VerdictOK(c)'
    BY <1>2, <1>5, <1>6, <1>7, <2>2, <2>3 DEF VerdictOK, Where
  <2> QED  BY <2>1, <2>4
<1>11. ASSUME NEW d \in Requests \ {c} PROVE Same(d)
  BY <1>2, <1>6, <1>7 DEF Same, QueueSame, SchedSame, MainSame
<1> QED  BY <1>4, <1>8, <1>9, <1>10, <1>11, OneRequest DEF RequestOK

LEMMA RespondKeeps ==
  ASSUME JobsInv, NEW w \in Workers, Respond(w)
  PROVE  JobsInv'
<1>0. ShapeOK /\ TypeOK
  BY DEF JobsInv, ShapeOK
<1>1. PICK c : c = worker[w].conn
  OBVIOUS
<1>2. /\ worker[w].at \in {"late", "answer"} /\ Move(w, "release", c)
      /\ \E status \in Verdicts(w) : conn' = [conn EXCEPT ![c] = RespondOnce(job[c], @, status)]
      /\ job' = [job EXCEPT ![c] = Claimed(@)]
      /\ UNCHANGED <<parked, shut, stream, pending, stop, stopping, sched, slot, main>>
  BY <1>1 DEF Respond
<1>3. worker[w].at \in Busy /\ "release" \in Busy
  BY <1>2 DEF Busy
<1>4. /\ c \in Conns /\ c \in Requests /\ c \notin WarmUps /\ Where(c, worker[w].at)
      /\ main \notin {"stopping", "draining", "exited"}
  BY <1>0, <1>1, <1>3, Mine
<1>5. JobOK(c) /\ ConnOK(c) /\ VerdictOK(c) /\ job[c] \in JobType
  BY <1>0, <1>4, Types DEF JobsInv, RequestOK
<1>6. /\ job[c].kind = "batch" /\ job[c].refs > 0
      /\ worker[w].at = "late" => job[c].gaveUp
      /\ worker[w].at = "answer" => job[c].done
  <2>1. WorkerRef(c) = 1 /\ ServiceRef(c) \in {0, 1} /\ MainRef(c) \in {0, 1}
    BY <1>2, <1>4 DEF WorkerRef, ServiceRef, MainRef, Held, Where
  <2>2. job[c].refs > 0
    BY <1>5, <2>1 DEF JobOK
  <2> QED  BY <1>2, <1>4, <1>5, <2>2 DEF JobOK, Where
<1>7. PICK status \in Replies :
        /\ conn' = [conn EXCEPT ![c] = RespondOnce(job[c], @, status)] /\ status # "garbled"
        /\ status \in {"200", "empty", "500"} => job[c].done /\ ~job[c].gaveUp
        /\ status = "200" => job[c].sound
        /\ status = "empty" => ~job[c].sound
        /\ status = "504" => job[c].gaveUp
        /\ job[c].gaveUp => status = "504"
  <2>1. PICK status \in Verdicts(w) : conn' = [conn EXCEPT ![c] = RespondOnce(job[c], @, status)]
    BY <1>2
  <2>2. CASE worker[w].at = "late"
    <3>1. status = "504"
      BY <2>1, <2>2 DEF Verdicts
    <3> QED  BY <1>6, <2>1, <2>2, <3>1 DEF Replies
  <2>3. CASE worker[w].at = "answer"
    <3>1. status = "500" \/ status = IF job[c].sound THEN "200" ELSE "empty"
      BY <1>1, <2>1, <2>3 DEF Verdicts
    <3>2. ~job[c].gaveUp
      BY <1>4, <1>5, <2>3 DEF VerdictOK, Where
    <3> QED  BY <1>6, <2>1, <2>3, <3>1, <3>2 DEF Replies
  <2> QED  BY <1>2, <2>2, <2>3
<1>8. PICK cn \in ConnType : /\ cn = RespondOnce(job[c], conn[c], status) /\ cn.reported = 0
                             /\ cn.reply = status /\ cn.reply # "garbled"
                             /\ cn.sock \in {"open", "closed"}
                             /\ cn.sock = "open" <=> stream[c].writer = "writing"
  <2>1. ~job[c].claimed
    BY <1>2, <1>4, <1>5 DEF VerdictOK, Where
  <2> QED  BY <1>0, <1>4, <1>5, <1>6, <1>7, <2>1, Refused
<1>9. /\ conn' \in [Requests -> ConnType] /\ conn'[c] = cn
      /\ \A d \in Requests \ {c} : conn'[d] = conn[d]
  BY <1>0, <1>4, <1>7, <1>8, Types
<1>10. /\ job' \in [Requests -> JobType] /\ job'[c].claimed /\ job'[c].refs = job[c].refs
       /\ job'[c].kind = job[c].kind /\ job'[c].gaveUp = job[c].gaveUp /\ job'[c].done = job[c].done
       /\ job'[c].sound = job[c].sound /\ \A d \in Requests \ {c} : job'[d] = job[d]
  BY <1>0, <1>2, <1>4, <1>5, Types, ClaimedType
<1>11. /\ worker' \in [Workers -> WorkerType] /\ WorkersOK' /\ Where(c, "release")'
       /\ \A d \in Requests \ {c} : WorkerSame(d)
  BY <1>0, <1>1, <1>2, <1>3, Onward
<1>12. ShapeOK'
  <2>1. TypeOK'
    BY <1>0, <1>2, <1>9, <1>10, <1>11, Types, TypesNext
  <2> QED  BY <1>0, <1>2, <1>4, <1>11, <2>1 DEF ShapeOK, SchedOK, MainOK
<1>13. JobOK(c)'
  <2>1. WorkerRef(c)' = WorkerRef(c) /\ ServiceRef(c)' = ServiceRef(c) /\ MainRef(c)' = MainRef(c)
    BY <1>2, <1>4, <1>11 DEF WorkerRef, ServiceRef, MainRef, Held, Served, Where
  <2> QED  BY <1>2, <1>5, <1>6, <1>10, <1>11, <2>1 DEF JobOK, Waiting, Where
<1>14. ConnOK(c)'
  <2>1. c \notin In(parked)' /\ ~At(c, "parsing")' /\ Has(c)' /\ stream'[c] = stream[c]
        /\ job'[c].refs > 0
    <3>1. Has(c)
      BY <1>2, <1>4 DEF Where
    <3> QED  BY <1>2, <1>5, <1>6, <1>10, <1>11, <3>1 DEF ConnOK, Where
  <2> QED  BY <1>8, <1>9, <1>10, <2>1 DEF ConnOK
<1>15. VerdictOK(c)'
  BY <1>6, <1>7, <1>8, <1>9, <1>10, <1>11 DEF VerdictOK, Where
<1>16. ASSUME NEW d \in Requests \ {c} PROVE Same(d)
  BY <1>2, <1>9, <1>10, <1>11 DEF Same, QueueSame, SchedSame, MainSame
<1> QED  BY <1>4, <1>12, <1>13, <1>14, <1>15, <1>16, OneRequest DEF RequestOK

\* What releasing a job asks of the connection, when the service or its worker lets it go.
LEMMA Releasable ==
  ASSUME TypeOK, NEW c \in Conns, JobOK(c), ConnOK(c), VerdictOK(c), job[c].refs > 0
  PROVE  /\ job[c] \in JobType /\ conn[c] \in ConnType /\ job[c].refs # 0 /\ conn[c].reported = 0
         /\ conn[c].reply # "garbled" /\ conn[c].sock \in {"open", "closed"}
         /\ ~job[c].claimed => conn[c].sock = "open" /\ conn[c].reply = "none" /\ stream[c].writer = "none"
         /\ job[c].claimed => (conn[c].sock = "open" <=> stream[c].writer = "writing")
         /\ c \notin In(parked) /\ ~At(c, "parsing") /\ job[c].kind # "none"
<1>1. job[c] \in JobType /\ conn[c] \in ConnType
  BY Types, Names
<1>2. job[c].kind # "none"
  BY DEF JobOK, NoJob
<1>3. conn[c].reply # "garbled" /\ conn[c].sock \in {"open", "closed"}
  BY <1>1, <1>2 DEF ConnOK, ConnType, Socks
<1> QED  BY <1>1, <1>2, <1>3 DEF ConnOK

LEMMA ReleaseJobKeeps ==
  ASSUME JobsInv, NEW w \in Workers, ReleaseJob(w)
  PROVE  JobsInv'
<1>0. ShapeOK /\ TypeOK
  BY DEF JobsInv, ShapeOK
<1>1. PICK c : c = worker[w].conn
  OBVIOUS
<1>2. /\ worker[w].at = "release" /\ Free(w) /\ JobRelease(c, job[c], conn[c])
      /\ UNCHANGED <<parked, shut, stream, pending, stop, stopping, sched, slot, main>>
  BY <1>1 DEF ReleaseJob
<1>3. worker[w].at \in Busy
  BY <1>2 DEF Busy
<1>4. /\ c \in Conns /\ c \in Requests /\ c \notin WarmUps /\ Where(c, "release")
      /\ main \notin {"stopping", "draining", "exited"}
  BY <1>0, <1>1, <1>2, <1>3, Mine
<1>5. JobOK(c) /\ ConnOK(c) /\ VerdictOK(c)
  BY <1>4 DEF JobsInv, RequestOK
<1>6. WorkerRef(c) = 1 /\ ServiceRef(c) \in {0, 1} /\ MainRef(c) = 0
  BY <1>4 DEF WorkerRef, ServiceRef, MainRef, Held, Where
<1>7. job[c].refs = 1 + ServiceRef(c) /\ job[c].refs > 0
  BY <1>5, <1>6 DEF JobOK
<1>8. /\ job[c] \in JobType /\ conn[c] \in ConnType /\ job[c].refs # 0 /\ conn[c].reported = 0
      /\ conn[c].reply # "garbled" /\ conn[c].sock \in {"open", "closed"}
      /\ ~job[c].claimed => conn[c].sock = "open" /\ conn[c].reply = "none" /\ stream[c].writer = "none"
      /\ job[c].claimed => (conn[c].sock = "open" <=> stream[c].writer = "writing")
      /\ c \notin In(parked) /\ job[c].kind # "none"
  BY <1>0, <1>4, <1>5, <1>7, Releasable
<1>9. /\ job' \in [Requests -> JobType] /\ conn' \in [Requests -> ConnType]
      /\ job'[c].refs = job[c].refs - 1 /\ job'[c].kind = job[c].kind /\ job'[c].claimed = job[c].claimed
      /\ job'[c].gaveUp = job[c].gaveUp /\ job'[c].done = job[c].done /\ job'[c].sound = job[c].sound
      /\ \A d \in Requests \ {c} : job'[d] = job[d] /\ conn'[d] = conn[d]
  BY <1>0, <1>2, <1>4, <1>8, Released
<1>10. /\ worker' \in [Workers -> WorkerType] /\ WorkersOK' /\ Where(c, "none")' /\ ~Has(c)'
       /\ \A d \in Requests \ {c} : WorkerSame(d)
  BY <1>0, <1>1, <1>2, <1>3, Freed
<1>11. ShapeOK'
  <2>1. TypeOK'
    BY <1>0, <1>2, <1>9, <1>10, Types, TypesNext
  <2> QED  BY <1>0, <1>2, <1>4, <1>10, <2>1 DEF ShapeOK, SchedOK, MainOK
<1>12. JobOK(c)'
  <2>1. WorkerRef(c)' = 0 /\ ServiceRef(c)' = ServiceRef(c) /\ MainRef(c)' = 0
    BY <1>2, <1>4, <1>10 DEF WorkerRef, ServiceRef, MainRef, Held, Served, Where
  <2>2. job'[c].refs = WorkerRef(c)' + ServiceRef(c)' + MainRef(c)'
    BY <1>6, <1>7, <1>9, <2>1
  <2> QED  BY <1>2, <1>5, <1>8, <1>9, <1>10, <2>2 DEF JobOK, Waiting, Where
<1>13. ConnOK(c)' /\ conn'[c].reply = conn[c].reply
  <2>1. c \notin In(parked)' /\ ~At(c, "parsing")' /\ stream'[c] = stream[c]
    BY <1>2, <1>8, <1>10 DEF Where
  <2> QED  BY <1>0, <1>2, <1>4, <1>8, <1>10, <2>1, ReleaseConn
<1>14. VerdictOK(c)'
  <2>1. ~At(c, "late")
    BY <1>4 DEF Where
  <2> QED  BY <1>5, <1>9, <1>10, <1>13, <2>1 DEF VerdictOK, Where
<1>15. ASSUME NEW d \in Requests \ {c} PROVE Same(d)
  BY <1>2, <1>9, <1>10 DEF Same, QueueSame, SchedSame, MainSame
<1> QED  BY <1>4, <1>11, <1>12, <1>13, <1>14, <1>15, OneRequest DEF RequestOK

-----------------------------------------------------------------------------
(* The clock and the stream writers.                                       *)

LEMMA DeadlinePassesKeeps ==
  ASSUME JobsInv, NEW c \in Requests, DeadlinePasses(c)
  PROVE  JobsInv'
<1>0. ShapeOK /\ TypeOK
  BY DEF JobsInv, ShapeOK
<1>1. /\ c \in Conns /\ job[c].refs > 0 /\ job' = [job EXCEPT ![c].late = TRUE]
      /\ UNCHANGED <<conn, parked, shut, worker, stream, pending, stop, stopping, sched, slot, main>>
  BY DEF DeadlinePasses
<1>2. c \notin WarmUps /\ JobOK(c) /\ ConnOK(c) /\ VerdictOK(c)
  BY <1>1, Names DEF JobsInv, RequestOK
<1>3. /\ job' \in [Requests -> JobType] /\ job'[c].refs = job[c].refs
      /\ job'[c].kind = job[c].kind /\ job'[c].claimed = job[c].claimed /\ job'[c].done = job[c].done
      /\ job'[c].sound = job[c].sound /\ job'[c].gaveUp = job[c].gaveUp
      /\ \A d \in Requests \ {c} : job'[d] = job[d]
  BY <1>0, <1>1, Types DEF JobType
<1>4. ShapeOK'
  <2>1. TypeOK'
    BY <1>0, <1>1, <1>3, Types, TypesNext
  <2> QED  BY <1>0, <1>1, <2>1 DEF ShapeOK, WorkersOK, SchedOK, MainOK
<1>5. JobOK(c)'
  <2>1. job[c].kind # "none"
    BY <1>1, <1>2 DEF JobOK, NoJob
  <2>2. WorkerRef(c)' = WorkerRef(c) /\ ServiceRef(c)' = ServiceRef(c) /\ MainRef(c)' = MainRef(c)
    BY <1>1 DEF WorkerRef, ServiceRef, MainRef, Held, Served, At
  <2> QED  BY <1>1, <1>2, <1>3, <2>1, <2>2 DEF JobOK, Served, Waiting, At
<1>6. ConnOK(c)' /\ VerdictOK(c)'
  BY <1>1, <1>2, <1>3 DEF ConnOK, VerdictOK, Has, At
<1>7. ASSUME NEW d \in Requests \ {c} PROVE Same(d)
  BY <1>1, <1>3 DEF Same, WorkerSame, QueueSame, SchedSame, MainSame
<1> QED  BY <1>2, <1>4, <1>5, <1>6, <1>7, OneRequest DEF RequestOK

LEMMA StreamDiesKeeps ==
  ASSUME JobsInv, NEW c \in Requests, StreamDies(c)
  PROVE  JobsInv'
<1>0. ShapeOK /\ TypeOK
  BY DEF JobsInv, ShapeOK
<1>1. /\ stream' = [stream EXCEPT ![c].out = "failed"]
      /\ UNCHANGED <<conn, parked, shut, worker, job, pending, stop, stopping, sched, slot, main>>
  BY DEF StreamDies
<1>2. /\ stream' \in [Requests -> StreamType]
      /\ \A d \in Requests : stream'[d].writer = stream[d].writer
  BY <1>0, <1>1, Types DEF StreamType
<1>3. ShapeOK'
  <2>1. TypeOK'
    BY <1>0, <1>1, <1>2, Types, TypesNext
  <2> QED  BY <1>0, <1>1, <2>1 DEF ShapeOK, WorkersOK, SchedOK, MainOK
<1>4. ASSUME NEW d \in Requests PROVE Same(d)
  BY <1>1, <1>2 DEF Same, WorkerSame, QueueSame, SchedSame, MainSame
<1> QED  BY <1>3, <1>4, OneRequest, Names

LEMMA WriterEndsKeeps ==
  ASSUME JobsInv, NEW c \in Requests, WriterEnds(c)
  PROVE  JobsInv'
<1>0. ShapeOK /\ TypeOK
  BY DEF JobsInv, ShapeOK
<1>1. /\ stream[c].writer = "writing" /\ stream' = [stream EXCEPT ![c].writer = "over"]
      /\ conn' = [conn EXCEPT ![c] = CloseFd(@)]
      /\ UNCHANGED <<parked, shut, worker, job, pending, stop, stopping, sched, slot, main>>
  BY DEF WriterEnds
<1>2. c \in Conns /\ c \notin WarmUps /\ JobOK(c) /\ ConnOK(c) /\ VerdictOK(c)
  BY <1>1, Names DEF JobsInv, RequestOK, WarmOK
<1>3. conn[c].sock = "open" /\ job[c].claimed /\ conn[c] \in ConnType
  BY <1>0, <1>1, <1>2, Types DEF ConnOK
<1>4. PICK n \in ConnType : /\ n = CloseFd(conn[c]) /\ n.sock = "closed" /\ n.reply = conn[c].reply
                            /\ n.reported = conn[c].reported
  BY <1>3, Closing
<1>5. /\ conn' \in [Requests -> ConnType] /\ conn'[c] = n
      /\ stream' \in [Requests -> StreamType] /\ stream'[c].writer = "over"
      /\ \A d \in Requests \ {c} : conn'[d] = conn[d] /\ stream'[d] = stream[d]
  BY <1>0, <1>1, <1>4, Types DEF StreamType
<1>6. ShapeOK'
  <2>1. TypeOK'
    BY <1>0, <1>1, <1>5, Types, TypesNext
  <2> QED  BY <1>0, <1>1, <2>1 DEF ShapeOK, WorkersOK, SchedOK, MainOK
<1>7. JobOK(c)'
  BY <1>1, <1>2 DEF JobOK, WorkerRef, ServiceRef, MainRef, Held, Served, Waiting, At
<1>8. ConnOK(c)' /\ VerdictOK(c)'
  <2>1. /\ (Has(c)' <=> Has(c)) /\ (At(c, "parsing")' <=> At(c, "parsing"))
        /\ (At(c, "submit")' <=> At(c, "submit")) /\ (At(c, "wait")' <=> At(c, "wait"))
        /\ (At(c, "late")' <=> At(c, "late")) /\ (At(c, "answer")' <=> At(c, "answer"))
        /\ In(parked)' = In(parked) /\ job'[c] = job[c]
    BY <1>1 DEF Has, At, In
  <2>2. job[c].kind # "none"
    BY <1>2, <1>3 DEF JobOK, NoJob
  <2> QED  BY <1>2, <1>3, <1>4, <1>5, <2>1, <2>2 DEF ConnOK, VerdictOK
<1>9. ASSUME NEW d \in Requests \ {c} PROVE Same(d)
  BY <1>1, <1>5 DEF Same, WorkerSame, QueueSame, SchedSame, MainSame
<1> QED  BY <1>2, <1>6, <1>7, <1>8, <1>9, OneRequest DEF RequestOK

-----------------------------------------------------------------------------
(* The scheduler.                                                          *)

\* It lets a job go: the service has it no more.
LEMMA LetGo ==
  ASSUME JobsInv, NEW c \in Requests, Served(c), ~Served(c)',
         NEW j \in JobType, NEW cn \in ConnType, JobRelease(c, j, cn),
         UNCHANGED <<parked, shut, worker, pending, stop, stopping, main>>,
         stream' \in [Requests -> StreamType], sched' \in SchedType,
         slot' \in [Requests -> {"none", "live"} \cup Finished],
         SchedOK', sched'.mode = sched.mode, stream'[c].writer = stream[c].writer,
         \A d \in Requests \ {c} : /\ stream'[d].writer = stream[d].writer /\ slot'[d] = slot[d]
                                   /\ SchedSame(d),
         j.refs = job[c].refs, j.kind = job[c].kind, j.done = job[c].done, j.sound = job[c].sound,
         j.gaveUp = job[c].gaveUp, j.claimed = job[c].claimed \/ (j.claimed /\ j.kind = "stream"),
         cn.reported = 0, c \in WarmUps => cn = conn[c],
         c \in Conns =>
           /\ cn.reply = conn[c].reply \/ (cn.reply = "500" /\ j.kind = "stream" /\ ~j.gaveUp)
           /\ cn.sock \in {"open", "closed"}
           /\ ~j.claimed => cn.sock = "open" /\ cn.reply = "none" /\ stream[c].writer = "none"
           /\ j.claimed => (cn.sock = "open" <=> stream[c].writer = "writing")
  PROVE  JobsInv'
<1>0. /\ ShapeOK /\ TypeOK /\ JobOK(c)
      /\ (c \in Conns => ConnOK(c) /\ VerdictOK(c)) /\ (c \in WarmUps => WarmOK(c))
  BY DEF JobsInv, ShapeOK, RequestOK
<1>1. WorkerRef(c) \in {0, 1} /\ ServiceRef(c) = 1 /\ MainRef(c) \in {0, 1}
  BY DEF WorkerRef, ServiceRef, MainRef
<1>2. job[c].refs = WorkerRef(c) + 1 + MainRef(c) /\ job[c].refs > 0 /\ j.refs # 0
  BY <1>0, <1>1 DEF JobOK
<1>3. /\ job' \in [Requests -> JobType] /\ conn' \in [Requests -> ConnType]
      /\ job'[c].refs = j.refs - 1 /\ job'[c].kind = j.kind /\ job'[c].claimed = j.claimed
      /\ job'[c].gaveUp = j.gaveUp /\ job'[c].done = j.done /\ job'[c].sound = j.sound
      /\ conn'[c] = LastReference(c, j, cn)
      /\ \A d \in Requests \ {c} : job'[d] = job[d] /\ conn'[d] = conn[d]
  <2>1. cn.reported # 2
    OBVIOUS
  <2> QED  BY <1>0, <1>2, <2>1, Released
<1>4. ShapeOK'
  <2>1. TypeOK'
    BY <1>0, <1>3, Types, TypesNext
  <2> QED  BY <1>0, <2>1 DEF ShapeOK, WorkersOK, MainOK
<1>5. /\ (Has(c)' <=> Has(c)) /\ (At(c, "parsing")' <=> At(c, "parsing"))
      /\ (At(c, "submit")' <=> At(c, "submit")) /\ (At(c, "wait")' <=> At(c, "wait"))
      /\ (At(c, "late")' <=> At(c, "late")) /\ (At(c, "answer")' <=> At(c, "answer"))
      /\ (At(c, "release")' <=> At(c, "release"))
  BY DEF Has, At
<1>6. job[c].kind # "none" /\ ~At(c, "submit")
  BY <1>0, <1>2 DEF JobOK, NoJob
<1>7. JobOK(c)'
  <2>1. WorkerRef(c)' = WorkerRef(c) /\ ServiceRef(c)' = 0 /\ MainRef(c)' = MainRef(c)
    BY <1>5 DEF WorkerRef, ServiceRef, MainRef, Held
  <2>2. job'[c].refs = WorkerRef(c)' + ServiceRef(c)' + MainRef(c)'
    BY <1>1, <1>2, <1>3, <2>1
  <2>3. ~Waiting(c)' /\ c \notin In(pending') /\ sched'.conn # c /\ slot'[c] = "none"
    BY DEF Served, Waiting
  <2> QED  BY <1>0, <1>3, <1>5, <1>6, <2>2, <2>3 DEF JobOK
<1>8. ASSUME c \in Conns PROVE RequestOK(c)'
  <2>1. conn[c].reply # "garbled" /\ cn.reply # "garbled" /\ c \notin In(parked) /\ ~At(c, "parsing")
    BY <1>0, <1>2, <1>8, Releasable
  <2>2. j.refs = 1 => ~Has(c)'
    <3>1. ASSUME Has(c), ~At(c, "parsing") PROVE Held(c)
      <4>1. PICK w \in Workers : worker[w].conn = c
        BY <3>1 DEF Has
      <4>2. worker[w].at \notin {"idle", "gone"} /\ worker[w] \in WorkerType
        BY <1>0, <1>8, <4>1, Names, Types DEF ShapeOK, WorkersOK
      <4> QED  BY <3>1, <4>1, <4>2 DEF At, Held, WorkerType
    <3>2. Held(c) => WorkerRef(c) = 1
      BY DEF WorkerRef
    <3> QED  BY <1>1, <1>2, <1>5, <2>1, <3>1, <3>2
  <2>3. ConnOK(c)' /\ conn'[c].reply = cn.reply
    <3>1. c \notin In(parked)' /\ ~At(c, "parsing")'
      BY <1>5, <2>1
    <3> QED  BY <1>0, <1>2, <1>8, <2>1, <2>2, <3>1, ReleaseConn
  <2>4. VerdictOK(c)'
    <3>1. At(c, "wait") \/ At(c, "late") \/ At(c, "answer") => ~j.claimed
      BY <1>0, <1>8 DEF JobOK, VerdictOK
    <3>2. j.gaveUp => At(c, "late") \/ j.claimed
      BY <1>0, <1>8 DEF VerdictOK
    <3> QED  BY <1>0, <1>3, <1>5, <1>6, <1>8, <2>3, <3>1, <3>2 DEF VerdictOK
  <2> QED  BY <1>7, <1>8, <2>3, <2>4, Names DEF RequestOK
<1>9. ASSUME c \in WarmUps PROVE RequestOK(c)'
  <2>1. conn'[c] = conn[c]
    BY <1>3, <1>9 DEF LastReference
  <2>2. WarmOK(c)'
    BY <1>0, <1>3, <1>9, <2>1 DEF WarmOK
  <2> QED  BY <1>7, <1>9, <2>2, Names DEF RequestOK
<1>10. ASSUME NEW d \in Requests \ {c} PROVE Same(d)
  BY <1>3 DEF Same, WorkerSame, QueueSame, MainSame
<1> QED  BY <1>4, <1>8, <1>9, <1>10, OneRequest, Names

\* What it has in its hands is in no other place.
LEMMA InHand ==
  ASSUME JobsInv, sched.at # "loop", NEW c, c = sched.conn
  PROVE  /\ c \in Requests /\ c # Nobody /\ Served(c) /\ c \notin In(pending) /\ slot[c] = "none"
         /\ JobOK(c) /\ (c \in Conns => ConnOK(c) /\ VerdictOK(c)) /\ (c \in WarmUps => WarmOK(c))
         /\ job[c] \in JobType /\ conn[c] \in ConnType /\ job[c].refs > 0
         /\ sched.mode \in {"serving", "refusing"}
<1>0. ShapeOK /\ TypeOK /\ SchedOK
  BY DEF JobsInv, ShapeOK
<1>1. sched \in SchedType
  BY <1>0, Types
<1>2. c \in Requests /\ c # Nobody /\ sched.mode \in {"serving", "refusing"}
  BY <1>0, <1>1 DEF SchedOK, SchedType
<1>3. /\ JobOK(c) /\ (c \in Conns => ConnOK(c) /\ VerdictOK(c)) /\ (c \in WarmUps => WarmOK(c))
      /\ Served(c) /\ c \notin In(pending) /\ slot[c] = "none"
  BY <1>2 DEF JobsInv, RequestOK, JobOK, Served
<1>4. job[c] \in JobType /\ conn[c] \in ConnType
  BY <1>0, <1>2, Types
<1>5. WorkerRef(c) \in {0, 1} /\ ServiceRef(c) = 1 /\ MainRef(c) \in {0, 1}
  BY <1>3 DEF WorkerRef, ServiceRef, MainRef
<1>6. job[c].refs > 0
  BY <1>3, <1>5 DEF JobOK
<1> QED  BY <1>2, <1>3, <1>4, <1>6

\* ... and it is back in the driver's loop with nothing in hand.
LEMMA BackInLoop ==
  ASSUME TypeOK, SchedOK, NEW c, c = sched.conn, sched.at # "loop", sched' = Loop
  PROVE  /\ sched' \in SchedType /\ sched'.mode = sched.mode /\ sched'.at = "loop" /\ sched'.conn = Nobody
         /\ (\A d \in Requests : slot'[d] = slot[d]) => SchedOK'
         /\ sched.mode \in {"serving", "refusing"}
         /\ \A d \in Requests \ {c} : SchedSame(d)
<1>1. sched \in SchedType
  BY Types
<1>2. /\ sched' \in SchedType /\ sched'.mode = sched.mode /\ sched'.at = "loop" /\ sched'.conn = Nobody
  BY <1>1 DEF Loop, SchedType
<1>3. sched.mode \in {"serving", "refusing"}
  BY <1>1 DEF SchedOK, SchedType
<1> QED  BY <1>2, <1>3, Names DEF SchedOK, SchedSame

LEMMA NextJobKeeps ==
  ASSUME JobsInv, NextJob
  PROVE  JobsInv'
<1>0. ShapeOK /\ TypeOK /\ SchedOK /\ sched \in SchedType
  BY Types DEF JobsInv, ShapeOK
<1>1. /\ sched.mode \in {"serving", "refusing"} /\ sched.at = "loop" /\ pending # <<>>
      /\ sched' = [sched EXCEPT !.at = "took", !.conn = Head(pending)]
      /\ pending' = Tail(pending)
      /\ UNCHANGED <<conn, parked, shut, worker, job, stream, stop, stopping, slot, main>>
  BY DEF NextJob
<1>2. /\ Head(pending) \in Requests /\ Head(pending) \in In(pending) /\ Once(pending')
      /\ pending' \in Seq(Requests) /\ In(pending') = In(pending) \ {Head(pending)}
      /\ Len(pending') = Len(pending) - 1 /\ Len(pending) \in Nat \ {0}
  BY <1>0, <1>1, Types, TailOnce DEF ShapeOK
<1>3. PICK c \in Requests : c = Head(pending) /\ c \in In(pending)
  BY <1>2
<1>4. JobOK(c) /\ (c \in Conns => ConnOK(c) /\ VerdictOK(c)) /\ (c \in WarmUps => WarmOK(c))
  BY DEF JobsInv, RequestOK
<1>5. /\ sched' \in SchedType /\ sched'.at = "took" /\ sched'.conn = c /\ sched'.mode = sched.mode
      /\ sched.conn = Nobody /\ c # Nobody
  BY <1>0, <1>1, <1>3, Names DEF SchedOK, SchedType
<1>6. ShapeOK'
  <2>1. TypeOK'
    <3>1. Len(pending') <= MaxPending
      BY <1>0, <1>2, Types, JobAssumption
    <3> QED  BY <1>0, <1>1, <1>2, <1>5, <3>1, Types, TypesNext
  <2>2. main # "exited"
    BY <1>0, <1>1 DEF ShapeOK, MainOK
  <2> QED  BY <1>0, <1>1, <1>2, <1>5, <2>1, <2>2 DEF ShapeOK, WorkersOK, SchedOK, MainOK
<1>7. JobOK(c)'
  <2>1. /\ Waiting(c) /\ Served(c) /\ Waiting(c)' /\ Served(c)' /\ slot'[c] = "none"
        /\ c \notin In(pending')
    BY <1>1, <1>2, <1>3, <1>4, <1>5 DEF Waiting, Served, JobOK
  <2>2. WorkerRef(c)' = WorkerRef(c) /\ ServiceRef(c)' = ServiceRef(c) /\ MainRef(c)' = MainRef(c)
    BY <1>1, <2>1 DEF WorkerRef, ServiceRef, MainRef, Held, At
  <2> QED  BY <1>1, <1>4, <2>1, <2>2 DEF JobOK, At
<1>8. /\ (c \in Conns => ConnOK(c)' /\ VerdictOK(c)') /\ (c \in WarmUps => WarmOK(c)')
  BY <1>1, <1>4 DEF ConnOK, VerdictOK, WarmOK, Has, At
<1>9. ASSUME NEW d \in Requests \ {c} PROVE Same(d)
  BY <1>1, <1>2, <1>3, <1>5, Names DEF Same, WorkerSame, QueueSame, SchedSame, MainSame
<1> QED  BY <1>6, <1>7, <1>8, <1>9, OneRequest DEF RequestOK

LEMMA DropJobKeeps ==
  ASSUME JobsInv, DropJob
  PROVE  JobsInv'
<1>0. ShapeOK /\ TypeOK /\ SchedOK
  BY DEF JobsInv, ShapeOK
<1>1. PICK c : c = sched.conn
  OBVIOUS
<1>2. /\ sched.at = "took" /\ job[c].gaveUp /\ sched' = Loop /\ JobRelease(c, job[c], conn[c])
      /\ UNCHANGED <<parked, shut, worker, stream, pending, stop, stopping, slot, main>>
  BY <1>1 DEF DropJob
<1>3. /\ c \in Requests /\ Served(c) /\ c \notin In(pending) /\ slot[c] = "none"
      /\ JobOK(c) /\ (c \in Conns => ConnOK(c) /\ VerdictOK(c)) /\ (c \in WarmUps => WarmOK(c))
      /\ job[c] \in JobType /\ conn[c] \in ConnType /\ job[c].refs > 0
  BY <1>1, <1>2, InHand
<1>4. /\ sched' \in SchedType /\ sched'.mode = sched.mode /\ sched'.conn = Nobody /\ SchedOK'
      /\ \A d \in Requests \ {c} : SchedSame(d)
  BY <1>0, <1>1, <1>2, BackInLoop
<1>5. c \in Conns /\ c \notin WarmUps
  BY <1>2, <1>3, Names DEF WarmOK
<1>6. ~Served(c)'
  BY <1>2, <1>3, <1>4, Names DEF Served
<1>7. /\ conn[c].reported = 0 /\ conn[c].sock \in {"open", "closed"}
      /\ ~job[c].claimed => conn[c].sock = "open" /\ conn[c].reply = "none" /\ stream[c].writer = "none"
      /\ job[c].claimed => (conn[c].sock = "open" <=> stream[c].writer = "writing")
  BY <1>0, <1>3, <1>5, Releasable
<1> QED  BY <1>0, <1>2, <1>3, <1>4, <1>5, <1>6, <1>7, Types, LetGo

LEMMA PublishedKeeps ==
  ASSUME JobsInv, Published
  PROVE  JobsInv'
<1>0. ShapeOK /\ TypeOK /\ SchedOK
  BY DEF JobsInv, ShapeOK
<1>1. PICK c : c = sched.conn
  OBVIOUS
<1>2. /\ sched.at = "publish" /\ sched' = Loop /\ JobRelease(c, job[c], conn[c])
      /\ UNCHANGED <<parked, shut, worker, stream, pending, stop, stopping, slot, main>>
  BY <1>1 DEF Published
<1>3. /\ c \in Requests /\ Served(c) /\ c \notin In(pending) /\ slot[c] = "none"
      /\ JobOK(c) /\ (c \in Conns => ConnOK(c) /\ VerdictOK(c)) /\ (c \in WarmUps => WarmOK(c))
      /\ job[c] \in JobType /\ conn[c] \in ConnType /\ job[c].refs > 0
  BY <1>1, <1>2, InHand
<1>4. /\ sched' \in SchedType /\ sched'.mode = sched.mode /\ sched'.conn = Nobody /\ SchedOK'
      /\ \A d \in Requests \ {c} : SchedSame(d)
  BY <1>0, <1>1, <1>2, BackInLoop
<1>5. ~Served(c)'
  BY <1>2, <1>3, <1>4, Names DEF Served
<1>6. /\ conn[c].reported = 0
      /\ c \in Conns =>
           /\ conn[c].sock \in {"open", "closed"}
           /\ ~job[c].claimed => conn[c].sock = "open" /\ conn[c].reply = "none" /\ stream[c].writer = "none"
           /\ job[c].claimed => (conn[c].sock = "open" <=> stream[c].writer = "writing")
  <2>1. CASE c \in Conns
    BY <1>0, <1>3, <2>1, Releasable
  <2>2. CASE c \in WarmUps
    BY <1>3, <2>2, Names DEF WarmOK
  <2> QED  BY <1>3, <2>1, <2>2, Names
<1> QED  BY <1>0, <1>2, <1>3, <1>4, <1>5, <1>6, Types, LetGo

LEMMA StreamCannotStartKeeps ==
  ASSUME JobsInv, StreamCannotStart
  PROVE  JobsInv'
<1>0. ShapeOK /\ TypeOK /\ SchedOK
  BY DEF JobsInv, ShapeOK
<1>1. PICK c : c = sched.conn
  OBVIOUS
<1>2. /\ sched.at = "took" /\ job[c].kind = "stream" /\ ~job[c].gaveUp /\ sched' = Loop
      /\ JobRelease(c, Claimed(job[c]), RespondAndClose(conn[c], "500"))
      /\ UNCHANGED <<parked, shut, worker, stream, pending, stop, stopping, slot, main>>
  BY <1>1 DEF StreamCannotStart
<1>3. /\ c \in Requests /\ Served(c) /\ c \notin In(pending) /\ slot[c] = "none"
      /\ JobOK(c) /\ (c \in Conns => ConnOK(c) /\ VerdictOK(c)) /\ (c \in WarmUps => WarmOK(c))
      /\ job[c] \in JobType /\ conn[c] \in ConnType /\ job[c].refs > 0
  BY <1>1, <1>2, InHand
<1>4. /\ sched' \in SchedType /\ sched'.mode = sched.mode /\ sched'.conn = Nobody /\ SchedOK'
      /\ \A d \in Requests \ {c} : SchedSame(d)
  BY <1>0, <1>1, <1>2, BackInLoop
<1>5. c \in Conns /\ c \notin WarmUps
  BY <1>2, <1>3, Names DEF WarmOK
<1>6. ~Served(c)'
  BY <1>2, <1>3, <1>4, Names DEF Served
<1>7. ~job[c].claimed
  BY <1>1, <1>2, <1>3 DEF JobOK, Waiting
<1>8. /\ conn[c].reported = 0 /\ conn[c].sock = "open" /\ conn[c].reply = "none" /\ stream[c].writer = "none"
  BY <1>3, <1>5, <1>7 DEF ConnOK
<1>9. PICK cn \in ConnType : /\ cn = RespondAndClose(conn[c], "500") /\ cn.sock = "closed"
                             /\ cn.reply = "500" /\ cn.reported = 0
  <2>1. "500" \in Replies
    BY DEF Replies
  <2>2. /\ RespondAndClose(conn[c], "500") \in ConnType
        /\ RespondAndClose(conn[c], "500").sock = "closed"
        /\ RespondAndClose(conn[c], "500").reply = "500"
        /\ RespondAndClose(conn[c], "500").reported = 0
    BY <1>3, <1>8, <2>1, Responding
  <2> QED  BY <2>2
<1>10. PICK j \in JobType : /\ j = Claimed(job[c]) /\ j.claimed /\ j.refs = job[c].refs
                            /\ j.kind = job[c].kind /\ j.gaveUp = job[c].gaveUp
                            /\ j.done = job[c].done /\ j.sound = job[c].sound
  BY <1>3, ClaimedType
<1> QED  BY <1>0, <1>2, <1>3, <1>4, <1>5, <1>6, <1>8, <1>9, <1>10, Types, LetGo

LEMMA RetireStreamKeeps ==
  ASSUME JobsInv, NEW c \in Requests, RetireStream(c)
  PROVE  JobsInv'
<1>0. ShapeOK /\ TypeOK /\ SchedOK
  BY DEF JobsInv, ShapeOK
<1>1. /\ sched.mode \in {"serving", "refusing"} /\ sched.at = "loop"
      /\ slot[c] \in Finished /\ job[c].kind = "stream"
      /\ slot' = [slot EXCEPT ![c] = "none"]
      /\ stream' = [stream EXCEPT ![c].out = "released"]
      /\ JobRelease(c, job[c], conn[c])
      /\ UNCHANGED <<parked, shut, worker, pending, stop, stopping, sched, main>>
  BY DEF RetireStream
<1>2. /\ JobOK(c) /\ (c \in Conns => ConnOK(c) /\ VerdictOK(c)) /\ (c \in WarmUps => WarmOK(c))
      /\ job[c] \in JobType /\ conn[c] \in ConnType
  BY <1>0, Types DEF JobsInv, RequestOK
<1>3. c \in Conns /\ c \notin WarmUps /\ slot[c] # "none"
  BY <1>1, <1>2, Names DEF WarmOK, Finished
<1>4. /\ slot' \in [Requests -> {"none", "live"} \cup Finished] /\ slot'[c] = "none"
      /\ stream' \in [Requests -> StreamType] /\ stream'[c].writer = stream[c].writer
      /\ \A d \in Requests \ {c} : slot'[d] = slot[d] /\ stream'[d] = stream[d]
  BY <1>0, <1>1, Types DEF StreamType
<1>5. Served(c) /\ ~Served(c)'
  <2>1. c \notin In(pending) /\ sched.conn # c
    BY <1>2, <1>3 DEF JobOK
  <2> QED  BY <1>1, <1>3, <1>4, <2>1 DEF Served
<1>6. job[c].refs > 0
  <2>1. WorkerRef(c) \in {0, 1} /\ ServiceRef(c) = 1 /\ MainRef(c) \in {0, 1}
    BY <1>5 DEF WorkerRef, ServiceRef, MainRef
  <2> QED  BY <1>2, <2>1 DEF JobOK
<1>7. /\ conn[c].reported = 0 /\ conn[c].sock \in {"open", "closed"}
      /\ ~job[c].claimed => conn[c].sock = "open" /\ conn[c].reply = "none" /\ stream[c].writer = "none"
      /\ job[c].claimed => (conn[c].sock = "open" <=> stream[c].writer = "writing")
  BY <1>0, <1>2, <1>3, <1>6, Releasable
<1>8. SchedOK' /\ sched' \in SchedType
  BY <1>0, <1>1, Types DEF SchedOK
<1>9. \A d \in Requests \ {c} : SchedSame(d)
  BY <1>1 DEF SchedSame
<1> QED  BY <1>1, <1>2, <1>3, <1>4, <1>5, <1>7, <1>8, <1>9, LetGo

LEMMA AdmitBatchKeeps ==
  ASSUME JobsInv, AdmitBatch
  PROVE  JobsInv'
<1>0. ShapeOK /\ TypeOK /\ SchedOK
  BY DEF JobsInv, ShapeOK
<1>1. PICK c : c = sched.conn
  OBVIOUS
<1>2. /\ sched.at = "took" /\ job[c].kind = "batch" /\ sched' = Loop
      /\ slot' = [slot EXCEPT ![c] = Entered]
      /\ UNCHANGED <<conn, parked, shut, worker, job, stream, pending, stop, stopping, main>>
  BY <1>1 DEF AdmitBatch
<1>3. /\ c \in Requests /\ Served(c) /\ c \notin In(pending) /\ slot[c] = "none"
      /\ JobOK(c) /\ (c \in Conns => ConnOK(c) /\ VerdictOK(c)) /\ (c \in WarmUps => WarmOK(c))
  BY <1>1, <1>2, InHand
<1>4. /\ sched' \in SchedType /\ sched'.mode = sched.mode /\ sched'.at = "loop" /\ sched'.conn = Nobody
      /\ sched.mode \in {"serving", "refusing"} /\ \A d \in Requests \ {c} : SchedSame(d)
  BY <1>0, <1>1, <1>2, BackInLoop
<1>5. /\ slot' \in [Requests -> {"none", "live"} \cup Finished] /\ slot'[c] # "none"
      /\ \A d \in Requests \ {c} : slot'[d] = slot[d]
  BY <1>0, <1>2, <1>3, Types DEF Entered, Finished
<1>6. ShapeOK'
  <2>1. TypeOK'
    BY <1>0, <1>2, <1>4, <1>5, Types, TypesNext
  <2> QED  BY <1>0, <1>2, <1>4, <2>1 DEF ShapeOK, WorkersOK, SchedOK, MainOK
<1>7. JobOK(c)'
  <2>1. Served(c)' /\ ~Waiting(c)' /\ Waiting(c) /\ sched'.conn # c /\ c \notin In(pending')
    BY <1>1, <1>2, <1>3, <1>4, <1>5, Names DEF Served, Waiting
  <2>2. WorkerRef(c)' = WorkerRef(c) /\ ServiceRef(c)' = ServiceRef(c) /\ MainRef(c)' = MainRef(c)
    BY <1>2, <1>3, <2>1 DEF WorkerRef, ServiceRef, MainRef, Held, At
  <2> QED  BY <1>2, <1>3, <1>5, <2>1, <2>2 DEF JobOK, At
<1>8. /\ (c \in Conns => ConnOK(c)' /\ VerdictOK(c)') /\ (c \in WarmUps => WarmOK(c)')
  BY <1>2, <1>3 DEF ConnOK, VerdictOK, WarmOK, Has, At
<1>9. ASSUME NEW d \in Requests \ {c} PROVE Same(d)
  BY <1>2, <1>4, <1>5 DEF Same, WorkerSame, QueueSame, MainSame
<1> QED  BY <1>6, <1>7, <1>8, <1>9, OneRequest DEF RequestOK

LEMMA AdmitStreamKeeps ==
  ASSUME JobsInv, AdmitStream
  PROVE  JobsInv'
<1>0. ShapeOK /\ TypeOK /\ SchedOK
  BY DEF JobsInv, ShapeOK
<1>1. PICK c : c = sched.conn
  OBVIOUS
<1>2. /\ sched.at = "took" /\ job[c].kind = "stream" /\ ~job[c].gaveUp /\ sched' = Loop
      /\ job' = [job EXCEPT ![c] = Claimed(@)]
      /\ stream' = [stream EXCEPT ![c] = [out |-> "open", writer |-> "writing"]]
      /\ conn' = [conn EXCEPT ![c] = Answer(@, "stream")]
      /\ slot' = [slot EXCEPT ![c] = Entered]
      /\ UNCHANGED <<parked, shut, worker, pending, stop, stopping, main>>
  BY <1>1 DEF AdmitStream
<1>3. /\ c \in Requests /\ Served(c) /\ c \notin In(pending) /\ slot[c] = "none"
      /\ JobOK(c) /\ (c \in Conns => ConnOK(c) /\ VerdictOK(c)) /\ (c \in WarmUps => WarmOK(c))
      /\ job[c] \in JobType /\ conn[c] \in ConnType /\ job[c].refs > 0
  BY <1>1, <1>2, InHand
<1>4. /\ sched' \in SchedType /\ sched'.mode = sched.mode /\ sched'.at = "loop" /\ sched'.conn = Nobody
      /\ sched.mode \in {"serving", "refusing"} /\ \A d \in Requests \ {c} : SchedSame(d)
  BY <1>0, <1>1, <1>2, BackInLoop
<1>5. c \in Conns /\ c \notin WarmUps /\ ConnOK(c) /\ VerdictOK(c)
  BY <1>2, <1>3, Names DEF WarmOK
<1>6. ~job[c].claimed /\ ~job[c].done /\ Waiting(c)
  BY <1>1, <1>2, <1>3 DEF JobOK, Waiting
<1>7. /\ conn[c].sock = "open" /\ conn[c].reply = "none" /\ conn[c].reported = 0
      /\ c \notin In(parked) /\ ~At(c, "parsing")
  BY <1>0, <1>3, <1>5, <1>6, Releasable DEF ConnOK
<1>8. PICK n \in ConnType : /\ n = Answer(conn[c], "stream") /\ n.sock = "open"
                            /\ n.reply = "stream" /\ n.reported = 0
  <2>1. "stream" \in Replies
    BY DEF Replies
  <2>2. /\ Answer(conn[c], "stream") \in ConnType /\ Answer(conn[c], "stream").sock = "open"
        /\ Answer(conn[c], "stream").reply = "stream" /\ Answer(conn[c], "stream").reported = 0
    BY <1>3, <1>7, <2>1, Answering
  <2> QED  BY <2>2
<1>9. /\ conn' \in [Requests -> ConnType] /\ conn'[c] = n
      /\ job' \in [Requests -> JobType] /\ job'[c].claimed /\ job'[c].refs = job[c].refs
      /\ job'[c].kind = "stream" /\ ~job'[c].done /\ ~job'[c].gaveUp
      /\ \A d \in Requests \ {c} : conn'[d] = conn[d] /\ job'[d] = job[d]
  BY <1>0, <1>2, <1>3, <1>6, <1>8, Types, ClaimedType
<1>10. /\ slot' \in [Requests -> {"none", "live"} \cup Finished] /\ slot'[c] # "none"
       /\ stream' \in [Requests -> StreamType] /\ stream'[c].writer = "writing"
       /\ \A d \in Requests \ {c} : slot'[d] = slot[d] /\ stream'[d] = stream[d]
  <2>1. [out |-> "open", writer |-> "writing"] \in StreamType
    BY DEF StreamType
  <2> QED  BY <1>0, <1>2, <1>3, <2>1, Types DEF Entered, Finished
<1>11. ShapeOK'
  <2>1. TypeOK'
    BY <1>0, <1>2, <1>4, <1>9, <1>10, Types, TypesNext
  <2> QED  BY <1>0, <1>2, <1>4, <2>1 DEF ShapeOK, WorkersOK, SchedOK, MainOK
<1>12. JobOK(c)'
  <2>1. Served(c)' /\ ~Waiting(c)' /\ sched'.conn # c /\ c \notin In(pending')
    BY <1>2, <1>3, <1>4, <1>10, Names DEF Served, Waiting
  <2>2. WorkerRef(c)' = WorkerRef(c) /\ ServiceRef(c)' = ServiceRef(c) /\ MainRef(c)' = MainRef(c)
    BY <1>2, <1>3, <2>1 DEF WorkerRef, ServiceRef, MainRef, Held, At
  <2>3. ~At(c, "submit") /\ ~At(c, "wait") /\ ~At(c, "late") /\ ~At(c, "answer")
    BY <1>2, <1>3 DEF JobOK
  <2> QED  BY <1>2, <1>3, <1>9, <1>10, <2>1, <2>2, <2>3 DEF JobOK, At
<1>13. ConnOK(c)' /\ VerdictOK(c)'
  <2>1. c \notin In(parked)' /\ ~At(c, "parsing")' /\ job'[c].refs > 0
    BY <1>2, <1>3, <1>7, <1>9 DEF At
  <2>2. ~At(c, "wait")' /\ ~At(c, "late")' /\ ~At(c, "answer")'
    BY <1>2, <1>3 DEF JobOK, At
  <2> QED  BY <1>8, <1>9, <1>10, <2>1, <2>2 DEF ConnOK, VerdictOK
<1>14. ASSUME NEW d \in Requests \ {c} PROVE Same(d)
  BY <1>2, <1>4, <1>9, <1>10 DEF Same, WorkerSame, QueueSame, MainSame
<1> QED  BY <1>5, <1>11, <1>12, <1>13, <1>14, OneRequest DEF RequestOK

\* A request in a slot is cancelled, ends, fails or expires: it keeps the slot.
LEMMA SlotEndsKeeps ==
  ASSUME JobsInv, NEW c \in Requests,
         Cancel(c) \/ StreamCallback(c) \/ \E outcome \in {"ended", "failed"} : EndRequest(c, outcome)
  PROVE  JobsInv'
<1>0. ShapeOK /\ TypeOK
  BY DEF JobsInv, ShapeOK
<1>1. PICK how \in Finished :
        /\ InDriver /\ slot[c] = "live" /\ slot' = [slot EXCEPT ![c] = how]
        /\ UNCHANGED <<conn, parked, shut, worker, job, stream, pending, stop, stopping, sched, main>>
  BY DEF Cancel, StreamCallback, EndRequest, Finished
<1>2. /\ slot' \in [Requests -> {"none", "live"} \cup Finished] /\ slot'[c] # "none" /\ slot[c] # "none"
      /\ \A d \in Requests \ {c} : slot'[d] = slot[d]
  BY <1>0, <1>1, Types DEF Finished
<1>3. ShapeOK'
  <2>1. TypeOK'
    BY <1>0, <1>1, <1>2, Types, TypesNext
  <2>2. SchedOK'
    BY <1>0, <1>1 DEF ShapeOK, SchedOK, InDriver
  <2> QED  BY <1>0, <1>1, <2>1, <2>2 DEF ShapeOK, WorkersOK, MainOK
<1>4. /\ JobOK(c) /\ (c \in Conns => ConnOK(c) /\ VerdictOK(c)) /\ (c \in WarmUps => WarmOK(c))
  BY DEF JobsInv, RequestOK
<1>5. JobOK(c)'
  <2>1. Served(c)' /\ Served(c)
    BY <1>2 DEF Served
  <2>2. WorkerRef(c)' = WorkerRef(c) /\ ServiceRef(c)' = ServiceRef(c) /\ MainRef(c)' = MainRef(c)
    BY <1>1, <2>1 DEF WorkerRef, ServiceRef, MainRef, Held, At
  <2> QED  BY <1>1, <1>2, <1>4, <2>1, <2>2 DEF JobOK, At, Waiting
<1>6. /\ (c \in Conns => ConnOK(c)' /\ VerdictOK(c)') /\ (c \in WarmUps => WarmOK(c)')
  BY <1>1, <1>4 DEF ConnOK, VerdictOK, WarmOK, Has, At
<1>7. ASSUME NEW d \in Requests \ {c} PROVE Same(d)
  BY <1>1, <1>2 DEF Same, WorkerSame, QueueSame, SchedSame, MainSame
<1> QED  BY <1>3, <1>5, <1>6, <1>7, OneRequest DEF RequestOK

LEMMA RetireBatchKeeps ==
  ASSUME JobsInv, NEW c \in Requests, RetireBatch(c)
  PROVE  JobsInv'
<1>0. ShapeOK /\ TypeOK /\ SchedOK
  BY DEF JobsInv, ShapeOK
<1>1. /\ sched.mode \in {"serving", "refusing"} /\ sched.at = "loop"
      /\ slot[c] \in Finished /\ job[c].kind = "batch" /\ slot' = [slot EXCEPT ![c] = "none"]
      /\ job' = [job EXCEPT ![c].done = TRUE, ![c].sound = (slot[c] = "ended")]
      /\ sched' = [sched EXCEPT !.at = "publish", !.conn = c]
      /\ UNCHANGED <<conn, parked, shut, worker, stream, pending, stop, stopping, main>>
  BY DEF RetireBatch
<1>2. /\ JobOK(c) /\ (c \in Conns => ConnOK(c) /\ VerdictOK(c)) /\ (c \in WarmUps => WarmOK(c))
      /\ job[c] \in JobType /\ c # Nobody /\ slot[c] # "none"
  BY <1>0, <1>1, Types, Names DEF JobsInv, RequestOK, Finished
<1>3. /\ Served(c) /\ c \notin In(pending) /\ sched.conn # c /\ sched.conn = Nobody
      /\ ~job[c].done /\ ~At(c, "submit") /\ ~At(c, "answer")
  BY <1>0, <1>1, <1>2 DEF JobOK, Served, SchedOK
<1>4. /\ job' \in [Requests -> JobType] /\ job'[c].done /\ job'[c].refs = job[c].refs
      /\ job'[c].kind = job[c].kind /\ job'[c].claimed = job[c].claimed /\ job'[c].gaveUp = job[c].gaveUp
      /\ \A d \in Requests \ {c} : job'[d] = job[d]
  BY <1>0, <1>1, <1>2, Types DEF JobType
<1>5. /\ slot' \in [Requests -> {"none", "live"} \cup Finished] /\ slot'[c] = "none"
      /\ \A d \in Requests \ {c} : slot'[d] = slot[d]
  BY <1>0, <1>1, Types
<1>6. /\ sched' \in SchedType /\ sched'.mode = sched.mode /\ sched'.at = "publish" /\ sched'.conn = c
  BY <1>0, <1>1, Types DEF SchedType
<1>7. ShapeOK'
  <2>1. TypeOK'
    BY <1>0, <1>1, <1>4, <1>5, <1>6, Types, TypesNext
  <2>2. SchedOK'
    BY <1>1, <1>2, <1>6 DEF SchedOK
  <2>3. MainOK'
    BY <1>0, <1>1, <1>6 DEF ShapeOK, MainOK
  <2> QED  BY <1>0, <1>1, <2>1, <2>2, <2>3 DEF ShapeOK, WorkersOK
<1>8. JobOK(c)'
  <2>1. Served(c)' /\ ~Waiting(c)' /\ c \notin In(pending')
    BY <1>1, <1>3, <1>6 DEF Served, Waiting
  <2>2. WorkerRef(c)' = WorkerRef(c) /\ ServiceRef(c)' = ServiceRef(c) /\ MainRef(c)' = MainRef(c)
    BY <1>1, <1>3, <2>1 DEF WorkerRef, ServiceRef, MainRef, Held, At
  <2> QED  BY <1>1, <1>2, <1>3, <1>4, <1>5, <2>1, <2>2 DEF JobOK, At
<1>9. c \in Conns => ConnOK(c)' /\ VerdictOK(c)'
  <2>1. c \in Conns => ConnOK(c)'
    BY <1>1, <1>2, <1>4 DEF ConnOK, Has, At
  <2>2. c \in Conns => conn[c].reply \notin {"200", "empty"} /\ ~(conn[c].reply = "500" /\ job[c].kind = "batch")
    BY <1>2, <1>3 DEF VerdictOK
  <2>3. c \in Conns => VerdictOK(c)'
    BY <1>1, <1>2, <1>4, <2>2 DEF VerdictOK, At
  <2> QED  BY <2>1, <2>3
<1>10. c \in WarmUps => WarmOK(c)'
  BY <1>1, <1>2, <1>3, <1>4 DEF WarmOK
<1>11. ASSUME NEW d \in Requests \ {c} PROVE Same(d)
  BY <1>1, <1>3, <1>4, <1>5, <1>6, Names DEF Same, WorkerSame, QueueSame, SchedSame, MainSame
<1> QED  BY <1>7, <1>8, <1>9, <1>10, <1>11, OneRequest DEF RequestOK

\* The driver returns, and the thread ends.
LEMMA SchedulerEndsKeeps ==
  ASSUME JobsInv, Return \/ EndScheduler
  PROVE  JobsInv'
<1>0. ShapeOK /\ TypeOK /\ sched \in SchedType
  BY Types DEF JobsInv, ShapeOK
<1>1. /\ sched' \in SchedType /\ sched'.at = sched.at /\ sched'.conn = sched.conn
      /\ sched'.mode \in {"returned", "over"} /\ sched.mode # "over"
      /\ sched.at = "loop" /\ \A c \in Requests : slot[c] = "none"
      /\ stop' \in BOOLEAN /\ stopping' \in BOOLEAN
      /\ UNCHANGED <<conn, parked, shut, worker, job, stream, pending, slot, main>>
  <2>1. CASE Return
    BY <1>0, <2>1, Types DEF Return, Occupied, SchedType
  <2>2. CASE EndScheduler
    BY <1>0, <2>2, Types DEF EndScheduler, ShapeOK, SchedOK, SchedType
  <2> QED  BY <2>1, <2>2
<1>2. ShapeOK'
  <2>1. TypeOK'
    BY <1>0, <1>1, Types, TypesNext
  <2> QED  BY <1>0, <1>1, <2>1 DEF ShapeOK, WorkersOK, SchedOK, MainOK
<1>3. ASSUME NEW d \in Requests PROVE Same(d)
  BY <1>1 DEF Same, WorkerSame, QueueSame, SchedSame, MainSame
<1> QED  BY <1>2, <1>3, OneRequest, Names

LEMMA StandsStill == ASSUME JobsInv, UNCHANGED vars PROVE JobsInv'
<1>1. ShapeOK'
  <2>1. TypeOK'
    BY Types, TypesNext DEF JobsInv, ShapeOK, vars
  <2> QED  BY <2>1 DEF JobsInv, ShapeOK, WorkersOK, SchedOK, MainOK, vars
<1>2. ASSUME NEW d \in Requests PROVE Same(d)
  BY DEF Same, WorkerSame, QueueSame, SchedSame, MainSame, vars
<1> QED  BY <1>1, <1>2, OneRequest, Names

-----------------------------------------------------------------------------
(* The invariant holds, and what it gives.                                 *)

LEMMA JobsStart ==
  ASSUME Init
  PROVE  JobsInv
<1>1. /\ conn = [c \in Requests |-> [sock |-> "away", reply |-> "none", reported |-> 0]]
      /\ parked = <<>> /\ shut = FALSE
      /\ worker = [w \in Workers |-> [at |-> "idle", conn |-> Nobody]]
      /\ job = [c \in Requests |-> NoJob]
      /\ stream = [c \in Requests |-> [out |-> "none", writer |-> "none"]]
      /\ pending = <<>> /\ stop = FALSE /\ stopping = FALSE
      /\ slot = [c \in Requests |-> "none"]
      /\ main \in {"start", "serving"}
  BY DEF Init
<1>2. sched.mode \in {"serving", "refusing"} /\ sched.at = "loop" /\ sched.conn = Nobody /\ sched \in SchedType
  BY DEF Init, SchedType
<1>3. In(pending) = {} /\ In(parked) = {} /\ Once(pending) /\ Once(parked) /\ Len(<<>>) = 0
  BY <1>1, EmptySeq DEF In, Once
<1>4. NoJob \in JobType
  BY DEF NoJob, JobType
<1>5. [sock |-> "away", reply |-> "none", reported |-> 0] \in ConnType
  BY DEF ConnType, Socks, Replies
<1>6. [at |-> "idle", conn |-> Nobody] \in WorkerType /\ [out |-> "none", writer |-> "none"] \in StreamType
  BY DEF WorkerType, StreamType
<1>7. TypeOK
  <2>1. parked \in Seq(Conns) /\ pending \in Seq(Requests) /\ Len(parked) <= ParkCap /\ Len(pending) <= MaxPending
    BY <1>1, <1>3, EmptySeq, JobAssumption
  <2> QED  BY <1>1, <1>2, <1>4, <1>5, <1>6, <2>1, Types
<1>8. \A w \in Workers : worker[w].at = "idle" /\ worker[w].conn = Nobody
  BY <1>1
<1>9. ShapeOK
  BY <1>1, <1>2, <1>3, <1>7, <1>8 DEF ShapeOK, WorkersOK, SchedOK, MainOK
<1>10. ASSUME NEW c \in Requests PROVE RequestOK(c)
  <2>1. /\ job[c] = NoJob /\ conn[c] = [sock |-> "away", reply |-> "none", reported |-> 0]
        /\ stream[c].writer = "none" /\ slot[c] = "none" /\ Where(c, "none") /\ c # Nobody
    <3>1. ~Has(c)
      BY <1>8, Names DEF Has
    <3> QED  BY <1>1, <3>1, Names, Nowhere
  <2>2. job[c].refs = 0 /\ job[c].kind = "none" /\ ~job[c].claimed /\ ~job[c].done /\ ~job[c].gaveUp
    BY <2>1 DEF NoJob
  <2>3. ~Served(c) /\ ~Waiting(c) /\ WorkerRef(c) = 0 /\ MainRef(c) = 0
    BY <1>1, <1>2, <1>3, <2>1 DEF Served, Waiting, WorkerRef, MainRef, Held, Where
  <2>4. JobOK(c)
    BY <1>2, <1>3, <2>1, <2>2, <2>3 DEF JobOK, ServiceRef, Where
  <2>5. ConnOK(c) /\ VerdictOK(c) /\ WarmOK(c)
    BY <1>3, <2>1, <2>2 DEF ConnOK, VerdictOK, WarmOK, Where
  <2> QED  BY <2>4, <2>5 DEF RequestOK
<1> QED  BY <1>9, <1>10 DEF JobsInv

LEMMA JobsStep ==
  ASSUME JobsInv, [Next]_vars
  PROVE  JobsInv'
<1>1. ASSUME NEW c \in Conns, Receive(c) \/ Shed(c) PROVE JobsInv'
  BY <1>1, ReceiveKeeps, ShedKeeps
<1>2. ASSUME NEW c \in WarmUps, SubmitWarmUp(c) \/ WarmedUp(c) PROVE JobsInv'
  BY <1>2, SubmitWarmUpKeeps, WarmedUpKeeps
<1>3. ASSUME Shutdown \/ MainEnds PROVE JobsInv'
  BY <1>2, <1>3, ShutdownStepsKeep, DrainJobKeeps, ExitKeeps DEF MainEnds
<1>4. ASSUME NEW w \in Workers, WorkerStep(w) PROVE JobsInv'
  <2>1. CASE TakeConn(w) \/ Leave(w) \/ AnswerDirectly(w) \/ \E k \in Kinds : BuildJob(w, k)
    BY <2>1, TakeConnKeeps, LeaveKeeps, AnswerDirectlyKeeps, BuildJobKeeps
  <2>2. CASE Submit(w) \/ QueueRefuses(w) \/ Completed(w)
    BY <2>2, SubmitKeeps, QueueRefusesKeeps, CompletedKeeps
  <2>3. CASE GiveUp(w) \/ Respond(w) \/ ReleaseJob(w)
    BY <2>3, GiveUpKeeps, RespondKeeps, ReleaseJobKeeps
  <2> QED  BY <1>4, <2>1, <2>2, <2>3 DEF WorkerStep
<1>5. ASSUME SchedulerStep \/ EngineStep PROVE JobsInv'
  <2>1. CASE NextJob \/ DropJob \/ AdmitBatch \/ AdmitStream \/ StreamCannotStart
    BY <2>1, NextJobKeeps, DropJobKeeps, AdmitBatchKeeps, AdmitStreamKeeps, StreamCannotStartKeeps
  <2>2. ASSUME NEW c \in Requests, Cancel(c) \/ StreamCallback(c) \/ RetireStream(c) \/ RetireBatch(c)
        PROVE JobsInv'
    BY <2>2, SlotEndsKeeps, RetireStreamKeeps, RetireBatchKeeps
  <2>3. CASE Published \/ Return \/ EndScheduler
    BY <2>3, PublishedKeeps, SchedulerEndsKeeps
  <2>4. CASE EngineStep
    BY <2>4, SlotEndsKeeps DEF EngineStep
  <2> QED  BY <1>5, <2>1, <2>2, <2>3, <2>4 DEF SchedulerStep
<1>6. ASSUME NEW c \in Requests, DeadlinePasses(c) \/ StreamDies(c) \/ WriterEnds(c) PROVE JobsInv'
  BY <1>6, DeadlinePassesKeeps, StreamDiesKeeps, WriterEndsKeeps
<1>7. CASE UNCHANGED vars \/ Over
  BY <1>7, StandsStill DEF Over
<1> QED  BY <1>1, <1>2, <1>3, <1>4, <1>5, <1>6, <1>7 DEF Next

LEMMA JobsHold == Spec => []JobsInv
<1>1. Init => JobsInv
  BY JobsStart
<1>2. JobsInv /\ [Next]_vars => JobsInv'
  BY JobsStep
<1> QED  BY <1>1, <1>2, PTL DEF Spec

\* At most one more party: at most one more reference.
LEMMA OneMore ==
  ASSUME NEW S, IsFiniteSet(S), NEW x, x \notin S, NEW T, T = {} \/ T = {x}
  PROVE  /\ IsFiniteSet(S \cup T) /\ Cardinality(S) \in Nat
         /\ Cardinality(S \cup T) = Cardinality(S) + (IF T = {} THEN 0 ELSE 1)
<1>1. Cardinality(S) \in Nat
  BY FS_CardinalityType
<1>2. CASE T = {}
  BY <1>1, <1>2
<1>3. CASE T = {x}
  <2>1. IsFiniteSet(S \cup {x}) /\ Cardinality(S \cup {x}) = Cardinality(S) + 1
    BY FS_AddElement
  <2> QED  BY <1>1, <1>3, <2>1
<1> QED  BY <1>2, <1>3

LEMMA HoldersCounted ==
  ASSUME JobsInv, NEW c \in Requests
  PROVE  job[c].refs = Cardinality(Holders(c))
<1> DEFINE W == {<<"worker", w>> : w \in {v \in Workers : worker[v].conn = c
                    /\ worker[v].at \in {"submit", "wait", "late", "answer", "release"}}}
           Q == {<<"queue", i>> : i \in {k \in DOMAIN pending : pending[k] = c}}
           S == IF sched.conn = c THEN {<<"scheduler">>} ELSE {}
           L == IF slot[c] # "none" THEN {<<"slot">>} ELSE {}
           M == IF main = "warming" /\ c \in WarmUps THEN {<<"main">>} ELSE {}
<1>0. /\ JobOK(c) /\ WorkersOK /\ Once(pending) /\ c # Nobody
  BY Names DEF JobsInv, RequestOK, ShapeOK
<1>1. Holders(c) = ((({} \cup W) \cup (Q \cup S \cup L)) \cup M)
  BY DEF Holders
<1>2. PICK w : W = {} \/ W = {<<"worker", w>>}
  <2>1. CASE W = {}
    BY <2>1
  <2>2. CASE W # {}
    <3>1. PICK w \in Workers : /\ worker[w].conn = c
                               /\ worker[w].at \in {"submit", "wait", "late", "answer", "release"}
      BY <2>2
    <3>2. {v \in Workers : worker[v].conn = c
             /\ worker[v].at \in {"submit", "wait", "late", "answer", "release"}} = {w}
      BY <1>0, <3>1 DEF WorkersOK
    <3>3. W = {<<"worker", v>> : v \in {w}}
      BY <3>2
    <3>4. {<<"worker", v>> : v \in {w}} = {<<"worker", w>>}
      OBVIOUS
    <3> QED  BY <3>3, <3>4
  <2> QED  BY <2>1, <2>2
<1>3. WorkerRef(c) = IF W = {} THEN 0 ELSE 1
  BY DEF WorkerRef, Held, At
<1>4. PICK q : Q = {} \/ Q = {<<"queue", q>>}
  <2>1. CASE Q = {}
    BY <2>1
  <2>2. CASE Q # {}
    <3>1. PICK i \in DOMAIN pending : pending[i] = c
      BY <2>2
    <3>2. {k \in DOMAIN pending : pending[k] = c} = {i}
      BY <1>0, <3>1 DEF Once
    <3> QED  BY <3>2
  <2> QED  BY <2>1, <2>2
<1>5. Q # {} <=> c \in In(pending)
  BY DEF In
<1>6. PICK d \in {<<"queue", q>>, <<"scheduler">>, <<"slot">>} :
        /\ (Q \cup S \cup L) = {} \/ (Q \cup S \cup L) = {d}
        /\ (Q \cup S \cup L) = {} <=> ~Served(c)
  <2>1. CASE c \in In(pending)
    <3>1. sched.conn # c /\ slot[c] = "none" /\ Served(c)
      BY <1>0, <2>1 DEF JobOK, Served
    <3> QED  BY <1>4, <1>5, <2>1, <3>1
  <2>2. CASE c \notin In(pending) /\ sched.conn = c
    <3>1. slot[c] = "none" /\ Served(c)
      BY <1>0, <2>2 DEF JobOK, Served
    <3> QED  BY <1>5, <2>2, <3>1
  <2>3. CASE c \notin In(pending) /\ sched.conn # c /\ slot[c] # "none"
    BY <1>5, <2>3 DEF Served
  <2>4. CASE c \notin In(pending) /\ sched.conn # c /\ slot[c] = "none"
    BY <1>5, <2>4 DEF Served
  <2> QED  BY <2>1, <2>2, <2>3, <2>4
<1>7. ServiceRef(c) = IF (Q \cup S \cup L) = {} THEN 0 ELSE 1
  BY <1>6 DEF ServiceRef
<1>8. (M = {} \/ M = {<<"main">>}) /\ MainRef(c) = IF M = {} THEN 0 ELSE 1
  BY DEF MainRef
<1>9. /\ <<"worker", w>> # <<"main">> /\ <<"worker", w>> # d /\ d # <<"main">>
  <2>1. <<"worker", w>>[1] = "worker" /\ <<"main">>[1] = "main" /\ d[1] \in {"queue", "scheduler", "slot"}
    BY <1>6
  <2> QED  BY <2>1
<1> HIDE DEF W, Q, S, L, M
<1>10. /\ IsFiniteSet({} \cup W) /\ Cardinality({} \cup W) = WorkerRef(c)
  <2>1. IsFiniteSet({}) /\ Cardinality({}) = 0
    BY FS_EmptySet
  <2>2. <<"worker", w>> \notin {}
    OBVIOUS
  <2>3. /\ IsFiniteSet({} \cup W)
        /\ Cardinality({} \cup W) = Cardinality({}) + (IF W = {} THEN 0 ELSE 1)
    BY <1>2, <2>1, <2>2, OneMore
  <2> QED  BY <1>3, <2>1, <2>3
<1>11. /\ IsFiniteSet(({} \cup W) \cup (Q \cup S \cup L))
       /\ Cardinality(({} \cup W) \cup (Q \cup S \cup L)) = WorkerRef(c) + ServiceRef(c)
  <2>1. d \notin {} \cup W
    BY <1>2, <1>9
  <2> QED  BY <1>6, <1>7, <1>10, <2>1, OneMore
<1>12. Cardinality(Holders(c)) = WorkerRef(c) + ServiceRef(c) + MainRef(c)
  <2>1. <<"main">> \notin ({} \cup W) \cup (Q \cup S \cup L)
    BY <1>2, <1>6, <1>9
  <2>2. Cardinality((({} \cup W) \cup (Q \cup S \cup L)) \cup M)
          = Cardinality(({} \cup W) \cup (Q \cup S \cup L)) + (IF M = {} THEN 0 ELSE 1)
    BY <1>8, <1>11, <2>1, OneMore
  <2> QED  BY <1>1, <1>8, <1>11, <2>2
<1> QED  BY <1>0, <1>12 DEF JobOK

\* The reference count of every job is the number of parties that hold it, in
\* every state of any number of workers and connections: job_release() frees a job
\* when its last holder lets go, and no sooner.
THEOREM ReferencesAreCounted == Spec => []CountIsExact
<1>1. JobsInv => CountIsExact
  BY HoldersCounted DEF CountIsExact, JobsInv, ShapeOK
<1> QED  BY <1>1, JobsHold, PTL

\* Nobody holds a job whose count is 0.
LEMMA NobodyHolds ==
  ASSUME JobsInv, NEW c \in Requests, job[c].refs = 0
  PROVE  Holders(c) = {} /\ ~Held(c) /\ ~Served(c)
<1>1. JobOK(c)
  BY DEF JobsInv, RequestOK
<1>2. WorkerRef(c) \in {0, 1} /\ ServiceRef(c) \in {0, 1} /\ MainRef(c) \in {0, 1}
  BY DEF WorkerRef, ServiceRef, MainRef
<1>3. WorkerRef(c) = 0 /\ ServiceRef(c) = 0 /\ MainRef(c) = 0
  BY <1>1, <1>2 DEF JobOK
<1>4. ~Held(c) /\ ~Served(c) /\ ~(main = "warming" /\ c \in WarmUps)
  BY <1>3 DEF WorkerRef, ServiceRef, MainRef
<1>5. /\ {v \in Workers : worker[v].conn = c
            /\ worker[v].at \in {"submit", "wait", "late", "answer", "release"}} = {}
      /\ {k \in DOMAIN pending : pending[k] = c} = {}
      /\ sched.conn # c /\ slot[c] = "none"
  BY <1>4 DEF Held, At, Served, In
<1> QED  BY <1>4, <1>5 DEF Holders

\* A client is answered and its descriptor closed at most once, and the router is
\* told at most once and last, whatever the worker's deadline, the scheduler, the
\* stream writer and the shutdown do in between.
THEOREM ClientsAreAnsweredOnce == Spec => []AnsweredOnce
<1>1. ASSUME JobsInv, NEW c \in Requests
      PROVE  /\ conn[c].reply # "garbled" /\ conn[c].sock # "twice" /\ conn[c].reported <= 1
             /\ conn[c].reported = 1 => /\ c \in Conns /\ Holders(c) = {}
                                        /\ \A w \in Workers : worker[w].conn # c
                                        /\ \A i \in DOMAIN parked : parked[i] # c
  <2>1. CASE c \in WarmUps
    BY <1>1, <2>1 DEF JobsInv, RequestOK, WarmOK
  <2>2. CASE c \in Conns
    <3>1. ConnOK(c) /\ job[c] \in JobType
      BY <1>1, <2>2, Types DEF JobsInv, RequestOK, ShapeOK
    <3>2. ASSUME conn[c].reported = 1 PROVE Holders(c) = {}
      <4>1. job[c].refs = 0
        BY <3>1, <3>2 DEF ConnOK, JobType
      <4> QED  BY <1>1, <4>1, NobodyHolds
    <3> QED  BY <2>2, <3>1, <3>2 DEF ConnOK, Has, In
  <2> QED  BY <2>1, <2>2, Names
<1>2. JobsInv => AnsweredOnce
  BY <1>1 DEF AnsweredOnce
<1> QED  BY <1>2, JobsHold, PTL

\* When the process has exited, every connection it took has been reported to the
\* router, and is closed unless a stream's writer still has it.
THEOREM NothingIsLeftBehind == Spec => []NothingLeftBehind
<1>1. ASSUME JobsInv, main = "exited", NEW c \in Conns, conn[c].sock # "away"
      PROVE  conn[c].reported = 1 /\ (conn[c].sock = "closed" \/ stream[c].writer = "writing")
  <2>1. ShapeOK /\ c \in Requests /\ c \notin WarmUps /\ JobOK(c) /\ ConnOK(c) /\ c # Nobody
    BY <1>1, Names DEF JobsInv, RequestOK
  <2>2. /\ \A w \in Workers : worker[w].conn # c
        /\ In(pending) = {} /\ In(parked) = {} /\ sched.conn # c /\ slot[c] = "none"
    BY <1>1, <2>1, EmptySeq DEF ShapeOK, WorkersOK, SchedOK, MainOK, In
  <2>3. ~Has(c) /\ ~Held(c) /\ ~Served(c)
    BY <2>2 DEF Has, Held, At, Served
  <2>4. job[c].refs = 0
    BY <2>1, <2>3 DEF JobOK, WorkerRef, ServiceRef, MainRef
  <2> QED  BY <1>1, <2>1, <2>2, <2>3, <2>4 DEF ConnOK
<1>2. JobsInv => NothingLeftBehind
  BY <1>1 DEF NothingLeftBehind
<1> QED  BY <1>2, JobsHold, PTL

\* A verdict is one on a published job: 200 with sound exactly if the job has some,
\* 500 only once it was done; a job given up by its worker is answered 504 or not at
\* all, whoever handles it afterwards.
THEOREM VerdictsArePublished == Spec => []VerdictIsPublished
<1>1. JobsInv => VerdictIsPublished
  BY Names DEF JobsInv, RequestOK, VerdictOK, VerdictIsPublished
<1> QED  BY <1>1, JobsHold, PTL
==============================================================================
