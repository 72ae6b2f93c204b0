--------------------------- MODULE PreforkRouter ---------------------------
(***************************************************************************)
(* The prefork router of server/prefork.c: the single-threaded parent that *)
(* accepts every connection of the fleet and decides its fate.  It hands   *)
(* the descriptor to a worker process (rung 1), parks it in a bounded      *)
(* queue (rung 2), refuses what waited too long (rung 3), and watches the  *)
(* connections it handed away for one that outlives the service cap        *)
(* (rung 4).  A fleet that holds several languages first reads the prefix  *)
(* of the request to learn which group of workers may serve it.            *)
(*                                                                         *)
(* The main loop is a tick of named phases, `pc`; clients and workers act  *)
(* between any two of its steps.  Time is discrete: the code samples the   *)
(* clock once, right after poll(), so only Poll advances it, and a stamp   *)
(* is kept as an age that stops growing at the deadline it is compared to. *)
(***************************************************************************)
EXTENDS Integers, Sequences, FiniteSets

CONSTANTS
  Conns,          \* client connections, each accepted at most once
  Workers,        \* forked worker processes
  Langs,          \* language groups; one element in a single-language fleet
  DefaultLang,    \* group 0, which serves a request that names no language
  LangOf,         \* the group of each worker
  ForkMayFail,    \* whether fork() may fail while the fleet starts
  Wants,          \* what a complete request can turn out to name
  Slots,          \* connections one worker serves at a time
  QPer,           \* queue entries per live worker; 0 none, -1 unbounded
  QDeadline,      \* ticks an entry may queue; 0 disables rung 3
  ServiceCap,     \* ticks of service before the watchdog speaks; 0 disables
  LingerTicks,    \* PF_LINGER_MS
  LingerMax,      \* PF_LINGER_MAX
  ClassifyTicks,  \* PF_CLASSIFY_MS
  PendingMax,     \* PF_PENDING_MAX
  QPollMax,       \* PF_QPOLL_MAX
  FdLimit,        \* descriptors of clients the parent can hold at once
  MaxDeaths,      \* bound: workers missing from a running fleet
  MaxOverCap      \* bound: alarms of one worker after which time stands still

AtCapacity == "server_at_capacity"
QueuedTooLong == "queued_too_long"
ServiceCapped == "service_cap_exceeded"
HandoffFailed == "handoff_failed"
LanguageNotServed == "language_not_served"
Reasons == {AtCapacity, QueuedTooLong, ServiceCapped, HandoffFailed, LanguageNotServed}

Unnamed == "unnamed"       \* PF_CLASS_DEFAULT
Unknown == "unknown"       \* PF_CLASS_UNKNOWN
Undecided == "undecided"   \* PF_CLASS_WAIT

ASSUME ConnsAssumption == IsFiniteSet(Conns)
ASSUME WorkersAssumption == IsFiniteSet(Workers) /\ Workers # {}
ASSUME LangsAssumption ==
  /\ DefaultLang \in Langs
  /\ LangOf \in [Workers -> Langs]
  /\ Wants \subseteq Langs \cup {Unnamed, Unknown}
  /\ Langs \cap {Unnamed, Unknown, Undecided, "none", "partial"} = {}
ASSUME BoundsAssumption ==
  /\ ForkMayFail \in BOOLEAN
  /\ Slots \in Nat \ {0}
  /\ QPer \in Int /\ QPer >= -1
  /\ {QDeadline, ServiceCap, LingerTicks, LingerMax, ClassifyTicks, PendingMax,
      QPollMax, FdLimit, MaxDeaths, MaxOverCap} \subseteq Nat

VARIABLES
  \* the clients
  bytes,      \* what the client has sent: nothing, a prefix, or a request
              \* complete enough to show what it names
  gone,       \* the client's socket has hung up
  \* the workers
  alive,      \* processes that run
  held,       \* connections handed to a worker and not finished by it
  done,       \* finished ones whose completion byte the router has not read
  \* the router
  pc,         \* phase of the tick
  stop,       \* the signal handler's flag
  fired,      \* what the last poll() reported
  pending,    \* pf_pending[]: accepted, language not known yet
  q,          \* pf_queued[]: waiting for a slot
  linger,     \* pf_linger[]: refused, response not delivered yet
  known,      \* workers whose pid is > 0
  active,     \* dispatched minus finished
  assigned, completed,
  disp,       \* ages of the dispatch stamps, oldest first
  overCap,
  refused,    \* refusals counted by the parent
  shared,     \* the same counters on the page the workers read
  forced,     \* refusals closed because the lingering set was full
  clientGone, \* entries dropped because the client hung up
  \* history
  fate,       \* what has become of each connection
  service     \* ticks since the connection was handed to a worker

clientVars == <<bytes, gone>>
workerVars == <<alive, held, done>>
ledger == <<known, active, assigned, completed, disp, overCap>>
counts == <<refused, shared, forced, clientGone>>
vars == <<clientVars, workerVars, pc, stop, fired, pending, q, linger, ledger,
          counts, fate, service>>

Amounts == {"none", "partial"} \cup Wants
Fates == {"idle", "backlog", "waiting", "handed", "refused", "gone"}
Entry == [conn : Conns, lang : Langs, age : 0..QDeadline]
NoneFired == [chan |-> {}, hup |-> {}, pend |-> {}, listen |-> FALSE]

ClientType == /\ bytes \in [Conns -> Amounts]
              /\ gone \in [Conns -> BOOLEAN]
WorkerType == /\ alive \subseteq Workers
              /\ held \in [Workers -> SUBSET Conns]
              /\ done \in [Workers -> SUBSET Conns]
LoopType == /\ pc \in {"fork", "poll", "linger", "chan", "cap", "hup", "classify",
                       "drain", "accept", "shutdown", "reap", "done"}
            /\ stop \in BOOLEAN
            /\ fired \in [chan : SUBSET Workers, hup : SUBSET Nat,
                          pend : SUBSET Conns, listen : BOOLEAN]
WaitingType == /\ pending \subseteq [conn : Conns, age : 0..ClassifyTicks]
               /\ q \in Seq(Entry)
LedgerType == /\ known \subseteq Workers
              /\ active \in [Workers -> Nat]
              /\ assigned \in [Workers -> Nat]
              /\ completed \in [Workers -> Nat]
              /\ disp \in [Workers -> Seq(0..ServiceCap)]
              /\ overCap \in [Workers -> Nat]
CountType == /\ linger \subseteq [conn : Conns, age : 0..LingerTicks]
             /\ refused \in [Reasons -> Nat]
             /\ shared \in [Reasons -> Nat]
             /\ forced \in Nat
             /\ clientGone \in Nat
HistoryType == /\ fate \in [Conns -> Fates]
               /\ service \in [Conns -> 0..ServiceCap]

TypeOK == /\ ClientType /\ WorkerType /\ LoopType /\ WaitingType
          /\ LedgerType /\ CountType /\ HistoryType

Init ==
  /\ bytes = [c \in Conns |-> "none"]
  /\ gone = [c \in Conns |-> FALSE]
  /\ alive = {}
  /\ held = [w \in Workers |-> {}]
  /\ done = [w \in Workers |-> {}]
  /\ pc = "fork"
  /\ stop = FALSE
  /\ fired = NoneFired
  /\ pending = {} /\ q = <<>> /\ linger = {}
  /\ known = alive
  /\ active = [w \in Workers |-> 0]
  /\ assigned = [w \in Workers |-> 0]
  /\ completed = [w \in Workers |-> 0]
  /\ disp = [w \in Workers |-> <<>>]
  /\ overCap = [w \in Workers |-> 0]
  /\ refused = [r \in Reasons |-> 0]
  /\ shared = [r \in Reasons |-> 0]
  /\ forced = 0 /\ clientGone = 0
  /\ fate = [c \in Conns |-> "idle"]
  /\ service = [c \in Conns |-> 0]

-----------------------------------------------------------------------------
(* Time, and the queue as the C array it is.                               *)

Older(age, cap) == IF age < cap THEN age + 1 ELSE age

ConnsIn(s) == {e.conn : e \in s}

\* queue_erase(): the entries after `at` move down by one
QueueErase(s, at) ==
  [i \in 1..(Len(s) - 1) |-> IF i < at THEN s[i] ELSE s[i + 1]]

GroupQueued(lang) == {i \in DOMAIN q : q[i].lang = lang}

IsHead(i) == /\ i \in DOMAIN q
             /\ \A j \in 1..(i - 1) : q[j].lang # q[i].lang

\* bug: a free slot of any worker is taken for capacity
AnyGroupLive(lang) == known

GroupLive(lang) == {w \in known : LangOf[w] = lang}

\* bug: the free-slot test is forgotten
FreeOrFull(lang) == GroupLive(lang)

\* group_pick(): the least loaded workers of the group with a free slot
Free(lang) == {w \in GroupLive(lang) : active[w] < Slots}
GroupPick(lang) == {w \in Free(lang) : \A v \in Free(lang) : active[w] <= active[v]}

QueueHasRoom(lang) ==
  \/ QPer < 0
  \/ Cardinality(GroupQueued(lang)) < QPer * Cardinality(GroupLive(lang))

OpenFds == Len(q) + Cardinality(pending) + Cardinality(linger)
-----------------------------------------------------------------------------
(* What the handlers share.  Each operator below constrains the variables  *)
(* it names; the action that uses it frames the others.                    *)

\* router_refuse(): count on both sides, then deliver as much of the answer
\* as the socket takes now; park the rest, or close when the set is full
Refuse(c, reason) ==
  /\ refused' = [refused EXCEPT ![reason] = @ + 1]
  /\ shared' = [shared EXCEPT ![reason] = @ + 1]
  /\ fate' = [fate EXCEPT ![c] = "refused"]
  /\ \/ linger' = linger /\ forced' = forced
     \/ /\ Cardinality(linger) < LingerMax
        /\ linger' = linger \cup {[conn |-> c, age |-> 0]}
        /\ forced' = forced
     \/ /\ Cardinality(linger) >= LingerMax
        /\ linger' = linger
        /\ forced' = forced + 1
  /\ UNCHANGED clientGone

\* router_dispatch(): send_fd fails when the worker is dead (or the kernel
\* says no); only a descriptor that went through is charged to the worker
HandOver(w, c) ==
  /\ w \in alive
  /\ held' = [held EXCEPT ![w] = @ \cup {c}]
  /\ active' = [active EXCEPT ![w] = @ + 1]
  /\ assigned' = [assigned EXCEPT ![w] = @ + 1]
  /\ disp' = [disp EXCEPT ![w] = IF Len(@) < Slots + 1 THEN Append(@, 0) ELSE @]
  /\ service' = [service EXCEPT ![c] = 0]
  /\ fate' = [fate EXCEPT ![c] = "handed"]
  /\ UNCHANGED <<linger, counts>>

RefuseOnly(c, reason) ==
  /\ Refuse(c, reason)
  /\ UNCHANGED <<held, active, assigned, disp, service>>

\* bug: a handoff that failed is charged to the worker all the same
DispatchCharged(w, c) ==
  \/ HandOver(w, c)
  \/ /\ Refuse(c, HandoffFailed)
     /\ active' = [active EXCEPT ![w] = @ + 1]
     /\ UNCHANGED <<held, assigned, disp, service>>

Dispatch(w, c) == HandOver(w, c) \/ RefuseOnly(c, HandoffFailed)

Enqueue(c, lang) ==
  /\ q' = Append(q, [conn |-> c, lang |-> lang, age |-> 0])
  /\ fate' = [fate EXCEPT ![c] = "waiting"]
  /\ UNCHANGED <<held, active, assigned, disp, service, linger, counts>>

\* bug: an arrival takes a free slot whoever is queued for it
AdmitAhead(c, lang) ==
  \/ /\ \E w \in GroupPick(lang) : Dispatch(w, c)
     /\ q' = q
  \/ GroupPick(lang) = {} /\ QueueHasRoom(lang) /\ Enqueue(c, lang)
  \/ /\ GroupPick(lang) = {} /\ ~QueueHasRoom(lang)
     /\ RefuseOnly(c, AtCapacity)
     /\ q' = q

\* router_admit(): straight through only past an empty queue of its own group
Admit(c, lang) ==
  LET direct == GroupQueued(lang) = {} /\ GroupPick(lang) # {}
  IN  \/ /\ direct
         /\ \E w \in GroupPick(lang) : Dispatch(w, c)
         /\ q' = q
      \/ ~direct /\ QueueHasRoom(lang) /\ Enqueue(c, lang)
      \/ /\ ~direct
         /\ ~QueueHasRoom(lang) \/ QPer < 0     \* an unbounded queue may fail to grow
         /\ RefuseOnly(c, AtCapacity)
         /\ q' = q

\* classify_language(): a peek at the prefix; it consumes nothing
Class(c) == IF bytes[c] \in Wants THEN bytes[c]
            ELSE IF bytes[c] = "none" /\ gone[c] THEN Unnamed
            ELSE Undecided

\* what the loop does with a connection whose class is known
Route(c, class) ==
  \/ /\ class = Unknown
     /\ RefuseOnly(c, LanguageNotServed)
     /\ q' = q
  \/ /\ class # Unknown
     /\ Admit(c, IF class \in Langs THEN class ELSE DefaultLang)
-----------------------------------------------------------------------------
(* The workers are forked one by one; the first fork() that fails ends the *)
(* loop, and the fleet starts with those it has, if it has any.            *)

Fork(w) ==
  /\ pc = "fork" /\ w \notin known
  /\ alive' = alive \cup {w} /\ known' = known \cup {w}
  /\ pc' = IF known' = Workers THEN "poll" ELSE "fork"
  /\ UNCHANGED <<clientVars, held, done, stop, fired, pending, q, linger, active,
                 assigned, completed, disp, overCap, counts, fate, service>>

ForkFails ==
  /\ pc = "fork" /\ ForkMayFail
  /\ pc' = IF known = {} THEN "done" ELSE "poll"
  /\ UNCHANGED <<clientVars, workerVars, stop, fired, pending, q, linger, ledger,
                 counts, fate, service>>
-----------------------------------------------------------------------------
(* The main loop, phase by phase.                                          *)

\* what poll() reports; of the queue, the positions it watched
Readiness ==
  [chan |-> {w \in known : done[w] # {} \/ w \notin alive},
   hup |-> {i \in DOMAIN q : i <= QPollMax /\ gone[q[i].conn]},
   pend |-> {c \in ConnsIn(pending) : bytes[c] # "none" \/ gone[c]},
   listen |-> \E c \in Conns : fate[c] = "backlog"]

TimePasses ==
  /\ pending' = {[conn |-> p.conn, age |-> Older(p.age, ClassifyTicks)] : p \in pending}
  /\ q' = [i \in 1..Len(q) |-> [conn |-> q[i].conn, lang |-> q[i].lang,
                             age |-> Older(q[i].age, QDeadline)]]
  /\ linger' = {[conn |-> l.conn, age |-> Older(l.age, LingerTicks)] : l \in linger}
  /\ disp' = [w \in Workers |->
                [i \in DOMAIN disp[w] |-> Older(disp[w][i], ServiceCap)]]
  /\ service' = [c \in Conns |-> IF fate[c] = "handed"
                                 THEN Older(service[c], ServiceCap)
                                 ELSE service[c]]

\* bug: the loop condition forgets the signal
LoopWhileLive == known # {}

LoopCondition == ~stop /\ known # {}

\* poll() returns: something is readable, or time has passed
Poll(elapsed) ==
  /\ pc = "poll" /\ LoopCondition
  /\ pc' = "linger"
  /\ fired' = Readiness
  /\ IF elapsed
     THEN /\ ServiceCap > 0 => \A w \in Workers : overCap[w] < MaxOverCap
          /\ TimePasses
     ELSE /\ Readiness # NoneFired \/ linger # {}
          /\ UNCHANGED <<pending, q, linger, disp, service>>
  /\ UNCHANGED <<clientVars, workerVars, stop, known, active, assigned,
                 completed, overCap, counts, fate>>

\* lingering closes: a few finish, those past their deadline must
Lingers ==
  /\ pc = "linger" /\ pc' = "chan"
  /\ \E left \in SUBSET {l \in linger : l.age < LingerTicks} : linger' = left
  /\ UNCHANGED <<clientVars, workerVars, stop, fired, pending, q, ledger, counts,
                 fate, service>>

\* disp_pop(), and a bug: it drops the newest stamps, not the oldest
PopNewest(s, n) == IF Len(s) <= n THEN <<>> ELSE SubSeq(s, 1, Len(s) - n)

DispPop(s, n) == IF Len(s) <= n THEN <<>> ELSE SubSeq(s, n + 1, Len(s))

\* bug: one completion too many is read out of the buffer
ReadCompletionsAndOne(w) ==
  LET n == Cardinality(done[w]) IN
  /\ pc = "chan" /\ w \in fired.chan /\ n > 0
  /\ fired' = [fired EXCEPT !.chan = @ \ {w}]
  /\ completed' = [completed EXCEPT ![w] = @ + n]
  /\ active' = [active EXCEPT ![w] = @ - (n + 1)]
  /\ disp' = [disp EXCEPT ![w] = DispPop(@, n)]
  /\ done' = [done EXCEPT ![w] = {}]
  /\ UNCHANGED <<clientVars, alive, held, pc, stop, pending, q, linger, known,
                 assigned, overCap, counts, fate, service>>

\* one worker's channel is readable: n completion bytes
ReadCompletions(w) ==
  LET n == Cardinality(done[w]) IN
  /\ pc = "chan" /\ w \in fired.chan /\ n > 0
  /\ fired' = [fired EXCEPT !.chan = @ \ {w}]
  /\ completed' = [completed EXCEPT ![w] = @ + n]
  /\ active' = [active EXCEPT ![w] = IF @ < n THEN 0 ELSE @ - n]
  /\ disp' = [disp EXCEPT ![w] = IF active[w] < n THEN <<>> ELSE DispPop(@, n)]
  /\ done' = [done EXCEPT ![w] = {}]
  /\ UNCHANGED <<clientVars, alive, held, pc, stop, pending, q, linger, known,
                 assigned, overCap, counts, fate, service>>

\* ... or at end of file: the worker is gone, with what it held
WorkerLost(w) ==
  /\ pc = "chan" /\ w \in fired.chan /\ done[w] = {}
  /\ fired' = [fired EXCEPT !.chan = @ \ {w}]
  /\ known' = known \ {w}
  /\ active' = [active EXCEPT ![w] = 0]
  /\ disp' = [disp EXCEPT ![w] = <<>>]
  /\ held' = [held EXCEPT ![w] = {}]
  /\ UNCHANGED <<clientVars, alive, done, pc, stop, pending, q, linger, assigned,
                 completed, overCap, counts, fate, service>>

CompletionsRead ==
  /\ pc = "chan" /\ fired.chan = {} /\ pc' = "cap"
  /\ UNCHANGED <<clientVars, workerVars, stop, fired, pending, q, linger, ledger,
                 counts, fate, service>>

\* rung 4: a head stamp past the cap is counted and stamped again
PastCap == IF ServiceCap = 0 THEN {}
           ELSE {w \in known : disp[w] # <<>> /\ disp[w][1] >= ServiceCap}

Watchdog ==
  /\ pc = "cap" /\ pc' = "hup"
  /\ overCap' = [w \in Workers |-> overCap[w] + (IF w \in PastCap THEN 1 ELSE 0)]
  /\ disp' = [w \in Workers |-> IF w \in PastCap THEN [disp[w] EXCEPT ![1] = 0]
                                ELSE disp[w]]
  /\ refused' = [refused EXCEPT ![ServiceCapped] = @ + Cardinality(PastCap)]
  /\ UNCHANGED <<clientVars, workerVars, stop, fired, pending, q, linger, known,
                 active, assigned, completed, shared, forced, clientGone, fate,
                 service>>

DropAt(i) ==
  /\ fired' = [fired EXCEPT !.hup = @ \ {i}]
  /\ q' = QueueErase(q, i)
  /\ fate' = [fate EXCEPT ![q[i].conn] = "gone"]
  /\ clientGone' = clientGone + 1
  /\ UNCHANGED <<clientVars, workerVars, pc, stop, pending, linger, ledger,
                 refused, shared, forced, service>>

\* bug: the walk goes forwards, over entries that have moved down
DropForwards(i) ==
  /\ pc = "hup" /\ i \in DOMAIN q /\ i \in fired.hup
  /\ \A j \in fired.hup : i <= j
  /\ DropAt(i)

\* queued clients that hung up: nobody is owed a status.  The positions are
\* those of poll(); walked backwards, an entry that moves has been passed.
DropQueued(i) ==
  /\ pc = "hup" /\ i \in DOMAIN q /\ i \in fired.hup
  /\ \A j \in fired.hup : j <= i
  /\ DropAt(i)

HangupsDone ==
  /\ pc = "hup" /\ fired.hup = {} /\ pc' = "classify"
  /\ UNCHANGED <<clientVars, workerVars, stop, fired, pending, q, linger, ledger,
                 counts, fate, service>>

\* a pending connection that is still undecidable waits for more bytes
KeepPending(p) ==
  /\ pc = "classify" /\ p.conn \in fired.pend /\ p.age < ClassifyTicks
  /\ Class(p.conn) = Undecided
  /\ fired' = [fired EXCEPT !.pend = @ \ {p.conn}]
  /\ UNCHANGED <<clientVars, workerVars, pc, stop, pending, q, linger, ledger,
                 counts, fate, service>>

\* ... one that is decidable, or out of time, leaves the set and is routed
DecidePending(p) ==
  /\ pc = "classify"
  /\ \/ p.conn \in fired.pend /\ Class(p.conn) # Undecided
     \/ p.age >= ClassifyTicks
  /\ fired' = [fired EXCEPT !.pend = @ \ {p.conn}]
  /\ pending' = pending \ {p}
  /\ Route(p.conn, IF Class(p.conn) = Undecided THEN Unnamed ELSE Class(p.conn))
  /\ UNCHANGED <<clientVars, alive, done, pc, stop, known, completed, overCap>>

ClassifyDone ==
  /\ pc = "classify" /\ fired.pend = {}
  /\ \A p \in pending : p.age < ClassifyTicks
  /\ pc' = "drain"
  /\ UNCHANGED <<clientVars, workerVars, stop, fired, pending, q, linger, ledger,
                 counts, fate, service>>

\* bug: the deadline is missed by the entry that reaches it
LongExpired(i) == QDeadline > 0 /\ q[i].age > QDeadline

\* router_drain(): the deadline is checked at the head of each group's queue
Expired(i) == QDeadline > 0 /\ q[i].age >= QDeadline

DrainRefuse(i) ==
  /\ pc = "drain" /\ IsHead(i) /\ Expired(i)
  /\ q' = QueueErase(q, i)
  /\ Refuse(q[i].conn, QueuedTooLong)
  /\ UNCHANGED <<clientVars, workerVars, pc, stop, fired, pending, ledger,
                 service>>

\* bug: an entry whose handoff failed stays queued
DrainRetry(i) ==
  /\ pc = "drain" /\ IsHead(i) /\ ~Expired(i)
  /\ \E w \in GroupPick(q[i].lang) : Dispatch(w, q[i].conn)
  /\ q' = IF fate'[q[i].conn] = "handed" THEN QueueErase(q, i) ELSE q
  /\ UNCHANGED <<clientVars, alive, done, pc, stop, fired, pending, known,
                 completed, overCap>>

DrainDispatch(i) ==
  /\ pc = "drain" /\ IsHead(i) /\ ~Expired(i)
  /\ q' = QueueErase(q, i)
  /\ \E w \in GroupPick(q[i].lang) : Dispatch(w, q[i].conn)
  /\ UNCHANGED <<clientVars, alive, done, pc, stop, fired, pending, known,
                 completed, overCap>>

\* bug: one entry per tick
DrainSome ==
  /\ pc = "drain"
  /\ \A i \in DOMAIN q : IsHead(i) => ~Expired(i)
  /\ pc' = IF fired.listen THEN "accept" ELSE "poll"
  /\ fired' = NoneFired
  /\ UNCHANGED <<clientVars, workerVars, stop, pending, q, linger, ledger, counts,
                 fate, service>>

DrainDone ==
  /\ pc = "drain"
  /\ \A i \in DOMAIN q : IsHead(i) => ~Expired(i) /\ GroupPick(q[i].lang) = {}
  /\ pc' = IF fired.listen THEN "accept" ELSE "poll"
  /\ fired' = NoneFired
  /\ UNCHANGED <<clientVars, workerVars, stop, pending, q, linger, ledger, counts,
                 fate, service>>

\* accept(): one connection per tick; nothing is peeked at in a fleet of one
Accept(c) ==
  /\ pc = "accept" /\ fate[c] = "backlog" /\ OpenFds < FdLimit
  /\ pc' = "poll"
  /\ LET class == IF Langs = {DefaultLang} THEN Unnamed ELSE Class(c) IN
     \/ /\ class # Undecided
        /\ Route(c, class)
        /\ UNCHANGED pending
     \/ /\ class = Undecided /\ Cardinality(pending) >= PendingMax
        /\ Admit(c, DefaultLang)
        /\ UNCHANGED pending
     \/ /\ class = Undecided /\ Cardinality(pending) < PendingMax
        /\ pending' = pending \cup {[conn |-> c, age |-> 0]}
        /\ fate' = [fate EXCEPT ![c] = "waiting"]
        /\ UNCHANGED <<q, held, active, assigned, disp, service, linger, counts>>
  /\ UNCHANGED <<clientVars, alive, done, stop, fired, known, completed, overCap>>

\* EINTR or ECONNABORTED: the loop goes on
AcceptRetry ==
  /\ pc = "accept" /\ pc' = "poll"
  /\ UNCHANGED <<clientVars, workerVars, stop, fired, pending, q, linger, ledger,
                 counts, fate, service>>

\* any other error, EMFILE among them: the loop ends
AcceptFails ==
  /\ pc = "accept" /\ OpenFds >= FdLimit /\ pc' = "shutdown"
  /\ UNCHANGED <<clientVars, workerVars, stop, fired, pending, q, linger, ledger,
                 counts, fate, service>>
-----------------------------------------------------------------------------
(* Leaving the loop.                                                       *)

\* poll() fails with anything but EINTR
PollFails ==
  /\ pc = "poll" /\ LoopCondition /\ pc' = "shutdown"
  /\ UNCHANGED <<clientVars, workerVars, stop, fired, pending, q, linger, ledger,
                 counts, fate, service>>

LeaveLoop ==
  /\ pc = "poll" /\ pc' = "shutdown"
  /\ stop \/ known = {}
  /\ UNCHANGED <<clientVars, workerVars, stop, fired, pending, q, linger, ledger,
                 counts, fate, service>>

\* mynah_prefork_refuse_and_close(): blocks until the answer is out
RefuseAtShutdown(c) ==
  /\ refused' = [refused EXCEPT ![AtCapacity] = @ + 1]
  /\ shared' = [shared EXCEPT ![AtCapacity] = @ + 1]
  /\ fate' = [fate EXCEPT ![c] = "refused"]
  /\ UNCHANGED <<clientVars, workerVars, pc, stop, fired, linger, ledger, forced,
                 clientGone, service>>

ShutdownQueued ==
  /\ pc = "shutdown" /\ q # <<>>
  /\ q' = Tail(q)
  /\ RefuseAtShutdown(q[1].conn)
  /\ UNCHANGED pending

ShutdownPending(p) ==
  /\ pc = "shutdown" /\ q = <<>>
  /\ pending' = pending \ {p}
  /\ RefuseAtShutdown(p.conn)
  /\ UNCHANGED q

\* the lingering closes are finished, then every worker is told to terminate
Terminate ==
  /\ pc = "shutdown" /\ q = <<>> /\ pending = {}
  /\ pc' = "reap" /\ linger' = {}
  /\ UNCHANGED <<clientVars, workerVars, stop, fired, pending, q, ledger, counts,
                 fate, service>>

Reaped ==
  /\ pc = "reap" /\ known \cap alive = {} /\ pc' = "done"
  /\ UNCHANGED <<clientVars, workerVars, stop, fired, pending, q, linger, ledger,
                 counts, fate, service>>

RouterStep ==
  \/ ForkFails \/ \E w \in Workers : Fork(w)
  \/ Lingers \/ CompletionsRead \/ Watchdog \/ HangupsDone
  \/ ClassifyDone \/ DrainDone \/ AcceptRetry \/ AcceptFails
  \/ \E w \in fired.chan : ReadCompletions(w) \/ WorkerLost(w)
  \/ \E i \in DOMAIN q : DropQueued(i) \/ DrainRefuse(i) \/ DrainDispatch(i)
  \/ \E p \in pending : KeepPending(p) \/ DecidePending(p)
  \/ \E c \in Conns : Accept(c)
  \/ LeaveLoop \/ ShutdownQueued \/ Terminate \/ Reaped
  \/ \E p \in pending : ShutdownPending(p)
-----------------------------------------------------------------------------
(* Clients, workers and the operator.                                      *)

Connect(c) ==
  /\ fate[c] = "idle" /\ pc \notin {"fork", "done"}
  /\ fate' = [fate EXCEPT ![c] = "backlog"]
  /\ UNCHANGED <<clientVars, workerVars, pc, stop, fired, pending, q, linger,
                 ledger, counts, service>>

\* bytes matter until the connection is classified, and only where it is
Send(c) ==
  /\ Langs # {DefaultLang}
  /\ fate[c] = "backlog" \/ c \in ConnsIn(pending)
  /\ ~gone[c] /\ bytes[c] \notin Wants
  /\ \E more \in Amounts \ {"none", bytes[c]} : bytes' = [bytes EXCEPT ![c] = more]
  /\ UNCHANGED <<gone, workerVars, pc, stop, fired, pending, q, linger,
                 ledger, counts, fate, service>>

HangUp(c) ==
  /\ fate[c] \in {"backlog", "waiting"} /\ ~gone[c]
  /\ gone' = [gone EXCEPT ![c] = TRUE]
  /\ UNCHANGED <<bytes, workerVars, pc, stop, fired, pending, q, linger,
                 ledger, counts, fate, service>>

\* conn_done(): the worker closes the connection and writes one byte
Finish(w, c) ==
  /\ w \in alive /\ c \in held[w]
  /\ held' = [held EXCEPT ![w] = @ \ {c}]
  /\ done' = [done EXCEPT ![w] = @ \cup {c}]
  /\ UNCHANGED <<clientVars, alive, pc, stop, fired, pending, q, linger, ledger,
                 counts, fate, service>>

\* a worker dies while the fleet runs, or exits when it was told to
Die(w) ==
  /\ w \in alive
  /\ \/ pc # "fork" /\ Cardinality(Workers \ alive) < MaxDeaths
     \/ pc = "reap" /\ held[w] = {}
  /\ alive' = alive \ {w}
  /\ UNCHANGED <<clientVars, held, done, pc, stop, fired, pending, q, linger,
                 ledger, counts, fate, service>>

Signal ==
  /\ ~stop /\ pc # "fork" /\ stop' = TRUE
  /\ UNCHANGED <<clientVars, workerVars, pc, fired, pending, q, linger, ledger,
                 counts, fate, service>>

Environment ==
  \/ \E c \in Conns : Connect(c) \/ Send(c) \/ HangUp(c)
  \/ \E w \in Workers : Die(w) \/ \E c \in Conns : Finish(w, c)
  \/ Signal

Terminated == pc = "done" /\ UNCHANGED vars

Next ==
  \/ \E elapsed \in BOOLEAN : Poll(elapsed)
  \/ PollFails \/ RouterStep \/ Environment \/ Terminated

Spec == Init /\ [][Next]_vars
-----------------------------------------------------------------------------
(* Safety.                                                                 *)

InQueue(c) == {i \in DOMAIN q : q[i].conn = c}

\* A descriptor the router accepted has one owner until its fate is decided:
\* one entry of pending[] or of the queue, whatever was erased, swapped or
\* requeued; and the worker that was handed it is the only one that was.
OneOwner ==
  /\ \A c \in Conns :
       Cardinality(InQueue(c)) + Cardinality({p \in pending : p.conn = c})
         = IF fate[c] = "waiting" THEN 1 ELSE 0
  /\ \A c \in ConnsIn(linger) : fate[c] = "refused"
  /\ \A w \in Workers : /\ held[w] \cap done[w] = {}
                        /\ \A c \in held[w] \cup done[w] :
                             /\ fate[c] = "handed"
                             /\ \A v \in Workers \ {w} : c \notin held[v] \cup done[v]

\* `active`, the number every routing decision reads, is what the worker really
\* owes: handed over and not read back as completed, and never above its slots.
ActiveIsInFlight ==
  \A w \in known : /\ active[w] = Cardinality(held[w]) + Cardinality(done[w])
                   /\ active[w] = assigned[w] - completed[w]
                   /\ active[w] <= Slots
                   /\ Len(disp[w]) = active[w]

\* When the router goes to sleep, nobody waits for a slot that is free, and
\* nobody is still queued past the deadline: the head's check covers the
\* entries behind it, because a group's queue is in order of age.
NoNeedlessWait ==
  pc = "poll" =>
    \A i \in DOMAIN q :
      /\ GroupPick(q[i].lang) = {}
      /\ QDeadline > 0 => q[i].age < QDeadline

\* A connection handed to a worker had nobody of its group queued ahead of it,
\* not even when it was accepted at a moment a slot was free.
NoOvertaking ==
  [][\A c \in Conns, w \in Workers, i \in DOMAIN q :
       c \in held'[w] /\ fate[c] # "handed" /\ q[i].lang = LangOf[w]
         => \E j \in 1..i : q[j].conn = c]_vars

\* A connection is with a worker of the language its request had named by the
\* time it was routed or, if it had named none, of the default group: it said
\* nothing of a language, had not come to it before the time was up, or found the
\* set of unread connections full.  A request for a language nobody holds is with
\* no worker.
RightLanguage ==
  \A w \in Workers : \A c \in held[w] \cup done[w] :
    /\ bytes[c] # Unknown
    /\ LangOf[w] = IF bytes[c] \in Langs THEN bytes[c] ELSE DefaultLang

\* The watchdog's head stamp is never older than the oldest connection still
\* in service, though completions pop it out of order and an alarm stamps it
\* again: an alarm means that some connection really is past the cap.
NoFalseAlarm ==
  [][\A w \in Workers : overCap'[w] > overCap[w] =>
       \E c \in held[w] \cup done[w] : service[c] >= ServiceCap]_vars

\* The router implements the promise of ConnectionFate: each connection is
\* handed over, refused or dropped once, within the capacity of its group.
InService == [w \in Workers |-> IF w \in known THEN held[w] \cup done[w] ELSE {}]
Promise == INSTANCE ConnectionFate WITH load <- InService
ImplementsPromise == Promise!Spec
-----------------------------------------------------------------------------
(* Fairness and liveness.                                                  *)

\* The parent keeps running, and time passes between its polls.
RouterFairness ==
  /\ WF_vars(RouterStep)
  /\ WF_vars(\E elapsed \in BOOLEAN : Poll(elapsed))
  /\ SF_vars(Poll(TRUE))

\* A worker serves what it was given, and exits once told to.
WorkerFairness ==
  /\ \A w \in Workers : WF_vars(\E c \in Conns : Finish(w, c))
  /\ \A w \in Workers : WF_vars(pc = "reap" /\ Die(w))

FairSpec == Spec /\ RouterFairness

\* With rung 3 on, no accepted connection waits for ever, even if no worker
\* ever finishes anything and clients never send another byte; and a refusal
\* parked in the lingering set leaves it, so a client that never reads or never
\* closes cannot hold a descriptor of the router for ever.
EveryoneIsSettled ==
  \A c \in Conns :
    /\ fate[c] = "waiting" ~> fate[c] \in {"handed", "refused", "gone"}
    /\ c \in ConnsIn(linger) ~> c \notin ConnsIn(linger)

\* After the signal the parent answers what it holds, reaps its workers and
\* returns, if the workers finish their connections.
ShutdownCompletes == WorkerFairness => (stop ~> pc = "done")
-----------------------------------------------------------------------------
(* What comments and docs say that the code does not do; see the README.   *)

\* docs/server.md: when accept() runs out of descriptors the server does not stop.
LoopEndsOnlyWhenTold == [][pc = "accept" => pc' # "shutdown"]_vars
=============================================================================
