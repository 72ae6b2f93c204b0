# A TLA+ development of the mynah-tts server

mynah-tts is a text-to-speech engine in C11. Its numeric half (models, kernels, codecs) is tested by
parity against references; its concurrent half, the server and the serving runtime under it, is
where an order of events that nobody wrote a test for can lose a connection, cut a response or hang
a process. This directory models that half: the process that routes connections, the threads of one
serving process, the driver that steps the batch, the two thread pools and the pool of device memory
it uses, and the life of one streaming response. Text segmentation and the SentencePiece encoder,
pure algorithms with boundaries of their own, are modelled as functions.

Paths are relative to the repository root. Line numbers in `PROJECT.json` ("map") tie every
definition that models code to the lines it stands for.

## 1. The system

A deployment is one *router* process (`server/prefork.c`) and N *worker* processes, each of
which runs the server of `server/main.c` on top of the library in `src/`.

    client --TCP--> prefork router --SCM_RIGHTS fd--> worker process
                       ^                                 | connection queue
                       +----- one byte per conn ---------+ HTTP workers
                                                         | synthesis queue (g_batch)
                                                         v
                                                    scheduler thread
                                                         | four callbacks (graph.h)
                                                    serving loop (src/inference.c)
                                                         | chunks
                                              [delivery lane] -> stream_out ring
                                                                  | writer thread
                                                                  v
                                                                client

| component | state it keeps | operations | interacts by | what makes it right |
|---|---|---|---|---|
| prefork router, `server/prefork.c` | worker table (`active`, dispatch stamps), queue `q`, `pending`, `linger`, refusal counters | one `poll()` loop: lingers, completions, watchdog, hangups, classification, drain, accept; then shutdown | passes descriptors, reads one byte per finished connection, a shared page of counters | one owner per descriptor; slot ledger exact; groups served first in, first out within bound and deadline; nobody waits for a free slot; everyone settled |
| stream writer, `server/stream_out.c` | byte ring, `producer_done`, `failed`, `refs`, the descriptor | enqueue, finish, peer_gone, release; writer thread | mutex, condition variable, a span of the ring sent without the mutex | bytes in order, none overwritten while sent; terminator only after all of them; freed exactly once; writer always ends |
| delivery helpers, same file | per lane: queue, spare items, `idle` | deliver, deliver_close; helper thread | lane mutex and condition variable | order kept, close last, no work left asleep, items not reused early |
| serving process, `server/main.c` | `g_queue`, `g_batch`, jobs with reference counts and a claimable descriptor | accept/receive, parse, submit, wait with deadline, four sink callbacks, shutdown | two queues, job mutex/condition, atomic claim, driver callbacks | count exact, answered once, reported to the router once, slot given back, shutdown ends |
| serving loop, `src/inference.c` (`serve`) | slots, lanes, admission and decode pipelines | admit, prefill slice, step, gang decode, deliver, retire, refuse_all | the sink contract of `src/graph.h`; gang threads | every admitted request reported once; no slot reused under a running decode; no starvation of admission |
| host-loop team, `src/hostpool.c` | one packed word: generation, next row, rows, chunk; parked workers | run a region, claim a chunk, park | compare-and-swap, mutex and condition variable | each row run once; the region ends |
| thread pool and decoder lane, `src/threads.c` | job table, region counters, lane mailbox | submit, pick, exit, consume | mutex plus unlocked fast paths with fences | no lost wakeup, priorities, no row twice |
| text segmentation, `src/text_segment.c` | none | split a text under a token budget | pure | pieces cover the text and obey the budget |
| tokenizer, `src/tokenizer_sentencepiece.c` | dictionary | normalise, encode | pure | a best path, within its buffer |
| Pocket engine, `src/engine_pocket.c` | parked resource sets, spare caches, counts, fixed size | take, seat, grow, step, retire, re-plan, drain | called by the driver's thread; device work behind fences | caches counted exactly; nothing reused while the device uses it |
| causal window cache, `src/transformer_ar.c` | ring of keys and values | append, window read | pure index arithmetic | a position reads exactly its window |
| other engines, kernels, backends, loaders, parsers, tools | numeric or sequential | | | numeric parity, tested by the repository |

The hard behaviours: in the router, several events move capacity in the same tick while
indices taken before `poll()` are used after it; in the stream, the writer reads the ring
without the lock and the reference count is dropped by two or three threads; in the serving
process, the worker's deadline, the scheduler's completion, the client's hangup and the
shutdown race for one job; in the driver, a decode is in flight while its rows step, end, fail
and move; in the pools, threads look for work, claim it and leave without the mutex; in the
engine, memory goes from one request to the next with work still queued on it; and everywhere a
bounded queue, table or list, at its limit, has to refuse somebody and account for it.
`PROJECT.json` lists them ("hazards") with the line where each bites and the property that
watches it, or the reason none does.

## 2. Modules

| module | models | lines of code it reads |
|---|---|---|
| `ConnectionFate` | the router's promise, abstract | - |
| `PreforkRouter` | the parent's loop, its clients and workers | `server/prefork.c` 1080-1670, 1800-2402 |
| `PreforkRouterProofs` | theorems about it: invariants, then what is promised to clients | - |
| `ByteStream` | a stream's promise, abstract | - |
| `StreamOut` | one response: ring, writer, producer | `server/stream_out.c`, the callbacks in `server/main.c` |
| `StreamDeliver` | EXTENDS `StreamOut` with the delivery lanes | `server/stream_out.c` 130-230, 560-730 |
| `StreamDeliverProofs` | theorems about `StreamOut`, then about the lanes on top of them | - |
| `SynthJobs` | one serving process around the driver's callbacks | `server/main.c` |
| `SynthJobsProofs` | theorems about it | - |
| `ServePromise` | the driver's promise to its sink, abstract | `src/graph.h` states it |
| `ServeLoop` | the driver: admission, prefill, steps, decodes, retirement | `src/inference.c` 750-2970 |
| `ServeLoopProofs` | theorems about it | - |
| `ParallelRegion` | what a parallel loop promises, abstract | - |
| `HostPool` | the host-loop team | `src/hostpool.c` 40-225 |
| `HostPoolProofs` | theorems about it | - |
| `ThreadPool` | the pool behind `mynah_parallel_for` | `src/threads.c` 390-430, 780-960, 1200-1381 |
| `ThreadPoolProofs` | theorems about it | - |
| `SlotPool` | parked device sets and fixed caches | `src/engine_pocket.c` 5260-6503, 7977-8703 and their callers |
| `SlotPoolProofs` | theorems about it | - |
| `SentencePiece`, `TextSegment` | the encoder, and the segmenter on top of it | `src/tokenizer_sentencepiece.c`, `src/text_segment.c` |
| `TextSegmentProofs` | theorems about both | - |
| `MC...` | instances for TLC: model values, settings, symmetry, a view | - |

`StreamDeliver` composes with `StreamOut`: it reuses `Take`, `RefuseChunk`, `FinishStream` and
`Unreference` as the things a helper does, and replaces only the producer's side.
`SynthJobs` sees a stream from outside (it may fail, its writer closes the socket), and
`PreforkRouter` sees a serving process from outside (it holds connections and writes one byte
for each). The interfaces are small on purpose: the byte of `mynah_prefork_conn_done` is
`Finish` in one module and `Report` in the other; `AnsweredOnce` and `NothingLeftBehind` of
`SynthJobs`, once per connection and none missing, are what `ActiveIsInFlight` of `PreforkRouter`
relies on. `SynthJobs` keeps the driver external, and `ServeLoop` shows that the driver keeps
`ServePromise`, which is what `SynthJobs` takes for granted. `HostPool` and `ThreadPool` implement
the same `ParallelRegion`, so for whoever calls them they are a loop.

### PreforkRouter

One variable `pc` is the phase of the tick. The parent is single-threaded, so an action is one
iteration of an inner loop (one worker's channel read, one queue entry, one pending connection,
one accept) and clients and workers step in between.

| code | model |
|---|---|
| `worker_state w[]` | `known`, `active`, `assigned`, `completed`, `disp`, `overCap` |
| `pf_queued q[]`, `q_n` | `q`, a sequence of entries with connection, language, age |
| `pf_pending pending[]` | `pending`, a set of entries (the code swaps the last one in, so order is lost) |
| `pf_linger linger[]` | `linger` |
| `refused[]`, the shared page | `refused`, `shared` |
| `poll()` and the clock read after it | `Poll(elapsed)` with what fired: channels, positions of `q`, pending connections; `PollFails` (an error other than EINTR ends the loop) |
| the walk over queued hangups | `DropQueued` of a position, from the last one down, because an erased entry moves those behind it |
| `router_dispatch`, `send_fd` | `Dispatch`, `HandOver`; fails exactly when the worker is dead |
| completions, hangup of a channel | `ReadCompletions`, `WorkerLost` |
| rung 4 | `Watchdog`, `PastCap` |
| `classify_language` | `Class` of what has arrived, `KeepPending`, `DecidePending` |
| `router_drain` | `DrainRefuse`, `DrainDispatch`, `DrainDone` |
| `accept()` | `Accept`, `AcceptRetry` (aborted in the backlog), `AcceptFails` (no descriptor left) |
| shutdown | `LeaveLoop`, `ShutdownQueued`, `ShutdownPending`, `Terminate`, `Reaped` |

Time is discrete and only `Poll` advances it, because the code samples the clock once per tick,
right after `poll()`. A stamp is kept as an age that stops growing at the deadline it is
compared with, which is all the code ever asks of it. What a request contains is reduced to what
the classifier can tell: nothing, a prefix that does not decide, or what it names. Positions of the
queue that fired stay the numbers `poll()` gave, as in the code, so an order of the walk that is
wrong drops a client that never hung up; `ConnectionFate` allows that only of those that did.

### StreamOut and StreamDeliver

A critical section is an action and so is one `send()`; a sample is its position in the stream,
so a sample lost, repeated or overwritten shows. `writer` is the writer thread's program
counter, `phase` that of the request in the scheduler's callbacks, `refs` the reference count.
`err` keeps the *first* recorded cause, as `failure_errno` does. A chunk that does not fit fails
the stream (`RefuseChunk`), a `send()` to a stalled client ends by `SO_SNDTIMEO` (`SendFails`),
and memory may run out where the code allocates. `SpuriousWakeup` and `HelperWakes` let a wait on
a condition variable return for no reason, as POSIX says.

In `StreamDeliver`, `sched` is what the scheduler thread is in the middle of (an item taken, then
filled without the lock, then pushed); `queue`, `batch`, `spare`, `spent` and `idle` are the
lane's; the close of a stream is a work item like a chunk, and carries the last reference.

### SynthJobs

`conn` is the client's side (descriptor, answer, reports), `job` the shared job, `parked` and
`pending` the two queues, `slot` the driver's view of a request, `main` the main thread. A second
answer or a second close is recorded (`"garbled"`, `"twice"`) rather than excluded, so the
properties can see it. The driver is external: a request in a slot ends or fails, at any time;
between steps the driver calls `sink_cancelled`; `refuse_all` is the mode in which every queued
request is handed back as failed.

What the scheduler leaves in a job is two fields, as in the code: `sound`, whether it has samples
(a request that failed or was cancelled gets none), and `error`, whether `result` is not 0.
`job_finish` stores `result` only together with a text for it, and `sink_on_done` gives it none, so
only the drain at shutdown sets `error`. The worker's answer (`Verdicts`) follows main.c:1739 on: 500
for an `error`; otherwise 200 with whatever samples there are, or 500 if there is no memory for the
response. A batch request that fails in the engine is therefore answered 200 with no sound, which is
among the differences below. `StreamCallback` is the only place where the deadline of a stream is
looked at, and the engine has to produce sound to get there.

### ServeLoop

One thread runs an iteration in a fixed order, so `at` is the place in it; an action is a pass or a
turn of one. `mode` holds the settings the code reads from the environment (overlap of steps,
overlap of decodes, gang prefill, late admission, cap on admissions, first-frames-first) and is
chosen in `Init`, so one run asks the same questions of all of them.

| code | model |
|---|---|
| `slots[]`, dense, with swap-removal | `rows`, a sequence of tags and states |
| `prep_seq`, `step_rr` | `prepq`, `rr` |
| `ahead_pos` of the queued step | `ahead` |
| `decode_ahead`, `dec_pos`, `dec_submit`, `dec_collect`, `dec_poll` | `gang`; `Charge`, `Collect`, `PolledInto` |
| asynchronous admission threads | `building`, `built`, `HelperBuilds`, `Attach` |
| `streamed_frames` and the chunks handed to the sink | `audio`: made, charged, sent, and whether text is left |
| `on_done` | `outcome`; a second report is recorded as "twice" |

The engine answers every call in any way it may: a row's step goes on, ends its segment, ends or
fails; a gang fails whole or member by member; a prefill slice finishes or not.

### HostPool and ThreadPool

An action is one atomic access or one critical section, so every interleaving of the code's unlocked
paths is a behaviour. In `HostPool` the fields of the word wrap at `Limit` and `Gens`; `held` is the
word a thread has read and not tried to claim from, which may be any number of regions old. In
`ThreadPool` a thread is a stack of frames, because an item may submit a region of its own;
publication of a region is several actions, because workers can see its stores before the
generation; `scan` reads the slots without the mutex and `pick` looks again with it. `mode` holds the
switches (pre-check, narrowing, fast exit), the team that could be created, and who submits. `Fork`
leaves a child with the memory and the calling thread only.

Both assume sequentially consistent atomics. The code's fences are there to make its relaxed
accesses behave so in the few places that need it; whether they suffice is not asked here.

### SlotPool

A cache is its size in stored positions and whether it is counted as fixed; a parked set is a cache
and what is still queued on its staging (`busy`, `fence`). `live` is the count the cap is compared
with, as the code keeps it; `made` is one per allocation less one per free. An action is one call of
the engine by the scheduler thread: `Take` (pinned part, with the re-plan and the move of the fixed
size when they are due), `Seat` (device part), `ReserveText` (a longer text before the first step; a
row left on the CPU stays there), `Reserves` (growth, by swapping caches or in place), `Step`,
`Retire`, `PoolDrain`. A row that found a cache and then no room for its other buffers gives the
cache back and goes on on the CPU (`Unseated`). The device finishes queued work at any time.

### SentencePiece and TextSegment

Characters are values and scores are integers. The lattice is read from the end of each edge, which
makes the rule for ties (first origin wins, replaced only by a strictly better one) explicit. Loops
are recursive functions over positions; the pieces are a set, because their order is that of their
positions. The state machine only writes texts. The properties compare the algorithm with a
definition that does not scan: `Ways`, every way to spell the text with its score, for the encoder;
`Allowed` cuts, the `Promised` pieces and the greedy rule for the segmenter.

## 3. What is checked

| run | what it asks | bounds | states |
|---|---|---|---|
| `router_fleet` | types, ownership, ledger, nobody waits needlessly, watchdog, refinement | 3 connections, 2 workers x 2 slots, queue of one per worker, one death or failed fork, one alarm | 1.45 M |
| `router_languages` | routing by language, order within a group | 3 connections, 2 groups of one slot, requests that name a language, an unknown one, or arrive in pieces; a queue of two per worker, both polled | 0.96 M |
| `router_live` | everyone settled, lingers end, shutdown completes | 2 connections, 2 groups, room for one client descriptor | 91 k |
| `stream_out` | ring, count, disconnect verdict, refinement, every stream ends | 1 stream, ring of 3, chunks of 1 or 2, 6 samples, client stalls or leaves, memory runs out | 28 k |
| `stream_deliver` | order, no sleep on work, lifetime | 2 streams, 1 lane, 2 items, ring of 1, 2 samples each | 0.66 M |
| `synth_jobs` | counts, one answer, nothing left, verdicts, everyone leaves, shutdown ends | 2 connections and a warm-up, 2 workers, queues of 1, 1 slot | 210 k |
| `serve_loop` | residence, sound, refinement, every slot comes back | 7 settings, 2 or 3 requests, 2 rows, batch of 1 or 2, up to 3 frames, one more text segment | 471 k |
| `host_pool` | rows run once, no lost wakeup, refinement, regions return | 2 workers, 2 submitters, 2 regions of 2 or 3 rows, chunks of 2, one generation | 51 k |
| `thread_pool` | helpers leave first, no sleep on work, refinement, regions return | 6 settings, 1 or 2 workers, 1 or 2 submitters, 2 slots, 2 regions of 2 items, nested once, one fork | 222 k |
| `slot_pool` | exact counts, no reuse under the device | 2 rows, 3 shapes of text, pool of 2, 1 spare, cap of 1 or as re-planned, one move of the size | 447 k |
| `text_segments` | best encoding, greedy division | texts of at most 5 of 7 characters, 11 pieces, 3 pairs of budgets | 59 k |

Why these bounds are enough for the interesting cases:

* *Router.* Three connections against two slots fill one worker, both workers and the queue in
  some order; one queue entry per live worker makes the bound shrink when a worker dies while it
  is full. Ages saturate at one tick, so "just in time" and "too late" both occur. `FdLimit = 1`
  in `router_live` makes a descriptor the parent holds (queued, pending or lingering) exhaust the
  table. A single linger place makes the second refusal take the path that closes at once.
  `QPer = 2` and `QPollMax = 2` in `router_languages` let two queued clients hang up in one tick, in
  adjacent places with or without one behind them that did not.
* *Stream.* A ring of three with chunks of one and two wraps with a chunk across the end, is
  exactly full, and overflows by one; six samples go around it twice.
* *Delivery.* A helper takes a whole batch, so two items let one be in the batch while the other
  is queued or spare; two streams on one lane interleave. `PeerMay = {}` there: what a client does
  to a stream is `stream_out`'s question. `View` forgets values no action reads again.
* *Jobs.* With queues of one place and one slot, two connections and the warm-up make each of park,
  submit and admit find its limit reached, while two workers race with the shutdown.
* *Driver.* Two rows are enough for a swap-removal to move one under a gang or a queued step, for a
  batch narrower than the rows to rotate, and for a gang to have a leader and a follower; three
  frames with two emitted at once leave a remainder; the third request takes a row somebody left.
* *Host loops.* Two workers and a second submitter let one be a region late while another claims; with
  `Gens = 1` every region has the same generation, the worst a wrapped counter can do, so what the run
  shows does not rest on it. `Limit = 7` is just above what a claim that overshoots can reach.
* *Thread pool.* Two slots let a region be nested in another or two submitters be active at once, and
  a scan pass one slot while the other is filled; with two workers one leaves a region while the
  other joins. Two regions never find both slots taken: a caller that runs inline is then one whose
  workers could not be created. `ThreadPoolFull.cfg` asks the same of one slot (90 k states), where
  the second region finds the table full; it is kept beside the routine runs, and the theorems cover
  any number of slots.
* *Device sets.* Sizes are in growth chunks; a text's ceiling is below the fixed size, past twice
  it, or leaves nothing to grow. A pool of two and a spare list of one are both found full and both
  empty.
* *Text.* Five characters hold two sentences with a closer, or a sentence of two clauses, and a budget
  of two to four tokens is met, missed by one, and larger for the first chunk than for the rest.

Symmetry is used only in runs without liveness properties. Deadlock checking is off where the system
really stops: a driver that has returned, a pool whose regions are used up, a drained model, a
text at its length.

### Fairness

* *Router.* `RouterStep` and `Poll` are weakly fair: one thread that never blocks outside
  `poll()`, whose timeout is bounded whenever something waits. `Poll(TRUE)` is strongly fair: the
  clock advances. Nothing is assumed of clients and, but for `ShutdownCompletes`, nothing of
  workers; that one assumes a worker finishes what it holds and exits when told to.
* *Stream.* The writer thread runs, the driver ends each request, and its sink is called.
* *Jobs.* One weak-fairness condition on the disjunction of all thread steps and the clock, of which
  `StreamCallback` is one: a stream has sound again and again while it lasts. No step undoes another
  (every request moves through its stages once), so a system in which some enabled step is always
  taken takes every step that stays enabled. The end of an utterance is deliberately not in it:
  `EveryoneLeaves` must hold with an engine that never finishes.
* *Driver.* Its thread and the helper threads run, and a row at the head of the prefill queue that is
  given slices again and again finishes its prefill in the end. Nobody has to offer work or stop.
* *Host loops.* Threads run. A compare-and-swap that is retried for ever succeeds once, and the
  submitter gets a mutex that is free again and again: strong fairness for `Claim` and `Wake` only,
  without which a lock-free loop promises nothing to a single thread.
* *Thread pool.* Submitters run; a worker need not, until it has joined a region. Regions must
  return even with helpers that never come.

### What the runs show

All the safety and liveness properties of the eleven passing runs hold. Points that were worth
settling because they are not evident from the code:

* The drain between classification and accept is what makes `NoNeedlessWait` and `NoOvertaking` hold:
  an arrival in the same tick as a completion cannot take the slot of somebody queued.
* Checking only the head of each group against the deadline is enough (`NoNeedlessWait`), because a
  group's queue is in order of age, also after a swap or an erase in the middle.
* Popping the *oldest* dispatch stamp for each completion, whichever connection completed, is
  conservative: the head stamp is never older than the oldest connection really in service
  (`NoFalseAlarm`). It can be younger, so an alarm may be late.
* The decision to terminate a response is made under the mutex and acted on after it. That is safe
  (`ImplementsByteStream`): once the writer has left its loop with an empty ring and `producer_done`,
  nothing that fails the stream afterwards can have dropped audio.
* The idle flag of a delivery lane is exact whenever somebody pushes, so signalling only a parked
  helper loses no wakeup (`NoWorkAsleep`).
* Worker, queue, scheduler, slot and warm-up thread hold a job by exactly its count
  (`CountIsExact`), including where the queue refuses, drops or drains it.

* The generation in the claim word of the host loops is not needed for safety: the whole word is
  compared, and the function is read only after a claim, so a stale word either fails or claims rows
  of the region that is open (`RowsRunOnce` with one generation, and for every number by proof).
* A helper found by the unlocked scan may have seen a slot that is gone by the time it holds the
  mutex; since it picks again under it, the scan can only miss or mislead, never let it sleep on work
  (`NoWorkSleptOn`) or into a region that is over (`ContextOutlivesHelpers`).
* Swap-removal moves rows while a gang and a queued step refer to them; both refer by the position
  stored in the row, and a held row is not removed (`InFlightIsResident`).
* The live count of fixed caches stays exact through every swap, failed growth and re-plan
  (`CountIsExact`), though it is changed on a dozen paths.

### A defect

`serve_failed_row` is expected to find a violation. src/inference.c:1768 says "Retire, per slot, as
soon as it stops." With decode overlap, a row that ends a text segment goes to `preparing` while the
decode of its last frames is in flight. If that decode, or the delivery of its sound, then fails,
`slot_fail` (line 231) sets `failed` and clears `active`, but not `preparing`: the prefill goes on and
makes the row active again, and the step results skip it because it has failed. It keeps its slot for
sound nobody will get. It still retires when its engine refuses a step or the request is cancelled,
so `ServiceDrains` and `ImplementsPromise` hold; what is lost is capacity.

### Where code and words differ

The following were found with the models and can be reproduced with the configuration named, each
of which asks for one property and finds it violated. They are not routine runs.

| configuration, module, property | the words | the code |
|---|---|---|
| `RouterAcceptError.cfg`, `MCPreforkRouter`, `LoopEndsOnlyWhenTold` | docs/server.md:315: when `accept()` runs out of descriptors the server does not stop | the prefork parent breaks out of its loop on EMFILE and shuts the fleet down (prefork.c:2303) |
| `StreamDeadline.cfg`, `MCStreamOut`, `OnlyWholeResponsesEnd` | main.c:775: after a mid-stream failure the writer truncates the body | a stream that expires or fails in the engine is finished like a whole one, terminator included (main.c:768) |
| `SynthFailed.cfg`, `MCSynthJobs`, `FailureIsAnError` | docs/server.md:347: 500, synthesis failure | a batch request that fails in the engine is answered 200 with no sound: `sink_on_done` passes `job_finish` no text (main.c:838), so `result` stays 0 (main.c:567) and the worker's test (main.c:1739) does not see the failure |
| `SynthLate.cfg`, `MCSynthJobs`, `LateIsNeverSynthesized` | main.c:60: a queued job past its deadline is never synthesized at all | a streaming job has no waiter to give it up; it is admitted and expires at its first chunk (main.c:686) |
| `SynthExit.cfg`, `MCSynthJobs`, `NothingDangles` | main.c:3801: the one order that leaves nothing dangling | detached writers may still be sending when `main` returns |
| `SynthStranded.cfg`, `MCSynthJobs`, `QueuedAreRefused` | main.c:923: queued requests will be refused | a job accepted between `refuse_all` and `g_batch.stop` is neither served nor refused |
| `ServeAdmitCap.cfg`, `MCServeLoop`, `EndsOnlyWhenTold` | graph.h:64: a zero from `next_job` is what ends the service | with MYNAH_ADMIT_PER_ITER, an iteration whose admissions all fail while no slot is in use ends it (inference.c:2801) |

Others were met while reading and have no run of their own, because they are about a counter or
a comment and no state goes wrong:

* prefork.c:2100 says that polling a pending connection for POLLIN does not spin, but the bytes are
  only peeked at, so `poll()` returns at once until the request decides or PF_CLASSIFY_MS passes.
* prefork.c:117 says that every increment of a refusal count goes through `pf_shared_refused`; the
  watchdog increments `service_cap_exceeded` without it, so that reason is counted in the parent only.
* `over_cap` counts one slow connection again each time its restamped dispatch passes the cap
  (prefork.c:1470 and 2230).
* `pf_queued.enqueued` is "stamped at accept()" (prefork.c:1434) but stamped in `router_admit`, after
  classification has taken its time.
* A language whose worker comes after a failed `fork()` has none (prefork.c:1715 and 1824).
* stream_out.h says that starting the helpers "returns 0, or -1 having started none"; if the second
  helper cannot be created the first keeps running.
* main.c counts a batch request that timed out twice (main.c:1729 and the cancelled branch of
  `sink_on_done`), counts a send timeout or an overflow of the ring as a timeout, and counts a stream
  that failed in the engine nowhere.
* The comment at main.c:1656 says that `sink_cancelled` observes the service cap; only
  `stream_callback` does, so a batch job never obeys it.
* engine_pocket.c:1135 says that at most `cuda_slot_fixed_cap` fixed caches exist at once; adopting a
  plain cache counts it "whatever the cap" (line 5663), so more can. `CountIsExact` says what is kept.
* engine_pocket.c:6287 says that after the fence the set is quiet; a cache stashed later into a set
  that is parked already is not covered by that set's fence. Rows wait on the stream, so no state
  goes wrong.
* text_segment.h:18 says that `first_max_tokens` bounds the first chunk; a first piece between it
  and `max_tokens` is not divided. A chunk of several pieces can also encode to more tokens than its
  cap, because the whitespace between pieces is not in the count. `ChunksAreGreedy` states the rule
  by the count of pieces, which is what the code keeps; so "a text that fits in one chunk"
  (text_segment.h:25) is read as: its pieces do. Read as "the whole text encodes to no more than the
  budget", it would be a fact about dictionaries.
* tokenizer_sentencepiece.c:1014 reports a position of the lattice that no edge reaches. For no
  dictionary and no text is there one (`RowsExist` in `TextSegmentProofs`): a character that no piece
  matches is an edge of its own, to `<unk>`.

## 4. What is proved

TLAPS proves the theorems below for every value of the constants that satisfies the named
assumptions of the module: any fleet, queue bounds and request mix; any ring and chunk sizes,
streams, lanes and items; any connections, workers, queue places and slots; any requests, rows and
batches under any settings; any threads, regions and nesting; any contexts, texts and cache limits;
any dictionary, any text and any budgets. Each theorem that names a property is about the very
formula that a run checks, so TLC looks at a small instance of it and the proof covers the rest.

| module | theorem | says |
|---|---|---|
| `PreforkRouterProofs` | `TypeCorrect` | `[]TypeOK`. The type is not only shape: counters stay natural, ages stay within their deadlines, queue entries carry a language of the fleet |
| | `OwnershipInvariant` | `[]Ownership`, the inductive invariant below |
| | `OneOwnerAlways`, `ActiveIsInFlightAlways` | `[]OneOwner`, `[]ActiveIsInFlight` |
| | `RouterImplementsPromise` | `ImplementsPromise`: the router refines `ConnectionFate` |
| | `NobodyOvertakes` | the action property `NoOvertaking` |
| | `LanguagesAreRight`, `NobodyWaitsNeedlessly` | `[]RightLanguage`, `[]NoNeedlessWait` |
| | `AlarmsAreReal` | the action property `NoFalseAlarm` |
| `StreamDeliverProofs` | `SpanIsUntouched`, `NothingUsedAfterFree` | `[]SpanUntouched`, `[]NoUseAfterFree` |
| | `EveryDisconnectIsReal` | `[]DisconnectIsReal` |
| | `ResponseIsAByteStream` | `ImplementsByteStream`: the ring and its writer refine `ByteStream` |
| | `StreamsStaySafeOnLanes` | the ring's invariant holds with helpers as its producer |
| | `NoHelperSleepsOnWork`, `WorkKeepsStreamsAlive`, `ChunksArriveInOrder` | `[]NoWorkAsleep`, `[]QueuedKeepsAlive`, `[]InOrder` |
| `SynthJobsProofs` | `ReferencesAreCounted`, `ClientsAreAnsweredOnce` | `[]CountIsExact`, `[]AnsweredOnce` |
| | `NothingIsLeftBehind`, `VerdictsArePublished` | `[]NothingLeftBehind`, `[]VerdictIsPublished` |
| `ServeLoopProofs` | `DriverInvariant` | `[]DriverInv`, the inductive invariant below |
| | `DeviceWorksOnResidents`, `SoundStaysWhole` | `[]InFlightIsResident`, `[]SoundIsWhole` |
| | `DriverKeepsPromise` | `ImplementsPromise`: the driver refines `ServePromise` |
| `HostPoolProofs` | `RowsAreRunOnce`, `NobodySleepsThrough` | `[]RowsRunOnce`, `[]NoneLeftAsleep` |
| | `TeamIsALoop` | `ImplementsRegion`: the team refines `ParallelRegion` |
| `ThreadPoolProofs` | `PoolInvariant` | `[]IInv`, the inductive invariant below |
| | `ContextsOutliveHelpers`, `NoWorkIsSleptOn` | `[]ContextOutlivesHelpers`, `[]NoWorkSleptOn` |
| | `PoolIsALoop` | `ImplementsRegion`: every region, nested or not, refines `ParallelRegion` |
| `SlotPoolProofs` | `PoolInvariant` | `[]IInv`, the inductive invariant below |
| | `AccountsAreExact`, `RowsAreAlwaysReady` | `[]CountIsExact`, `[]RowsAreReady` |
| `TextSegmentProofs` | `EncoderIsOptimal`, `ChunksKeepThePromise` | `[]EncodingIsBest`, `[]ChunksAreGreedy` |

Every invariant, every action property without fairness and every refinement that a passing run
checks is a theorem here.

### Assumptions

They are the `ASSUME`s of the modules, which TLC evaluates in every run, and are what the code has
by construction. *Router:* finite sets of connections and workers, at least one worker, each in a
group, at least one slot, bounds that are natural numbers. *Streams:* a ring of at least one cell
and chunks of at least one sample. *Lanes:* at least one; an item or a stream is not the value that
says there is none. *Jobs:* a connection is not a warm-up, there is at most one warm-up
(`warmup_run` is called once), at least one slot. *Host loops:* a finite team disjoint from the
submitters, a chunk of at least one row and at most `MaxRows`, and a row field that two loops of
`MaxRows` fit in (32767 and 2^16 in the code). *Thread pool:* finite threads, of which none is
"nobody", at least one slot, regions of at least one item. *Device sets:* finitely many contexts,
shapes of text and sizes; positive sizes and growth chunk; a text's estimate exceeds its floor and
is at most its ceiling, as `pocket_cuda_kv_initial_capacity` returns it (voice, text and at least
one step, or the whole context); limits that are natural numbers, zero included. *Driver:* settings
with at least one row, a batch of at least one and at most all rows, and decode overlap only
together with step overlap. *Text:* at least one ordinary piece (`sp_parse` refuses a dictionary
without), pieces that are spelled with at least one character, scores that are integers, and
characters of at least one byte; a space that is whitespace; whitespace that is neither a mark nor a
closer (they are disjoint literals in `text_segment.c`); a budget of at least one token, and a first
budget that may be 0.

### The router

`OneOwner` says where a connection is; alone it is not preserved, because a step that hands a
connection over must know that nobody else has it. The invariant that is inductive is the
conjunction of

* `TypeOK`: the sets and counters the other conjuncts talk about;
* `Unforked`: while the fleet is being forked no worker has anything, and every count is zero;
* `Waiting`: a connection is in exactly one entry of the queue or of `pending` if its fate is
  "waiting", and in none otherwise;
* `Handed`: what workers hold or have finished has the fate "handed", no two workers share it, and a
  worker the router does not know has nothing;
* `LingerRefused`: what lingers was refused;
* `ActiveIsInFlight`: `active` is the number of connections a worker holds or has finished unread,
  equals assigned minus completed, is the length of the stamp list, and never exceeds the slots.

The last needs the others: `GroupPick` reads `active`, so "never more than Slots" is a fact about
the ledger, and the ledger moves by one only if the connection handed over was not already in the
worker's set, which `Waiting` and `Handed` say. `PreforkRouterProofs` has lemmas about the helpers
(`QueueErase`, `DispPop`, `GroupPick`, `HandOver`, ...), one step per action for the types, and
again for the invariant. Cardinalities are handled through the library's facts about finite sets,
one lemma per way a set changes.

What the router promises is proved on top of `Ownership`. The refinement needs little more: a step
that changes a fate finds the connection waiting, and the load of a worker is `active`.
`NoOvertaking` is an action property: the entry that leaves the queue for a worker is the first of
its language (`QueueFirst`), and erasing keeps the order of the rest. `RightLanguage` is exact: a
worker of the language the request had named or, if it had named none, of the default group, and no
worker at all for a language nobody holds. It needs `Named`, the same of every entry of the queue,
and that what a request has named no longer changes once it is routed. In `RouterImplementsPromise`
the one step that needs more is the drop of a queued client: `HupFired` says that, while the walk
lasts, the positions still to come hold clients that hung up, which going backwards keeps and going
forwards does not. `NoFalseAlarm` needs `StampsAreServed`: at least i of a worker's connections have
been served for as long as its i-th stamp says. Popping the oldest stamp, whichever connection
completed, keeps that. `NoNeedlessWait` needs that a group's entries are in order of age
(`InOrderOfAge`), which is why looking at heads is enough, and that between the drain and the next
`poll()` every entry is one the drain could do nothing about (`Settled`).

### Streams and lanes

The ring's invariant, `StreamInv`, speaks of one stream at a time, so a step needs to be followed on
its own stream only (`Same` covers the others). `RingHolds` is its heart: cell `head + i` modulo
`Cap` holds the sample that was accepted `i` after the last one handed back. A chunk goes into cells
outside the queue (`TakeCells`, where the arithmetic of wrapping is done once), so neither the queue
nor the span being sent changes; `SpanFits` says that the span is the front of the queue and does
not wrap. `NothingUnsent` relates the place of the writer to what was accepted, and is why the
terminator, decided under the mutex and sent after it, comes after everything.

On lanes the reference count is shared by the writer, the sink until it lets go, and the close that
is then on the stream's lane (`RefsShared`, in place of `RefsExact`). `WorkInv` says of each work
item on a lane where its stream is and that the close is the last of its stream; `HelperInv` that a
parked helper says so and has no work. `InOrder` needs two things more: that no item is in two
places (`ItemsApart`), so filling one does not change a chunk on its way; and that the chunks on the
lane continue the ring without gap or overlap (`Ordered`).

### Jobs

`JobsInv` is one formula per request, and a lemma (`OneRequest`) says that a step which leaves the
others alone has only its own to keep. `JobOK` counts the holders of a job: its worker, the service,
the warm-up. The service is the queue, the scheduler or a slot, in one of which a job is; this is
the conjunct that makes the count a sum of at most three ones. `ConnOK` says in which hands a
descriptor is by whether the job is claimed; `VerdictOK` that an answer rests on what was
published, and that a job given up is answered 504 or not yet;
`WarmOK` that a warm-up has no client. `ShapeOK` has what joins requests: no two workers with one
connection, queues without repetition, and how far the shutdown is.

### The driver

`InFlightIsResident` and `SoundIsWhole` say what is true of the device's work and of the sound; they
are kept only because the lists of the loop agree, so `DriverInv` is mostly about that agreement:

* `LoopTyped`, `RowsTyped`, `DeviceTyped`, `AudioTyped`: what the variables range over, and that
  neither the queued step nor the gang is wider than the batch;
* `ListsOK`: no request is in two rows, twice in the prefill queue, or both being built and built;
  and whoever is in any of these, in the queued step or in the gang has a row;
* `RowsOK`, one formula per row: it is not yet reported and no longer queued; it is `preparing`
  exactly when it is in the prefill queue and `starting` exactly when a helper has it; with a decode
  in flight it is held; and while it is healthy what was sent and what is in flight make up what was
  charged, and all that was made once it has ended;
* `RequestsOK`, one formula per request: sent, charged and made are in order, and a request reported
  as served was sent everything it made;
* `PlaceOK`: where in the iteration a gang may be in flight, and where the rows may be empty. A gang
  outlives the step it was launched after only where a pass of the next iteration collects it
  first: without this conjunct `Retire` could meet a row that a decode still refers to.

A row moves when another one retires, so each change of `rows` is a lemma about sequences first: rows
edited in place (`RowsChangeInPlace`), one appended (`AppendEach`), and the swap-removal
(`SwapRemoveFacts`), which keeps exactly the other rows, each once. The rotation of the batch is a
recursive function that walks the rows; `WalkFacts` shows that it is defined and `TurnFacts` that it
takes active rows only and no more than a batch.

`DriverKeepsPromise` reads the state of a request off the rows, the queue and the reports
(`StateCases`). Most steps change no state that the sink sees (`QuietPromise`); the others settle some
requests (`SettlesPromise`), take one (`TakesPromise`) or are offered one (`OfferPromise`). What needs
the invariant is that sound moves only for rows that are held and whose client was not found gone
(`Heard`): the collect of a decode sends for a row that may meanwhile have ended, failed or moved.

### The host-loop team

`RowsRunOnce` is inductive as it stands, because its conjuncts were found by asking what a step
needs. That rows are run once (`Partition`) rests on the claim being of rows that exist: a word in
hand has `next < n` (`ClaimsAreOfRows`), and a claim succeeds only if the word is still the shared
one, so the rows below `next` are those claimed before and the new ones are not among them. The
addition does not carry into the row count because a claim adds at most `MaxRows` to less than
`MaxRows` (`AdvancedWord`). That the call returns with everything done needs the counting: `done` is
the cardinality of the rows reported (`DoneIsExact`), so when it equals `n`, rows within `n` that
are reported are all of them. That the function called is the right one (`BodyIsOpen`) rests on
`NothingBetween`: while no region is open nobody holds rows, so a function changes under nobody.
`OneSubmitter` is what `busy` is for.

`NoneLeftAsleep` is inductive together with it. The worker that has decided to sleep holds the mutex,
and the generation changes without it, so the submitter may already have published; but then it has
not yet read `parked`, which it does under the mutex and which by then counts the worker.

`TeamIsALoop` maps each claim to `Start` of its rows, each report to `Finish`, `Publish` to `Begin`,
`Close` to `Return`, and everything else to a stutter.

### The thread pool

A thread is a stack, so the invariant `IInv` begins with what stacks look like: `StacksFit` (only
the top frame is anywhere but in an item; the first frame of a worker is its loop) and
`WorkersAreBorn`. The protocol is in the rest:

* `OneHolder`: an open slot is held by one frame, the one that published it, and names that region;
* `HelpersAreInside`: `refs` is the number of workers whose first frame is in the slot, and they are
  in the region that is open there: this is `ContextOutlivesHelpers` but for the caller, which
  `OneHolder` supplies;
* `MutexIsPosting`: between critical sections the mutex is held only by a publisher between its two
  stores, and the slot it fills has no helper;
* `LeavesNothing`: a worker that leaves leaves no item behind, so a region whose helpers are gone is
  finished;
* `WaitersAreCounted`: with fast exit, `doneWaiters` is the number of submitters at the barrier;
* `NothingOverlooked`: a worker that has acted on the present generation has looked past no slot
  with work, but for the one being filled. It says so of the slots a scan has passed, one by one,
  which is what makes a scan without the mutex safe to sleep on.

Most steps set the top frame of one thread and perhaps wake others; `TopSet` and `Becomes` say that
once, and what such a step keeps is a lemma per conjunct.

`PoolIsALoop` asks more: what a region has begun. `ItemsBegun` ties the begun items to the place of
the region's frame (none before it is published, a prefix while it runs inline, those below the
slot's `next` while it is open, all once it has drained), and `HelpersElsewhere` says that a
helper's region is that of another thread, and open. The second is needed because a region is a
thread and a depth: the name is used again for the next region submitted there, and the proof must
know that nobody runs an item of the old one. Each action then is a stutter, or `Begin`, `Start`,
`Finish` or `Return` of one region and a stutter of all others. `fork()` counts as a stutter: items
of the parent's helpers are theirs in the parent, and no region that the child keeps has a helper
(`Elsewhere`).

### The device sets

`CountIsExact` compares two counters with four places: parked sets, spares, rows, and the fixed ones
of each. It is proved as a balance. `Held(p)` is what the books say beyond what the pool itself
holds, `Booked(p)` the same for the fixed count, and the invariant (`Exact`) is that these are the
caches, and the fixed caches, of the rows. Every helper of the module then has one lemma that says
what it moves between the pool and the rows (`Moves(p, q, caches, fixed)`): a stash moves one fixed
cache in, a donor or a spare one out, an allocation changes the books only, and a re-plan, which
counts some parked caches, frees others and makes new ones, moves nothing. Moves compose
(`MovesInTurn`), so an action is the sum of its calls, and `RowMoves` closes it: the row has gained
what the pool has moved. This is the argument that no order of swaps, early returns and failures was
forgotten, since a path through the code is a sum of the same few moves.

The rest of `IInv` is what this needs. A fixed cache exists (`fixed` implies a size), in sets and in
rows: that is why what is set aside may be counted as one cache. A parked set with queued work is
behind a fence (`Sets`), which gives `RowsAreReady` at the next take. The lists keep within their
limits (`Good`); a closed pool is empty, and a context that exists means an open pool (`Closed`). A
seated row has room for its prefill and its first step, and for all it wrote (`RowOK`); `WantsMore`
shows that a row which has used its cache up asks for more than it has, within its text, so a grown
row has room again whichever source the cache came from.

That the loop of makes is defined for every count of passes (`MakeLoop`), and what it moves
(`MakeSomeMoves`), are proved by the least counterexample.

### Text

Nothing changes a text but one more character, so these theorems are about functions of any text, and
the work is in what the recursive functions compute.

*The encoder.* The table that `sp_viterbi` fills is the only one there is and every position of it
is reached (`RowsExist`, `ReachedFacts`). Upwards, each row of it is a way to spell the characters
before it (`RowsAreWays`), and its ids are no longer than the bound of the buffer (`RowsFit`).
Downwards from the end, no way beats the last row by more than the way to its position is worse than
that position's row (`NoWayBeats`). The two meet in `LastRowIsBest`. The proof found one mistake of
the model: the ids of an edge were a CASE whose guards overlapped, for a piece of the dictionary
when bytes are the fallback for unknown ones, and TLA+ leaves open which branch such a CASE takes.
The code asks in order; so does `IdsOf` now.

*The segmenter.* Three steps.

1. The scan cuts where the rule allows it. `CutsAreEnds`: from every position on, what the scan finds
   is what `Allowed` says of the text, by induction from the end. The scan jumps over a run of marks
   and closers; `ScanStep` shows that it jumps over no allowed end, because whitespace is neither.
2. Pieces are tiles. `Tiles(span, P)`: the members of P lie one behind the other in the span, start
   and end in a word, and leave out no word. What is between cuts are tiles (`BetweenTiles`), tiles
   of tiles are tiles (`TilesOfTiles`), so dividing some sentences into clauses leaves tiles; and a
   sentence "in which nothing cuts" is the one tile of itself (`LoneTile`), so the code's count of
   clauses changes nothing (`PiecesArePromised`).
3. Packing keeps `PackInv`, position by position: the chunks cover the pieces packed so far and no
   others; each begins and ends with a piece; no piece lies across a seam; the running count of a
   chunk is the sum over its pieces; it is within its cap or a single piece; and each chunk was
   closed because the piece that opens the next did not fit. `Divided` follows at the end of the
   text; that pieces which all fit make one chunk (`OneChunkIfItFits`) follows because sums grow
   (`SumGrows`). Every chunk makes a segment because a piece encodes to at least one id
   (`PieceHasTokens`).

### How the proofs are done

Sums and counts are cardinalities, and each change of a set has its lemma. The library's induction
theorems take an operator, which the provers cannot instantiate, but induction over a *set* of numbers
they can use: `NatSetInduction` and `LeastNumber`, proved from the library's theorem that `<` on `Nat`
is well-founded. So no operator of the models is RECURSIVE; a loop is a recursive function, and
`RunExists` (a run of n steps exists) shows once and for all that such a function is defined for
every n. Without that fact nothing can be said of it, since a recursive function is a CHOOSE.

### What stays with TLC

Liveness, and with it fairness and `ENABLED`: `EveryoneIsSettled` and `ShutdownCompletes` of the
router, `EveryStreamEnds`, `EveryoneLeaves` and `ShutdownEnds` of the serving process, `ServiceDrains`
of the driver, and `EveryRegionReturns` of both pools. They are checked on the instances above. The
run that is expected to fail, and the configurations of "Where code and words differ", are
counterexamples and need no proof.

## 5. Not modelled

* *In the router:* topology and pinning of processors, options, SIGUSR1 statistics, the text of
  responses. A completion byte that is lost because the socket buffer is full is excluded: the
  buffer is far larger than a worker has slots.
* *In the serving process:* HTTP and JSON, validation (a request that answers itself is
  `AnswerDirectly`), metrics, the `stop_after` mode, pooled warm-ups beyond one.
* *In the driver:* the two ping-pong groups, the decoder lane with its sparse rows, round-robin
  prefill, profiling and metering. `refuse_all` is in `SynthJobs`.
* *In the thread pool:* the mailboxes of the decoder lane, the meter, affinity. *Weak memory:*
  `src/threads.c` and `src/hostpool.c` rely on fences; an interleaving model checks the protocol but
  not the fences.
* *In the device pool:* VMM-backed and multi-type caches, the paths with the pool's switches off,
  `kv_skip`, the buffers of a set other than cache and staging, the host context pool. They share the
  control that is modelled or have none that outlives a call.
* *The causal window cache:* its control is one index modulo the window, computed in place in numeric
  loops; a model would restate that line.
* *Numeric code* (engines, kernels, quantised matrices, convolutions, CUDA and Metal): two thirds of
  the lines of the repository. Its correctness is numeric parity with references, over
  floating-point arithmetic that TLC cannot evaluate, and the repository tests it so. This is why
  the modelled share of the source is small, and stays so.
* *Loaders, parsers, the command line, tools:* sequential, without state that lives on.

## 6. Plan

Done: `PreforkRouter` with its promise and proofs, `StreamOut`, `SynthJobs`, `StreamDeliver`; then
`ServeLoop`, `HostPool` with its proofs, `ThreadPool`, `SlotPool`, `TextSegment` and `SentencePiece`.

Proved: every invariant and every refinement of these, with the action properties of the router.

What would be worth modelling next: the mailboxes of the decoder lane, and the ping-pong groups of the
driver as a second way to run its passes.
