----------------------------- MODULE ServeLoop -----------------------------
(***************************************************************************)
(* The driver of a model, serve() in src/inference.c: one thread that      *)
(* admits requests into resident rows, prefills them a slice at a time,    *)
(* steps a rotating batch of them, hands their sound to the sink and       *)
(* retires them one by one.  With step overlap the next step is queued on  *)
(* the device before this one's rows are retired; with decode overlap the  *)
(* decode of a step is in flight under both; with asynchronous admission   *)
(* helper threads build contexts meanwhile.                                *)
(*                                                                         *)
(* The engine is external: it answers every call in any way it may.  Rows  *)
(* are dense (the layout without the decoder lane).                        *)
(***************************************************************************)
EXTENDS Naturals, Sequences, FiniteSets, Functions

CONSTANTS
  Requests,   \* bound: the requests that may be offered
  Offline,    \* those without a callback: decoded once, when they retire
  Modes       \* the configurations of the driver that are explored, each with
              \* the requests it is offered and their step budget (bounds)

VARIABLES
  mode,     \* the configuration this driver was started with
  running,  \* the sink's running()
  queue,    \* requests offered to the sink and not taken
  at,       \* where the driver is in its iteration
  early,    \* prefilled_ahead: this iteration's prefill pass has run
  admits,   \* iter_admits
  rows,     \* the resident slots, dense
  prepq,    \* the rows that prefill, by prep_seq
  rr,       \* step_rr, from zero
  ahead,    \* the rows of the step queued on the device
  gang,     \* the decode in flight: how many frames of each request
  building, \* contexts the helper threads are making
  built,    \* their results, oldest first
  audio,    \* frames each request has made, been charged for, and sent; bound:
            \* one more segment of text at most
  outcome   \* what on_done was told

vars == <<mode, running, queue, at, early, admits, rows, prepq, rr, ahead, gang,
          building, built, audio, outcome>>

Places == {"admit", "attach", "cancel", "reattach", "collect", "prefill", "late", "later", "again",
           "step", "launch", "retire", "returned"}
Row == [tag : Requests, st : {"starting", "preparing", "active", "ended"},
        failed : BOOLEAN, cancelled : BOOLEAN, held : BOOLEAN, spent : BOOLEAN]

ASSUME ServeAssumption ==
  /\ Offline \subseteq Requests
  /\ \A m \in Modes :
       /\ {m.overlap, m.decode, m.firstFirst, m.gangPrefill, m.late, m.segments} \subseteq BOOLEAN
       /\ m.decode => m.overlap
       /\ {m.capacity, m.batch, m.emit} \subseteq Nat \ {0} /\ m.batch <= m.capacity
       /\ {m.admitCap, m.inline, m.frames} \subseteq Nat /\ m.offers \subseteq Requests

\* Whose frames are being decoded.
Ganged == {r \in Requests : gang[r] > 0}
TypeOK ==
  /\ mode \in Modes /\ running \in BOOLEAN /\ queue \subseteq Requests
  /\ at \in Places /\ early \in BOOLEAN /\ admits \in Nat
  /\ rows \in Seq(Row) /\ Len(rows) <= mode.capacity
  /\ prepq \in Seq(Requests) /\ Len(prepq) <= Len(rows)
  /\ rr \in 0..mode.capacity
  /\ ahead \subseteq Requests /\ Cardinality(ahead) <= mode.batch
  /\ gang \in [Requests -> 0..mode.frames] /\ Cardinality(Ganged) <= mode.batch
  /\ building \subseteq Requests /\ built \in Seq([tag : Requests, ok : BOOLEAN])
  /\ audio \in [Requests -> [made : 0..mode.frames, charged : 0..mode.frames,
                          sent : 0..mode.frames, more : BOOLEAN]]
  /\ outcome \in [Requests -> {"none", "OK", "FAILED", "CANCELLED", "twice"}]

Init ==
  /\ mode \in Modes
  /\ running = TRUE /\ queue = {} /\ at = "admit" /\ early = FALSE /\ admits = 0
  /\ rows = <<>> /\ prepq = <<>> /\ rr = 0 /\ ahead = {} /\ gang = [r \in Requests |-> 0]
  /\ building = {} /\ built = <<>>
  /\ audio = [r \in Requests |-> [made |-> 0, charged |-> 0, sent |-> 0, more |-> mode.segments]]
  /\ outcome = [r \in Requests |-> "none"]

Async == mode.inline < mode.capacity
NewRow(r, st) ==
  [tag |-> r, st |-> st, failed |-> FALSE, cancelled |-> FALSE, held |-> FALSE, spent |-> FALSE]
Tags(s) == {s[i].tag : i \in DOMAIN s}
TagsOf(s) == [i \in DOMAIN s |-> s[i].tag]
\* The members of a list that are in a set, in their order.
Kept(s, S) ==
  LET kept[k \in 0..Len(s)] ==
        IF k = 0 THEN <<>>
        ELSE IF s[k] \in S THEN Append(kept[k - 1], s[k]) ELSE kept[k - 1]
  IN kept
Keep(s, S) == Kept(s, S)[Len(s)]
\* slot_fail(): the row no longer steps; a prefill it is in goes on
Fail(row) == [row EXCEPT !.failed = TRUE, !.st = IF @ = "active" THEN "ended" ELSE @]
FailNow(row) == [row EXCEPT !.failed = TRUE, !.st = "ended"]
FailAll(rs, who) == [i \in DOMAIN rs |-> IF rs[i].tag \in who THEN Fail(rs[i]) ELSE rs[i]]
\* on_done, of each request in a set
Reported(who, what) ==
  [r \in Requests |-> IF r \notin who THEN outcome[r]
                      ELSE IF outcome[r] = "none" THEN what[r] ELSE "twice"]
-----------------------------------------------------------------------------
(* The gang in flight is collected: sound that the sink takes is sent; a    *)
(* member that fails, in the decode or in the sink, fails its row; what    *)
(* belongs to a row that was cancelled or failed meanwhile is dropped.     *)

AliveUnlessFailed(rs, r) == \E i \in DOMAIN rs : rs[i].tag = r /\ ~rs[i].failed
Alive(rs, r) == \E i \in DOMAIN rs : rs[i].tag = r /\ ~rs[i].failed /\ ~rs[i].cancelled
SentBy(au, ranges, who) ==
  [r \in Requests |-> IF r \in who THEN [au[r] EXCEPT !.sent = @ + ranges[r]] ELSE au[r]]
Delivered(rs, au, bad) == SentBy(au, gang, {r \in Ganged \ bad : Alive(rs, r)})
Idle == [r \in Requests |-> 0]

\* dec_poll(): only if the device has finished, which it may or may not have
PolledInto(rs) ==
  \/ rows' = rs /\ UNCHANGED <<gang, audio>>
  \/ /\ Ganged # {}
     /\ \E bad \in SUBSET Ganged : rows' = FailAll(rs, bad) /\ audio' = Delivered(rs, audio, bad)
     /\ gang' = Idle
-----------------------------------------------------------------------------
(* Admission.                                                              *)

MayAdmit ==
  /\ running /\ Len(rows) < mode.capacity
  /\ mode.admitCap = 0 \/ admits < mode.admitCap

\* The late admission is followed by a prefill pass if it took anything.
Admitted == IF at = "late" THEN "later" ELSE at

\* One turn of admit_pass(): a request that cannot start is retired at once.
Admit(r) ==
  /\ at \in {"admit", "late", "later"} /\ MayAdmit /\ r \in queue
  /\ queue' = queue \ {r}
  /\ admits' = admits + 1
  /\ \/ /\ outcome' = Reported({r}, [q \in {r} |-> "FAILED"])
        /\ PolledInto(rows)
        /\ UNCHANGED <<at, prepq, building>>
     \/ /\ Async /\ admits >= mode.inline
        /\ PolledInto(Append(rows, NewRow(r, "starting")))
        /\ building' = building \cup {r}
        /\ at' = Admitted
        /\ UNCHANGED <<prepq, outcome>>
     \/ /\ ~(Async /\ admits >= mode.inline)
        /\ PolledInto(Append(rows, NewRow(r, "preparing")))
        /\ prepq' = Append(prepq, r)
        /\ at' = Admitted
        /\ UNCHANGED <<building, outcome>>
  /\ UNCHANGED <<mode, running, early, rr, ahead, built>>

\* A driver with no rows waits in next_job() for work or the end of service.
AdmitDone ==
  /\ at = "admit"
  /\ ~MayAdmit \/ (queue = {} /\ rows # <<>>)
  /\ at' = IF rows = <<>> THEN "returned" ELSE IF Async THEN "attach" ELSE "cancel"
  /\ UNCHANGED <<mode, running, queue, early, admits, rows, prepq, rr, ahead, gang,
                 building, built, audio, outcome>>

HelperBuilds(r, ok) ==
  /\ r \in building
  /\ building' = building \ {r}
  /\ built' = Append(built, [tag |-> r, ok |-> ok])
  /\ UNCHANGED <<mode, running, queue, at, early, admits, rows, prepq, rr, ahead, gang,
                 audio, outcome>>

AfterCancel == IF mode.decode THEN "collect" ELSE IF early THEN "step" ELSE "prefill"

\* A row whose context is there, and attached, prefills; one that is not, fails.
Attached(good) ==
  [i \in DOMAIN rows |-> CASE rows[i].tag \in good -> [rows[i] EXCEPT !.st = "preparing"]
                           [] rows[i].tag \in Tags(built) \ good -> FailNow(rows[i])
                           [] rows[i].tag \notin Tags(built) -> rows[i]]
\* async_collect(), which waits a bounded time at most
Attach ==
  /\ at \in {"attach", "reattach"}
  /\ \E bad \in SUBSET Tags(built) :
       LET good == {built[i].tag : i \in {k \in DOMAIN built : built[k].ok}} \ bad
       IN /\ rows' = Attached(good)
          /\ prepq' = prepq \o Keep(TagsOf(built), good)
  /\ built' = <<>>
  /\ at' = (IF at = "attach" THEN "cancel" ELSE AfterCancel)
  /\ early' = (early /\ (at = "attach" \/ mode.decode))
  /\ UNCHANGED <<mode, running, queue, admits, rr, ahead, gang, building, audio, outcome>>

\* The sink is asked about every row that prefills or steps.
Cancel ==
  /\ at = "cancel"
  /\ \E gone \in SUBSET {rows[i].tag : i \in {k \in DOMAIN rows : rows[k].st \in {"preparing", "active"}}} :
       /\ rows' = [i \in DOMAIN rows |->
                     IF rows[i].tag \in gone
                     THEN [rows[i] EXCEPT !.cancelled = TRUE, !.st = "ended"] ELSE rows[i]]
       /\ prepq' = Keep(prepq, Requests \ gone)
  /\ at' = (IF Async THEN "reattach" ELSE AfterCancel)
  /\ early' = (early /\ (Async \/ mode.decode))
  /\ UNCHANGED <<mode, running, queue, admits, rr, ahead, gang, building, built, audio, outcome>>
-----------------------------------------------------------------------------
(* Retirement: a pass over the dense rows that moves the last row into the *)
(* place of one that ended.                                                *)

\* The last row takes the place of the first that goes.
RemoveFirst(rs, gone) ==
  LET goes == {i \in DOMAIN rs : rs[i].tag \in gone}
      first == CHOOSE i \in goes : \A k \in goes : i <= k
  IN IF goes = {} THEN rs
     ELSE [i \in 1..(Len(rs) - 1) |-> IF i = first THEN rs[Len(rs)] ELSE rs[i]]
Removals(rs, gone) ==
  LET left[k \in 0..Len(rs)] == IF k = 0 THEN rs ELSE RemoveFirst(left[k - 1], gone) IN left
SwapRemove(rs, gone) == Removals(rs, gone)[Len(rs)]

OverThoughHeld(row) == row.st = "ended" /\ row.tag \notin ahead
Over(row) == row.st = "ended" /\ row.tag \notin ahead /\ ~row.held
Retirable(rs) == {rs[i].tag : i \in {k \in DOMAIN rs : Over(rs[k])}}

\* slot_retire() of each row that is over; an offline row is decoded now
Verdict(row, au, bad) ==
  CASE row.cancelled -> "CANCELLED"
    [] ~row.cancelled /\ (row.failed \/ au.made = 0 \/ row.tag \in bad) -> "FAILED"
    [] ~row.cancelled /\ ~row.failed /\ au.made > 0 /\ row.tag \notin bad ->
         IF row.tag \notin Offline /\ au.sent = 0 THEN "FAILED" ELSE "OK"
RetirePass(rs, au) ==
  LET gone == Retirable(rs) IN
  /\ \E bad \in SUBSET (gone \cap Offline) :
       outcome' = Reported(gone, [r \in gone |->
         LET i == CHOOSE k \in DOMAIN rs : rs[k].tag = r IN Verdict(rs[i], au[r], bad)])
  /\ rows' = SwapRemove(rs, gone)

Retire ==
  /\ at = "retire"
  /\ RetirePass(rows, audio)
  /\ IF mode.decode /\ early THEN at' = "prefill" /\ UNCHANGED admits
     ELSE at' = "admit" /\ admits' = 0
  /\ UNCHANGED <<mode, running, queue, early, prepq, rr, ahead, gang, building, built, audio>>

\* With decode overlap: the wait for the decode in flight, then the rows of
\* the last step are free to go; with no step queued they go now.
Collect ==
  /\ at = "collect"
  /\ \E bad \in SUBSET Ganged :
       LET rs == [i \in DOMAIN rows |-> [FailAll(rows, bad)[i] EXCEPT !.held = FALSE]]
           au == Delivered(rows, audio, bad)
       IN /\ audio' = au
          /\ IF ahead = {} THEN RetirePass(rs, au) ELSE rows' = rs /\ UNCHANGED outcome
  /\ gang' = Idle
  /\ IF rows' = <<>> THEN at' = "admit" /\ admits' = 0
     ELSE at' = (IF early THEN "step" ELSE "prefill") /\ UNCHANGED admits
  /\ early' = (early /\ rows' = <<>>)
  /\ UNCHANGED <<mode, running, queue, prepq, rr, ahead, building, built>>
-----------------------------------------------------------------------------
(* Prefill: one slice pass, oldest first, within a time budget; then the   *)
(* late admission and a second pass over what it brought.                  *)

\* Whose prefill ends in a pass, well or badly: the front of the queue row by
\* row, or some of a gang of its oldest, or the gang as a whole.
SlicePass(done, bad) ==
  LET n == Cardinality(done \cup bad)
      k == IF Len(prepq) < mode.batch THEN Len(prepq) ELSE mode.batch
      oldest == {prepq[i] : i \in 1..k}
  IN /\ done \cap bad = {}
     /\ \/ n <= Len(prepq) /\ done \cup bad = {prepq[i] : i \in 1..n}
        \/ mode.gangPrefill /\ k > 1 /\ (bad = {} /\ done \subseteq oldest)
        \/ mode.gangPrefill /\ k > 1 /\ (done = {} /\ bad = oldest)
Prefilled(done, bad) ==
  /\ rows' = [i \in DOMAIN rows |->
                CASE rows[i].tag \in done -> [rows[i] EXCEPT !.st = "active", !.spent = FALSE]
                  [] rows[i].tag \in bad -> FailNow(rows[i])
                  [] rows[i].tag \notin done \cup bad -> rows[i]]
  /\ prepq' = Keep(prepq, Requests \ (done \cup bad))
AfterPrefill == IF early THEN "launch" ELSE "step"

Prefill ==
  /\ at = "prefill"
  /\ \E done \in SUBSET Range(prepq) : \E bad \in SUBSET Range(prepq) : SlicePass(done, bad) /\ Prefilled(done, bad)
  /\ at' = IF mode.late /\ running /\ Len(rows) < mode.capacity /\ queue # {}
           THEN "late" ELSE AfterPrefill
  /\ UNCHANGED <<mode, running, queue, early, admits, rr, ahead, gang, building, built,
                 audio, outcome>>

LateDone ==
  /\ at \in {"late", "later"}
  /\ ~MayAdmit \/ queue = {}
  /\ at' = IF at = "later" THEN "again" ELSE AfterPrefill
  /\ UNCHANGED <<mode, running, queue, early, admits, rows, prepq, rr, ahead, gang,
                 building, built, audio, outcome>>

PrefillAgain ==
  /\ at = "again"
  /\ \E done \in SUBSET Range(prepq) : \E bad \in SUBSET Range(prepq) : SlicePass(done, bad) /\ Prefilled(done, bad)
  /\ at' = AfterPrefill
  /\ UNCHANGED <<mode, running, queue, early, admits, rr, ahead, gang, building, built,
                 audio, outcome>>
-----------------------------------------------------------------------------
(* The step.                                                               *)

\* The walk over the rows from a place on that takes the active ones, as many
\* as a batch holds, and where the next walk starts.
Walk(rs, from) ==
  LET n == Len(rs)
      walk[k \in 0..n] ==
        IF k = 0 THEN [who |-> {}, next |-> from]
        ELSE LET i == (from + k - 1) % n
                 w == walk[k - 1]
             IN IF Cardinality(w.who) < mode.batch /\ rs[i + 1].st = "active"
                THEN [who |-> w.who \cup {rs[i + 1].tag}, next |-> (i + 1) % n] ELSE w
  IN walk
Turn(rs, from) == Walk(rs, from)[Len(rs)]

\* slot_quantum(): the ramp of a stream, never above what the engine asks for
Least(a, b) == IF a < b THEN a ELSE b
Quantum(charged) ==
  Least(mode.emit, CASE charged = 0 -> 1
                     [] charged \in 1..3 -> 2
                     [] charged \in 4..11 -> 4
                     [] charged > 11 -> mode.emit)

\* stream_gang(): who decodes after a step, and how much
Pending(au, r) == au[r].made - au[r].charged
ReadyByQuantum(au, r, ends) == Pending(au, r) > 0 /\ Pending(au, r) >= Quantum(au[r].charged)
Ready(au, r, ends) == Pending(au, r) > 0 /\ (ends \/ Pending(au, r) >= Quantum(au[r].charged))
Leads(au, r, ends) ==
  Ready(au, r, ends) /\ mode.emit >= 2 /\ Quantum(au[r].charged) >= mode.emit
GangOf(rs, au, results) ==
  LET failed == {rs[i].tag : i \in {k \in DOMAIN rs : rs[k].failed}}
      streams == {r \in DOMAIN results : r \notin Offline \cup failed /\ results[r] # "fail"}
      Ends(r) == results[r] \in {"eos", "segment"}
      leading == \E r \in streams : Leads(au, r, Ends(r))
      joins == {r \in streams : Ready(au, r, Ends(r)) \/ leading}
  IN [r \in Requests |-> IF r \in joins THEN Pending(au, r) ELSE 0]
Charge(au, ranges) ==
  [r \in Requests |-> IF ranges[r] > 0 THEN [au[r] EXCEPT !.charged = @ + ranges[r]] ELSE au[r]]

\* The decode of a gang: at once, or with decode overlap in flight, after the
\* first frames, which go ahead.  Whoever fails is in bad; a gang the device
\* refuses fails as one.
Decoded(au, ranges, bad) ==
  LET all == {r \in Requests : ranges[r] > 0}
      now == IF mode.decode THEN {r \in all : mode.firstFirst /\ au[r].charged = 0} ELSE all
      rest == all \ now
      refused == rest # {} /\ rest \subseteq bad
  IN /\ bad \subseteq all
     /\ rest = {} \/ refused \/ bad \cap rest = {}
     /\ gang' = [r \in Requests |-> IF r \in rest \ bad THEN ranges[r] ELSE 0]
     /\ audio' = SentBy(Charge(au, ranges), ranges, now \ bad)

\* What a step leaves of each row it took: of one that failed in this step or
\* before, and of all when the emission failed, the result is not looked at.  A
\* context past the end of its text is spent until the next prefill.
AfterStep(rs, results, bad, emitted) ==
  [i \in DOMAIN rs |->
     LET r == rs[i].tag
         row == IF r \in bad \/ results[r] = "fail" THEN Fail(rs[i]) ELSE rs[i]
     IN IF r \notin DOMAIN results THEN rs[i]
        ELSE [row EXCEPT !.held = mode.decode, !.spent = results[r] \in {"eos", "segment"},
                         !.st = CASE row.failed \/ ~emitted \/ results[r] \notin {"eos", "segment"} -> @
                                  [] ~row.failed /\ emitted /\ results[r] = "eos" -> "ended"
                                  [] ~row.failed /\ emitted /\ results[r] = "segment" -> "preparing"]]

\* step_live(), for some rows: the engine answers for each with a frame, the end,
\* the end of a segment, or a failure.  A context that is stepped past its end
\* fails.  When the emission of the batch fails, for those it names or else for
\* all, the others may have made a frame, met their end, or nothing.
ResultsUnattributed(rs, who, emitted) ==
  {results \in [who -> {"frame", "none", "eos", "segment", "fail"}] :
     \A r \in who :
       /\ results[r] = "frame" => audio[r].made < mode.frames
       /\ results[r] = "none" => ~emitted
       /\ results[r] = "segment" => emitted /\ audio[r].more /\ audio[r].made > 0}
Results(rs, who, emitted) ==
  {results \in [who -> {"frame", "none", "eos", "segment", "fail"}] :
     /\ \A r \in who :
          /\ results[r] = "frame" => audio[r].made < mode.frames
          /\ results[r] = "none" => ~emitted
          /\ results[r] = "segment" => emitted /\ audio[r].more /\ audio[r].made > 0
          /\ results[r] = "fail" \/ \A i \in DOMAIN rs : rs[i].tag = r => ~rs[i].spent
     /\ emitted \/ \E r \in who : results[r] = "fail"}
Made(who, results) ==
  [r \in Requests |->
     IF r \notin who THEN audio[r]
     ELSE [audio[r] EXCEPT !.made = IF results[r] = "frame" THEN @ + 1 ELSE @,
                           !.more = @ /\ results[r] # "segment"]]
StepLive(rs, who) ==
  \E emitted \in BOOLEAN : \E results \in Results(rs, who, emitted) :
    LET au == Made(who, results)
        ranges == IF emitted THEN GangOf(rs, au, results) ELSE Idle
    IN \E bad \in SUBSET {r \in Requests : ranges[r] > 0} :
         /\ Decoded(au, ranges, bad)
         /\ rows' = AfterStep(rs, results, bad, emitted)
         /\ prepq' = prepq \o Keep(TagsOf(rs), {r \in who : \E i \in DOMAIN rs :
                       rs[i].tag = r /\ rs[i].st # "preparing" /\ rows'[i].st = "preparing"})

\* A row of the queued step that was cancelled or failed meanwhile rides along.
RideAlong(rs) ==
  [i \in DOMAIN rs |-> IF rs[i].tag \in ahead /\ rs[i].st # "active"
                       THEN [rs[i] EXCEPT !.failed = TRUE] ELSE rs[i]]
Step ==
  /\ at = "step"
  /\ IF ahead # {} THEN StepLive(RideAlong(rows), ahead) /\ UNCHANGED rr
     ELSE /\ Turn(rows, rr).who # {}
          /\ StepLive(rows, Turn(rows, rr).who)
          /\ rr' = Turn(rows, rr).next
  /\ ahead' = {}
  /\ early' = mode.overlap
  /\ at' = IF mode.overlap /\ ~mode.decode THEN "prefill" ELSE "retire"
  /\ UNCHANGED <<mode, running, queue, admits, building, built, outcome>>

StepNobody ==
  /\ at = "step" /\ ahead = {} /\ Turn(rows, rr).who = {}
  /\ rr' = (rr + 1) % Len(rows)
  /\ at' = "retire"
  /\ UNCHANGED <<mode, running, queue, early, admits, rows, prepq, ahead, gang, building,
                 built, audio, outcome>>

\* step_ahead_select_launch(): the next rows, chosen from the arrangement the
\* retirement of this step's rows will leave
Launch ==
  /\ at = "launch"
  /\ LET gone == {rows[i].tag : i \in {k \in DOMAIN rows : rows[k].st = "ended"}}
         turn == Turn(SwapRemove(rows, gone), rr)
     IN \/ Cardinality(turn.who) >= 2 /\ ahead' = turn.who /\ rr' = turn.next
        \/ UNCHANGED <<ahead, rr>>
  /\ IF mode.decode THEN at' = "admit" /\ admits' = 0 ELSE at' = "retire" /\ UNCHANGED admits
  /\ UNCHANGED <<mode, running, queue, early, rows, prepq, gang, building, built, audio, outcome>>
-----------------------------------------------------------------------------
(* The sink's side.                                                        *)

Offer(r) ==
  /\ running /\ r \in mode.offers /\ outcome[r] = "none" /\ r \notin queue \cup Tags(rows)
  /\ queue' = queue \cup {r}
  /\ UNCHANGED <<mode, running, at, early, admits, rows, prepq, rr, ahead, gang, building,
                 built, audio, outcome>>

Stop ==
  /\ running /\ running' = FALSE
  /\ UNCHANGED <<mode, queue, at, early, admits, rows, prepq, rr, ahead, gang, building,
                 built, audio, outcome>>

Driver ==
  \/ \E r \in Requests : Admit(r)
  \/ AdmitDone \/ Attach \/ Cancel \/ Collect \/ Prefill \/ LateDone \/ PrefillAgain
  \/ Step \/ StepNobody \/ Launch \/ Retire
Helper == \E r \in Requests, ok \in BOOLEAN : HelperBuilds(r, ok)

Next == Driver \/ Helper \/ Stop \/ \E r \in Requests : Offer(r)
Spec == Init /\ [][Next]_vars

\* The driver's thread and the helpers run, and the engine ends a prefill it is
\* given slices of; nobody has to offer work or stop.
FrontPrefilled == prepq # <<>> /\ Head(prepq) \notin Range(prepq')
FairSpec ==
  /\ Spec
  /\ WF_vars(Driver) /\ WF_vars(Helper)
  /\ SF_vars(Prefill /\ FrontPrefilled)
-----------------------------------------------------------------------------
(* Properties.                                                             *)

\* A context the device steps or decodes, or a helper is building, belongs to
\* one resident row whose request has not been reported: slot_retire() frees
\* contexts, and swap-removal moves rows while the device works on them.
Resident(r) == outcome[r] = "none" /\ Cardinality({i \in DOMAIN rows : rows[i].tag = r}) = 1
InFlightIsResident ==
  /\ TypeOK
  /\ \A r \in ahead \cup Ganged \cup building \cup Tags(built) \cup Tags(rows) : Resident(r)

\* No frame is decoded twice and none is lost: what a healthy stream was charged
\* for is what was sent and what is in flight, and a stream reported as served
\* was sent every frame it made, whatever was cut short, ganged or deferred.
SoundIsWhole ==
  \A r \in Requests \ Offline :
    /\ Alive(rows, r) => audio[r].sent + gang[r] = audio[r].charged /\ audio[r].charged <= audio[r].made
    /\ outcome[r] = "OK" => audio[r].sent = audio[r].made

\* What the driver promises its sink (src/graph.h), as an abstract specification.
StateOf(r) ==
  CASE outcome[r] # "none" -> outcome[r]
    [] outcome[r] = "none" /\ r \in Tags(rows) ->
         IF \E i \in DOMAIN rows : rows[i].tag = r /\ rows[i].cancelled THEN "dropped" ELSE "taken"
    [] outcome[r] = "none" /\ r \notin Tags(rows) -> IF r \in queue THEN "offered" ELSE "unseen"
Promise == INSTANCE ServePromise WITH
  state <- [r \in Requests |-> StateOf(r)], heard <- [r \in Requests |-> audio[r].sent]
ImplementsPromise == Promise!Spec

\* Every request the driver takes is reported in the end, whatever the engine
\* answers and whoever is cancelled around it: while the service runs, no row
\* keeps its slot and every queued request is taken; once the sink stops, the
\* rows drain and the driver returns.  (Each request is offered once, so it is
\* enough that rows and queue are empty for good.)
ServiceDrains == <>[](rows = <<>> /\ IF running THEN queue = {} ELSE at = "returned")

\* src/graph.h: next_job's zero "is what ends mynah_graph_serve_continuous".
EndsOnlyWhenTold == at = "returned" => ~running

\* retire_pass(): rows retire "as soon as" they stop; a failed row takes no
\* more prefill and no more steps.
FailedRowsStop == \A i \in DOMAIN rows : rows[i].failed => rows[i].st = "ended"
=============================================================================
