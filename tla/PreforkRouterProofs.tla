------------------------- MODULE PreforkRouterProofs -------------------------
(***************************************************************************)
(* The router, for any number of clients, workers, language groups and     *)
(* slots and any setting of its limits.  First types and ownership: where  *)
(* each connection is, and what each worker owes.  On that rests what it   *)
(* promises its clients: it implements ConnectionFate; nobody overtakes in *)
(* the queue of a group; a named language is served by its workers; nobody *)
(* waits for a slot that is free; and the watchdog cries no wolf.          *)
(***************************************************************************)
EXTENDS PreforkRouter, FiniteSetTheorems, SequenceTheorems, WellFoundedInduction,
        TLAPS

-----------------------------------------------------------------------------
(* What the operators on the queue and on ages return.                     *)

\* An age that is in range stays in range.
LEMMA OlderType ==
  ASSUME NEW cap \in Nat, NEW age \in 0..cap
  PROVE  Older(age, cap) \in 0..cap
BY DEF Older

\* queue_erase() takes one entry out and keeps the others.
LEMMA QueueEraseType ==
  ASSUME NEW S, NEW s \in Seq(S), NEW at \in DOMAIN s
  PROVE  /\ QueueErase(s, at) \in Seq(S)
         /\ Len(QueueErase(s, at)) = Len(s) - 1
         /\ \A i \in DOMAIN QueueErase(s, at) :
              QueueErase(s, at)[i] = s[IF i < at THEN i ELSE i + 1]
<1>1. Len(s) \in Nat /\ DOMAIN s = 1..Len(s) /\ Len(s) - 1 \in Nat
  OBVIOUS
<1>2. \A i \in 1..(Len(s) - 1) : (IF i < at THEN s[i] ELSE s[i + 1]) \in S
  BY <1>1
<1> QED  BY <1>1, <1>2 DEF QueueErase

\* disp_pop() leaves the stamps it does not drop.
LEMMA DispPopType ==
  ASSUME NEW S, NEW s \in Seq(S), NEW n \in Nat
  PROVE  /\ DispPop(s, n) \in Seq(S)
         /\ n <= Len(s) => Len(DispPop(s, n)) = Len(s) - n
<1>1. CASE Len(s) <= n
  BY <1>1 DEF DispPop
<1>2. CASE Len(s) > n
  <2>1. \A i \in (n + 1)..Len(s) : s[i] \in S
    OBVIOUS
  <2>2. /\ SubSeq(s, n + 1, Len(s)) \in Seq(S)
        /\ Len(SubSeq(s, n + 1, Len(s))) = Len(s) - (n + 1) + 1
    BY <1>2, <2>1, SubSeqProperties, n + 1 \in Int, Len(s) \in Int
  <2> QED  BY <1>2, <2>2 DEF DispPop
<1> QED  BY <1>1, <1>2

\* Sets of clients and of workers have a cardinality.
LEMMA Finite ==
  /\ \A S \in SUBSET Conns : IsFiniteSet(S) /\ Cardinality(S) \in Nat
  /\ \A S \in SUBSET Workers : IsFiniteSet(S) /\ Cardinality(S) \in Nat
BY ConnsAssumption, WorkersAssumption, FS_Subset, FS_CardinalityType

-----------------------------------------------------------------------------
(* Type correctness.  Lemmas for the operators the handlers share, then    *)
(* one step per action.                                                    *)

USE LangsAssumption

LEMMA BoundsAreNat ==
  /\ Slots \in Nat \ {0} /\ QPer \in Int
  /\ QDeadline \in Nat /\ ServiceCap \in Nat /\ LingerTicks \in Nat
  /\ LingerMax \in Nat /\ ClassifyTicks \in Nat
BY BoundsAssumption

USE BoundsAreNat

\* What a handover, or its refusal, may change besides the counters.
HandoverType == /\ fate \in [Conns -> Fates]
                /\ held \in [Workers -> SUBSET Conns]
                /\ active \in [Workers -> Nat]
                /\ assigned \in [Workers -> Nat]
                /\ disp \in [Workers -> Seq(0..ServiceCap)]
                /\ service \in [Conns -> 0..ServiceCap]

LEMMA RefuseType ==
  ASSUME TypeOK, NEW c \in Conns, NEW r \in Reasons, Refuse(c, r)
  PROVE  CountType' /\ fate' \in [Conns -> Fates]
BY DEF TypeOK, CountType, HistoryType, Refuse, counts, Fates

LEMMA RefuseOnlyType ==
  ASSUME TypeOK, NEW c \in Conns, NEW r \in Reasons, RefuseOnly(c, r)
  PROVE  CountType' /\ HandoverType'
BY RefuseType DEF RefuseOnly, HandoverType, TypeOK, WorkerType, LedgerType, HistoryType

LEMMA DispatchType ==
  ASSUME TypeOK, NEW c \in Conns, NEW w \in Workers, Dispatch(w, c)
  PROVE  CountType' /\ HandoverType'
<1>1. CASE RefuseOnly(c, HandoffFailed)
  BY <1>1, RefuseOnlyType DEF Reasons
<1>2. CASE HandOver(w, c)
  <2>1. disp[w] \in Seq(0..ServiceCap) /\ 0 \in 0..ServiceCap
    BY DEF TypeOK, LedgerType
  <2>2. (IF Len(disp[w]) < Slots + 1 THEN Append(disp[w], 0) ELSE disp[w])
          \in Seq(0..ServiceCap)
    BY <2>1, AppendProperties
  <2>3. disp' \in [Workers -> Seq(0..ServiceCap)]
    BY <1>2, <2>2 DEF HandOver, TypeOK, LedgerType
  <2>4. /\ held' \in [Workers -> SUBSET Conns]
        /\ active' \in [Workers -> Nat]
        /\ assigned' \in [Workers -> Nat]
    <3>1. held' \in [Workers -> SUBSET Conns]
      BY <1>2 DEF HandOver, TypeOK, WorkerType
    <3>2. active' \in [Workers -> Nat]
      BY <1>2 DEF HandOver, TypeOK, LedgerType
    <3>3. assigned' \in [Workers -> Nat]
      BY <1>2 DEF HandOver, TypeOK, LedgerType
    <3> QED  BY <3>1, <3>2, <3>3
  <2>5. fate' \in [Conns -> Fates] /\ service' \in [Conns -> 0..ServiceCap]
    BY <1>2 DEF HandOver, TypeOK, HistoryType, Fates
  <2>6. CountType'
    BY <1>2 DEF HandOver, TypeOK, CountType, counts
  <2> QED  BY <2>3, <2>4, <2>5, <2>6 DEF HandoverType
<1> QED  BY <1>1, <1>2 DEF Dispatch

LEMMA EnqueueType ==
  ASSUME TypeOK, NEW c \in Conns, NEW lang \in Langs, Enqueue(c, lang)
  PROVE  CountType' /\ HandoverType' /\ q' \in Seq(Entry)
<1>1. [conn |-> c, lang |-> lang, age |-> 0] \in Entry
  BY DEF Entry
<1>2. q' \in Seq(Entry)
  BY <1>1, AppendProperties DEF Enqueue, TypeOK, WaitingType
<1>3. fate' \in [Conns -> Fates]
  BY DEF Enqueue, TypeOK, HistoryType, Fates
<1> QED
  BY <1>2, <1>3 DEF Enqueue, HandoverType, TypeOK, WorkerType, LedgerType, HistoryType,
                    CountType, counts

LEMMA AdmitType ==
  ASSUME TypeOK, NEW c \in Conns, NEW lang \in Langs, Admit(c, lang)
  PROVE  CountType' /\ HandoverType' /\ q' \in Seq(Entry)
<1>1. GroupPick(lang) \subseteq Workers
  BY DEF GroupPick, Free, GroupLive, TypeOK, LedgerType
<1>2. CASE q' = q /\ \E w \in GroupPick(lang) : Dispatch(w, c)
  BY <1>1, <1>2, DispatchType DEF TypeOK, WaitingType
<1>3. CASE q' = q /\ RefuseOnly(c, AtCapacity)
  BY <1>3, RefuseOnlyType DEF TypeOK, WaitingType, Reasons
<1>4. CASE Enqueue(c, lang)
  BY <1>4, EnqueueType
<1> QED  BY <1>2, <1>3, <1>4 DEF Admit

LEMMA RouteType ==
  ASSUME TypeOK, NEW c \in Conns, NEW class, Route(c, class)
  PROVE  CountType' /\ HandoverType' /\ q' \in Seq(Entry)
<1>1. CASE class = Unknown
  BY <1>1, RefuseOnlyType DEF Route, TypeOK, WaitingType, Reasons
<1>2. CASE class # Unknown
  <2>1. (IF class \in Langs THEN class ELSE DefaultLang) \in Langs
    OBVIOUS
  <2> QED  BY <1>2, <2>1, AdmitType DEF Route
<1> QED  BY <1>1, <1>2

LEMMA TypeInit == Init => TypeOK
<1> SUFFICES ASSUME Init PROVE TypeOK
  OBVIOUS
<1>1. disp \in [Workers -> Seq(0..ServiceCap)] /\ q \in Seq(Entry)
  BY DEF Init
<1>2. ClientType /\ WorkerType /\ LoopType /\ WaitingType /\ LedgerType
  BY <1>1 DEF Init, ClientType, WorkerType, LoopType, WaitingType, LedgerType, Amounts,
              NoneFired
<1>3. CountType /\ HistoryType
  BY DEF Init, CountType, HistoryType, Amounts, Fates, Reasons
<1> QED  BY <1>2, <1>3 DEF TypeOK

LEMMA PollType ==
  ASSUME TypeOK, NEW elapsed \in BOOLEAN, Poll(elapsed)
  PROVE  TypeOK'
<1> USE DEF TypeOK
<1>1. Readiness \in [chan : SUBSET Workers, hup : SUBSET Nat,
                     pend : SUBSET Conns, listen : BOOLEAN]
  <2>1. {w \in known : done[w] # {} \/ w \notin alive} \in SUBSET Workers
    BY DEF LedgerType
  <2>2. {i \in DOMAIN q : i <= QPollMax /\ gone[q[i].conn]} \in SUBSET Nat
    BY DEF WaitingType
  <2>3. {c \in ConnsIn(pending) : bytes[c] # "none" \/ gone[c]} \in SUBSET Conns
    BY DEF ConnsIn, WaitingType
  <2>4. (\E c \in Conns : fate[c] = "backlog") \in BOOLEAN
    OBVIOUS
  <2> QED  BY <2>1, <2>2, <2>3, <2>4 DEF Readiness
<1>2. LoopType'
  BY <1>1 DEF Poll, LoopType
<1>3. ClientType' /\ WorkerType'
  BY DEF Poll, ClientType, WorkerType, clientVars, workerVars
<1>4. CASE elapsed
  <2>1. pending' \subseteq [conn : Conns, age : 0..ClassifyTicks]
    BY <1>4, OlderType DEF Poll, TimePasses, WaitingType
  <2>2. linger' \subseteq [conn : Conns, age : 0..LingerTicks]
    BY <1>4, OlderType DEF Poll, TimePasses, CountType
  <2>3. q' \in Seq(Entry)
    <3>1. ASSUME NEW i \in 1..Len(q)
          PROVE  [conn |-> q[i].conn, lang |-> q[i].lang,
                  age |-> Older(q[i].age, QDeadline)] \in Entry
      <4>1. q[i] \in Entry
        BY DEF WaitingType
      <4> QED  BY <4>1, OlderType DEF Entry
    <3>2. q' = [i \in 1..Len(q) |-> [conn |-> q[i].conn, lang |-> q[i].lang,
                                    age |-> Older(q[i].age, QDeadline)]]
      BY <1>4 DEF Poll, TimePasses
    <3>3. Len(q) \in Nat
      BY DEF WaitingType
    <3> QED  BY <3>1, <3>2, <3>3
  <2>4. disp' \in [Workers -> Seq(0..ServiceCap)]
    <3>1. SUFFICES ASSUME NEW w \in Workers
                   PROVE  [i \in DOMAIN disp[w] |-> Older(disp[w][i], ServiceCap)]
                            \in Seq(0..ServiceCap)
      BY <1>4 DEF Poll, TimePasses
    <3>2. disp[w] \in Seq(0..ServiceCap)
      BY DEF LedgerType
    <3>3. ASSUME NEW i \in 1..Len(disp[w])
          PROVE  Older(disp[w][i], ServiceCap) \in 0..ServiceCap
      <4>1. disp[w][i] \in 0..ServiceCap
        BY <3>2
      <4> QED  BY <4>1, OlderType
    <3>4. DOMAIN disp[w] = 1..Len(disp[w]) /\ Len(disp[w]) \in Nat
      BY <3>2
    <3> QED  BY <3>3, <3>4
  <2>5. service' \in [Conns -> 0..ServiceCap]
    <3>1. service \in [Conns -> 0..ServiceCap]
      BY DEF HistoryType
    <3>2. \A c \in Conns : Older(service[c], ServiceCap) \in 0..ServiceCap
      BY <3>1, OlderType
    <3>3. service' = [c \in Conns |-> IF fate[c] = "handed"
                                     THEN Older(service[c], ServiceCap) ELSE service[c]]
      BY <1>4 DEF Poll, TimePasses
    <3> QED  BY <3>1, <3>2, <3>3
  <2> QED
    BY <1>2, <1>3, <2>1, <2>2, <2>3, <2>4, <2>5
       DEF Poll, WaitingType, LedgerType, CountType, HistoryType, counts
<1>5. CASE ~elapsed
  BY <1>2, <1>3, <1>5 DEF Poll, WaitingType, LedgerType, CountType, HistoryType, counts
<1> QED  BY <1>4, <1>5

LEMMA EntryAt ==
  ASSUME TypeOK, NEW i \in DOMAIN q
  PROVE  /\ q[i] \in Entry /\ q[i].conn \in Conns /\ q[i].lang \in Langs
         /\ QueueErase(q, i) \in Seq(Entry)
<1>1. q \in Seq(Entry)
  BY DEF TypeOK, WaitingType
<1>2. q[i] \in Entry
  BY <1>1
<1> QED  BY <1>1, <1>2, QueueEraseType DEF Entry

LEMMA RefuseAtShutdownType ==
  ASSUME TypeOK, NEW c \in Conns, RefuseAtShutdown(c), WaitingType'
  PROVE  TypeOK'
<1> USE DEF TypeOK, RefuseAtShutdown
<1>0. AtCapacity \in Reasons
  BY DEF Reasons
<1>1. refused' \in [Reasons -> Nat] /\ shared' \in [Reasons -> Nat]
  BY <1>0 DEF CountType
<1>2. fate' \in [Conns -> Fates]
  BY DEF HistoryType, Fates
<1>3. ClientType' /\ WorkerType' /\ LoopType' /\ LedgerType'
  BY DEF clientVars, workerVars, ledger, ClientType, WorkerType, LoopType, LedgerType
<1> QED  BY <1>1, <1>2, <1>3 DEF CountType, HistoryType

LEMMA TypeStep ==
  ASSUME TypeOK, [Next]_vars
  PROVE  TypeOK'
<1> USE DEF TypeOK
<1>0. CASE UNCHANGED vars
  BY <1>0 DEF vars, clientVars, workerVars, ledger, counts,
     ClientType, WorkerType, LoopType, WaitingType, LedgerType, CountType, HistoryType
<1>Lingers. ASSUME Lingers PROVE TypeOK'
  BY <1>Lingers DEF Lingers, clientVars, workerVars, ledger, counts,
     ClientType, WorkerType, LoopType, WaitingType, LedgerType, CountType, HistoryType
<1>CompletionsRead. ASSUME CompletionsRead PROVE TypeOK'
  BY <1>CompletionsRead DEF CompletionsRead, clientVars, workerVars, ledger, counts,
     ClientType, WorkerType, LoopType, WaitingType, LedgerType, CountType, HistoryType
<1>HangupsDone. ASSUME HangupsDone PROVE TypeOK'
  BY <1>HangupsDone DEF HangupsDone, clientVars, workerVars, ledger, counts,
     ClientType, WorkerType, LoopType, WaitingType, LedgerType, CountType, HistoryType
<1>ClassifyDone. ASSUME ClassifyDone PROVE TypeOK'
  BY <1>ClassifyDone DEF ClassifyDone, clientVars, workerVars, ledger, counts,
     ClientType, WorkerType, LoopType, WaitingType, LedgerType, CountType, HistoryType
<1>DrainDone. ASSUME DrainDone PROVE TypeOK'
  BY <1>DrainDone DEF DrainDone, clientVars, workerVars, ledger, counts,
     ClientType, WorkerType, LoopType, WaitingType, LedgerType, CountType, HistoryType, NoneFired
<1>AcceptRetry. ASSUME AcceptRetry PROVE TypeOK'
  BY <1>AcceptRetry DEF AcceptRetry, clientVars, workerVars, ledger, counts,
     ClientType, WorkerType, LoopType, WaitingType, LedgerType, CountType, HistoryType
<1>AcceptFails. ASSUME AcceptFails PROVE TypeOK'
  BY <1>AcceptFails DEF AcceptFails, clientVars, workerVars, ledger, counts,
     ClientType, WorkerType, LoopType, WaitingType, LedgerType, CountType, HistoryType
<1>ForkFails. ASSUME ForkFails PROVE TypeOK'
  BY <1>ForkFails DEF ForkFails, clientVars, workerVars, ledger, counts,
     ClientType, WorkerType, LoopType, WaitingType, LedgerType, CountType, HistoryType
<1>Fork. ASSUME NEW w \in Workers, Fork(w) PROVE TypeOK'
  BY <1>Fork DEF Fork, clientVars, workerVars, ledger, counts,
     ClientType, WorkerType, LoopType, WaitingType, LedgerType, CountType, HistoryType
<1>LeaveLoop. ASSUME LeaveLoop PROVE TypeOK'
  BY <1>LeaveLoop DEF LeaveLoop, clientVars, workerVars, ledger, counts,
     ClientType, WorkerType, LoopType, WaitingType, LedgerType, CountType, HistoryType
<1>PollFails. ASSUME PollFails PROVE TypeOK'
  BY <1>PollFails DEF PollFails, clientVars, workerVars, ledger, counts,
     ClientType, WorkerType, LoopType, WaitingType, LedgerType, CountType, HistoryType
<1>Terminate. ASSUME Terminate PROVE TypeOK'
  BY <1>Terminate DEF Terminate, clientVars, workerVars, ledger, counts,
     ClientType, WorkerType, LoopType, WaitingType, LedgerType, CountType, HistoryType
<1>Reaped. ASSUME Reaped PROVE TypeOK'
  BY <1>Reaped DEF Reaped, clientVars, workerVars, ledger, counts,
     ClientType, WorkerType, LoopType, WaitingType, LedgerType, CountType, HistoryType
<1>Connect. ASSUME NEW c \in Conns, Connect(c) PROVE TypeOK'
  BY <1>Connect DEF Connect, clientVars, workerVars, ledger, counts,
     ClientType, WorkerType, LoopType, WaitingType, LedgerType, CountType, HistoryType, Fates
<1>Send. ASSUME NEW c \in Conns, Send(c) PROVE TypeOK'
  BY <1>Send DEF Send, clientVars, workerVars, ledger, counts,
     ClientType, WorkerType, LoopType, WaitingType, LedgerType, CountType, HistoryType, Amounts
<1>HangUp. ASSUME NEW c \in Conns, HangUp(c) PROVE TypeOK'
  BY <1>HangUp DEF HangUp, clientVars, workerVars, ledger, counts,
     ClientType, WorkerType, LoopType, WaitingType, LedgerType, CountType, HistoryType
<1>Finish. ASSUME NEW w \in Workers, NEW c \in Conns, Finish(w, c) PROVE TypeOK'
  BY <1>Finish DEF Finish, clientVars, workerVars, ledger, counts,
     ClientType, WorkerType, LoopType, WaitingType, LedgerType, CountType, HistoryType
<1>Die. ASSUME NEW w \in Workers, Die(w) PROVE TypeOK'
  BY <1>Die DEF Die, clientVars, workerVars, ledger, counts,
     ClientType, WorkerType, LoopType, WaitingType, LedgerType, CountType, HistoryType
<1>Signal. ASSUME Signal PROVE TypeOK'
  BY <1>Signal DEF Signal, clientVars, workerVars, ledger, counts,
     ClientType, WorkerType, LoopType, WaitingType, LedgerType, CountType, HistoryType
<1>WorkerLost. ASSUME NEW w \in fired.chan, WorkerLost(w) PROVE TypeOK'
  <2>1. disp' \in [Workers -> Seq(0..ServiceCap)]
    BY <1>WorkerLost, <<>> \in Seq(0..ServiceCap) DEF WorkerLost, LedgerType
  <2>2. LoopType' /\ WorkerType'
    BY <1>WorkerLost DEF WorkerLost, LoopType, WorkerType
  <2> QED
    BY <1>WorkerLost, <2>1, <2>2 DEF WorkerLost, clientVars, counts,
       ClientType, WaitingType, LedgerType, CountType, HistoryType
<1>KeepPending. ASSUME NEW p \in pending, KeepPending(p) PROVE TypeOK'
  BY <1>KeepPending DEF KeepPending, clientVars, workerVars, ledger, counts,
     ClientType, WorkerType, LoopType, WaitingType, LedgerType, CountType, HistoryType
<1>Poll. ASSUME NEW elapsed \in BOOLEAN, Poll(elapsed) PROVE TypeOK'
  BY <1>Poll, PollType
<1>ReadCompletions. ASSUME NEW w \in fired.chan, ReadCompletions(w) PROVE TypeOK'
  <2>1. Cardinality(done[w]) \in Nat /\ w \in Workers
    BY Finite DEF WorkerType, LoopType
  <2>2. DispPop(disp[w], Cardinality(done[w])) \in Seq(0..ServiceCap)
    BY <2>1, DispPopType DEF LedgerType
  <2>3. disp' \in [Workers -> Seq(0..ServiceCap)]
    <3>1. (IF active[w] < Cardinality(done[w]) THEN <<>>
           ELSE DispPop(disp[w], Cardinality(done[w]))) \in Seq(0..ServiceCap)
      BY <2>2, <<>> \in Seq(0..ServiceCap)
    <3> QED  BY <1>ReadCompletions, <3>1 DEF ReadCompletions, LedgerType
  <2>4. active' \in [Workers -> Nat]
    BY <1>ReadCompletions, <2>1 DEF ReadCompletions, LedgerType
  <2>5. completed' \in [Workers -> Nat]
    BY <1>ReadCompletions, <2>1 DEF ReadCompletions, LedgerType
  <2>6. LoopType' /\ WorkerType'
    BY <1>ReadCompletions, <2>1 DEF ReadCompletions, LoopType, WorkerType
  <2> QED
    BY <1>ReadCompletions, <2>3, <2>4, <2>5, <2>6 DEF ReadCompletions, clientVars, counts,
       ClientType, WaitingType, LedgerType, CountType, HistoryType
<1>Watchdog. ASSUME Watchdog PROVE TypeOK'
  <2>1. PastCap \subseteq Workers /\ Cardinality(PastCap) \in Nat
    BY Finite DEF PastCap, LedgerType
  <2>2. ASSUME NEW w \in Workers
        PROVE  (IF w \in PastCap THEN [disp[w] EXCEPT ![1] = 0] ELSE disp[w])
                 \in Seq(0..ServiceCap)
    <3> DEFINE d == disp[w]
               n == Len(d)
               Ages == 0..ServiceCap
               restamped == [d EXCEPT ![1] = 0]
    <3>1. d \in Seq(Ages)
      BY DEF LedgerType
    <3>2. n \in Nat /\ DOMAIN d = 1..n /\ \A i \in 1..n : d[i] \in Ages
      BY <3>1
    <3>3. 0 \in Ages
      BY BoundsAreNat
    <3>4. restamped = [i \in 1..n |-> restamped[i]] /\ \A i \in 1..n : restamped[i] \in Ages
      <4> HIDE DEF d, Ages, n
      <4> QED  BY <3>2, <3>3
    <3>5. restamped \in Seq(Ages)
      <4> HIDE DEF restamped, n, Ages
      <4> QED  BY <3>2, <3>4
    <3> HIDE DEF restamped, Ages
    <3> QED  BY <3>1, <3>5 DEF Ages, restamped
  <2>3. disp' \in [Workers -> Seq(0..ServiceCap)]
    BY <1>Watchdog, <2>2 DEF Watchdog
  <2>4. overCap' \in [Workers -> Nat]
    BY <1>Watchdog DEF Watchdog, LedgerType
  <2>5. refused' \in [Reasons -> Nat]
    BY <1>Watchdog, <2>1 DEF Watchdog, CountType, Reasons
  <2> QED
    BY <1>Watchdog, <2>3, <2>4, <2>5 DEF Watchdog, clientVars, workerVars,
       ClientType, WorkerType, LoopType, WaitingType, LedgerType, CountType, HistoryType
<1>DropQueued. ASSUME NEW i \in DOMAIN q, DropQueued(i) PROVE TypeOK'
  <2>1. q[i].conn \in Conns /\ q' \in Seq(Entry)
    BY <1>DropQueued, EntryAt DEF DropQueued, DropAt
  <2>2. fate' \in [Conns -> Fates]
    BY <1>DropQueued DEF DropQueued, DropAt, HistoryType, Fates
  <2>3. ClientType' /\ WorkerType' /\ LedgerType'
    BY <1>DropQueued DEF DropQueued, DropAt, clientVars, workerVars, ledger,
       ClientType, WorkerType, LedgerType
  <2>4. CountType' /\ LoopType'
    BY <1>DropQueued DEF DropQueued, DropAt, LoopType, CountType
  <2> QED
    BY <1>DropQueued, <2>1, <2>2, <2>3, <2>4
       DEF DropQueued, DropAt, WaitingType, HistoryType
<1>DrainRefuse. ASSUME NEW i \in DOMAIN q, DrainRefuse(i) PROVE TypeOK'
  <2>1. q[i].conn \in Conns /\ q' \in Seq(Entry)
    BY <1>DrainRefuse, EntryAt DEF DrainRefuse
  <2>2. CountType' /\ fate' \in [Conns -> Fates]
    BY <1>DrainRefuse, <2>1, RefuseType DEF DrainRefuse, Reasons
  <2> QED
    BY <1>DrainRefuse, <2>1, <2>2 DEF DrainRefuse, clientVars, workerVars, ledger,
       ClientType, WorkerType, LoopType, WaitingType, LedgerType, CountType, HistoryType
<1>DrainDispatch. ASSUME NEW i \in DOMAIN q, DrainDispatch(i) PROVE TypeOK'
  <2>1. q[i].conn \in Conns /\ q' \in Seq(Entry)
    BY <1>DrainDispatch, EntryAt DEF DrainDispatch
  <2>2. PICK w \in Workers : Dispatch(w, q[i].conn)
    BY <1>DrainDispatch DEF DrainDispatch, GroupPick, Free, GroupLive, LedgerType
  <2>3. CountType' /\ HandoverType'
    BY <2>1, <2>2, DispatchType
  <2> QED
    BY <1>DrainDispatch, <2>1, <2>3 DEF DrainDispatch, HandoverType, clientVars,
       ClientType, WorkerType, LoopType, WaitingType, LedgerType, HistoryType
<1>DecidePending. ASSUME NEW p \in pending, DecidePending(p) PROVE TypeOK'
  <2>1. p.conn \in Conns
    BY DEF WaitingType
  <2>2. CountType' /\ HandoverType' /\ q' \in Seq(Entry)
    BY <1>DecidePending, <2>1, RouteType DEF DecidePending
  <2> QED
    BY <1>DecidePending, <2>2 DEF DecidePending, HandoverType, clientVars,
       ClientType, WorkerType, LoopType, WaitingType, LedgerType, HistoryType
<1>Accept. ASSUME NEW c \in Conns, Accept(c) PROVE TypeOK'
  <2>1. ASSUME UNCHANGED pending, CountType', HandoverType', q' \in Seq(Entry)
        PROVE  TypeOK'
    BY <1>Accept, <2>1 DEF Accept, HandoverType, clientVars,
       ClientType, WorkerType, LoopType, WaitingType, LedgerType, HistoryType
  <2>2. CASE /\ pending' = pending \cup {[conn |-> c, age |-> 0]}
             /\ fate' = [fate EXCEPT ![c] = "waiting"]
             /\ UNCHANGED <<q, held, active, assigned, disp, service, linger, counts>>
    <3>1. HistoryType' /\ WaitingType'
      BY <2>2 DEF HistoryType, WaitingType, Fates, ClientType
    <3> QED
      BY <1>Accept, <2>2, <3>1 DEF Accept, clientVars, counts,
         ClientType, WorkerType, LoopType, LedgerType, CountType
  <2>3. CASE Admit(c, DefaultLang) /\ UNCHANGED pending
    BY <2>1, <2>3, AdmitType
  <2>4. CASE UNCHANGED pending /\ \E class : Route(c, class)
    BY <2>1, <2>4, RouteType
  <2> QED  BY <1>Accept, <2>2, <2>3, <2>4 DEF Accept
<1>ShutdownQueued. ASSUME ShutdownQueued PROVE TypeOK'
  <2>1. 1 \in DOMAIN q /\ Tail(q) \in Seq(Entry)
    BY <1>ShutdownQueued, HeadTailProperties DEF ShutdownQueued, WaitingType
  <2>2. WaitingType'
    BY <1>ShutdownQueued, <2>1 DEF ShutdownQueued, WaitingType
  <2> QED
    BY <1>ShutdownQueued, <2>1, <2>2, EntryAt, RefuseAtShutdownType DEF ShutdownQueued
<1>ShutdownPending. ASSUME NEW p \in pending, ShutdownPending(p) PROVE TypeOK'
  <2>1. p.conn \in Conns /\ WaitingType'
    BY <1>ShutdownPending DEF ShutdownPending, WaitingType
  <2> QED  BY <1>ShutdownPending, <2>1, RefuseAtShutdownType DEF ShutdownPending
<1> QED
  BY <1>0, <1>Lingers, <1>CompletionsRead, <1>HangupsDone, <1>ClassifyDone,
     <1>DrainDone, <1>AcceptRetry, <1>AcceptFails, <1>ForkFails,
     <1>Fork, <1>LeaveLoop, <1>PollFails, <1>Terminate, <1>Reaped,
     <1>Connect, <1>Send, <1>HangUp, <1>Finish,
     <1>Die, <1>Signal, <1>WorkerLost, <1>KeepPending,
     <1>Poll, <1>ReadCompletions, <1>Watchdog, <1>DropQueued,
     <1>DrainRefuse, <1>DrainDispatch, <1>DecidePending, <1>Accept,
     <1>ShutdownQueued, <1>ShutdownPending
     DEF Next, RouterStep, Environment, Terminated

\* Every variable of the router keeps its type, whatever the sizes of the fleet.
THEOREM TypeCorrect == Spec => []TypeOK
<1>1. Init => TypeOK
  BY TypeInit
<1>2. TypeOK /\ [Next]_vars => TypeOK'
  BY TypeStep
<1> QED  BY <1>1, <1>2, PTL DEF Spec

-----------------------------------------------------------------------------
(* OneOwner and ActiveIsInFlight are invariants of the router.  Neither is *)
(* inductive alone: that a handover adds one connection to a worker rests  *)
(* on the connection not being there already, which rests on its having    *)
(* been in one place of the waiting sets.  Ownership joins the two.        *)

\* Sequence s and set P are where the connections that f calls waiting are,
\* each of them once.
Waiting(s, P, f) ==
  /\ \A i \in DOMAIN s : f[s[i].conn] = "waiting"
  /\ \A p \in P : f[p.conn] = "waiting"
  /\ \A i, j \in DOMAIN s : s[i].conn = s[j].conn => i = j
  /\ \A p, r \in P : p.conn = r.conn => p = r
  /\ \A i \in DOMAIN s : \A p \in P : s[i].conn # p.conn
  /\ \A c \in Conns : f[c] = "waiting" =>
       (\E i \in DOMAIN s : s[i].conn = c) \/ (\E p \in P : p.conn = c)

\* Workers share no connection, and hold only such as were handed over.
Handed(k, h, d, f) ==
  \A w \in Workers :
    /\ h[w] \cap d[w] = {}
    /\ w \notin k => h[w] \cup d[w] = {}
    /\ \A c \in h[w] \cup d[w] :
         f[c] = "handed" /\ \A v \in Workers \ {w} : c \notin h[v] \cup d[v]

LingerRefused == \A l \in linger : fate[l.conn] = "refused"

Unforked == pc = "fork" =>
  \A w \in Workers : /\ held[w] = {} /\ done[w] = {} /\ disp[w] = <<>>
                      /\ active[w] = 0 /\ assigned[w] = 0 /\ completed[w] = 0

Ownership == /\ TypeOK
             /\ Unforked
             /\ Waiting(q, pending, fate)
             /\ Handed(known, held, done, fate)
             /\ LingerRefused
             /\ ActiveIsInFlight

-----------------------------------------------------------------------------
(* Waiting under the operations on the queue and on the pending set.       *)

LEMMA WaitingErase ==
  ASSUME NEW s \in Seq(Entry), NEW P \in SUBSET [conn : Conns, age : 0..ClassifyTicks],
         NEW f \in [Conns -> Fates], Waiting(s, P, f),
         NEW i \in DOMAIN s, NEW x \in Fates, x # "waiting"
  PROVE  Waiting(QueueErase(s, i), P, [f EXCEPT ![s[i].conn] = x])
<1> DEFINE t == QueueErase(s, i)
           g == [f EXCEPT ![s[i].conn] = x]
           at(j) == IF j < i THEN j ELSE j + 1
<1>1. /\ Len(s) \in Nat /\ DOMAIN s = 1..Len(s) /\ DOMAIN t = 1..(Len(s) - 1)
      /\ \A j \in DOMAIN t : t[j] = s[at(j)] /\ at(j) \in DOMAIN s /\ at(j) # i
  BY QueueEraseType
<1>2. \A j \in DOMAIN s : j # i => \E m \in DOMAIN t : t[m] = s[j]
  <2> SUFFICES ASSUME NEW j \in DOMAIN s, j # i PROVE \E m \in DOMAIN t : t[m] = s[j]
    OBVIOUS
  <2>1. CASE j < i
    BY <1>1, <2>1
  <2>2. CASE j > i
    <3>1. j - 1 \in DOMAIN t /\ at(j - 1) = j
      BY <1>1, <2>2
    <3> QED  BY <1>1, <3>1
  <2> QED  BY <1>1, <2>1, <2>2
<1>3. \A j \in DOMAIN s : s[j].conn \in Conns
  <2>1. \A j \in DOMAIN s : s[j] \in Entry
    OBVIOUS
  <2> QED  BY <2>1 DEF Entry
<1>4. \A j \in DOMAIN t : t[j].conn # s[i].conn /\ g[t[j].conn] = "waiting"
  BY <1>1, <1>3 DEF Waiting
<1>5. \A p \in P : p.conn # s[i].conn /\ g[p.conn] = "waiting"
  BY DEF Waiting
<1>6. \A j, m \in DOMAIN t : t[j].conn = t[m].conn => j = m
  <2> SUFFICES ASSUME NEW j \in DOMAIN t, NEW m \in DOMAIN t, t[j].conn = t[m].conn
               PROVE  j = m
    OBVIOUS
  <2>1. at(j) = at(m)
    BY <1>1 DEF Waiting
  <2> QED  BY <1>1, <2>1
<1>7. \A c \in Conns : g[c] = "waiting" =>
        (\E j \in DOMAIN t : t[j].conn = c) \/ (\E p \in P : p.conn = c)
  <2> SUFFICES ASSUME NEW c \in Conns, g[c] = "waiting"
               PROVE  (\E j \in DOMAIN t : t[j].conn = c) \/ (\E p \in P : p.conn = c)
    OBVIOUS
  <2>1. f[c] = "waiting" /\ c # s[i].conn
    OBVIOUS
  <2> QED  BY <1>2, <2>1 DEF Waiting
<1> HIDE DEF t, g
<1>8. /\ \A p, r \in P : p.conn = r.conn => p = r
      /\ \A j \in DOMAIN t : \A p \in P : t[j].conn # p.conn
  BY <1>1 DEF Waiting
<1>9. Waiting(t, P, g)
  BY <1>4, <1>5, <1>6, <1>7, <1>8 DEF Waiting
<1> QED  BY <1>9 DEF t, g

LEMMA WaitingDrop ==
  ASSUME NEW s \in Seq(Entry), NEW P \in SUBSET [conn : Conns, age : 0..ClassifyTicks],
         NEW f \in [Conns -> Fates], Waiting(s, P, f),
         NEW p \in P, NEW x \in Fates, x # "waiting"
  PROVE  Waiting(s, P \ {p}, [f EXCEPT ![p.conn] = x])
<1>1. \A j \in DOMAIN s : s[j] \in Entry
  OBVIOUS
<1> QED  BY <1>1 DEF Waiting, Entry

LEMMA WaitingAppend ==
  ASSUME NEW s \in Seq(Entry), NEW P \in SUBSET [conn : Conns, age : 0..ClassifyTicks],
         NEW f \in [Conns -> Fates], Waiting(s, P, f),
         NEW c \in Conns, f[c] # "waiting", NEW lang \in Langs
  PROVE  Waiting(Append(s, [conn |-> c, lang |-> lang, age |-> 0]), P,
                 [f EXCEPT ![c] = "waiting"])
<1> DEFINE e == [conn |-> c, lang |-> lang, age |-> 0]
           t == Append(s, e)
           g == [f EXCEPT ![c] = "waiting"]
<1>1. /\ Len(s) \in Nat /\ DOMAIN s = 1..Len(s) /\ DOMAIN t = 1..(Len(s) + 1)
      /\ \A j \in DOMAIN s : t[j] = s[j]
      /\ t[Len(s) + 1] = e
  OBVIOUS
<1>2. \A j \in DOMAIN s : s[j].conn \in Conns /\ s[j].conn # c
  <2>1. \A j \in DOMAIN s : s[j] \in Entry
    OBVIOUS
  <2> QED  BY <2>1 DEF Entry, Waiting
<1>3. \A p \in P : p.conn # c /\ g[p.conn] = "waiting"
  BY DEF Waiting
<1>4. \A j \in DOMAIN t : (j \in DOMAIN s /\ t[j] = s[j]) \/ (j = Len(s) + 1 /\ t[j].conn = c)
  BY <1>1
<1>5. \A j \in DOMAIN t : g[t[j].conn] = "waiting"
  BY <1>2, <1>4 DEF Waiting
<1>6. \A j, m \in DOMAIN t : t[j].conn = t[m].conn => j = m
  BY <1>2, <1>4 DEF Waiting
<1>7. \A j \in DOMAIN t : \A p \in P : t[j].conn # p.conn
  BY <1>3, <1>4 DEF Waiting
<1>8. \A d \in Conns : g[d] = "waiting" =>
        (\E j \in DOMAIN t : t[j].conn = d) \/ (\E p \in P : p.conn = d)
  <2> SUFFICES ASSUME NEW d \in Conns, g[d] = "waiting"
               PROVE  (\E j \in DOMAIN t : t[j].conn = d) \/ (\E p \in P : p.conn = d)
    OBVIOUS
  <2>1. CASE d = c
    BY <1>1, <2>1
  <2>2. CASE d # c
    <3>1. f[d] = "waiting"
      BY <2>2
    <3>2. DOMAIN s \subseteq DOMAIN t
      BY <1>1
    <3> HIDE DEF t
    <3> QED  BY <1>1, <3>1, <3>2 DEF Waiting
  <2> QED  BY <2>1, <2>2
<1> HIDE DEF t, g
<1>9. Waiting(t, P, g)
  BY <1>3, <1>5, <1>6, <1>7, <1>8 DEF Waiting
<1> QED  BY <1>9 DEF t, g

LEMMA WaitingPark ==
  ASSUME NEW s \in Seq(Entry), NEW P \in SUBSET [conn : Conns, age : 0..ClassifyTicks],
         NEW f \in [Conns -> Fates], Waiting(s, P, f),
         NEW c \in Conns, f[c] # "waiting"
  PROVE  Waiting(s, P \cup {[conn |-> c, age |-> 0]}, [f EXCEPT ![c] = "waiting"])
<1> DEFINE e == [conn |-> c, age |-> 0]
           R == P \cup {e}
           g == [f EXCEPT ![c] = "waiting"]
<1>1. \A j \in DOMAIN s : s[j].conn \in Conns /\ s[j].conn # c
  <2>1. \A j \in DOMAIN s : s[j] \in Entry
    OBVIOUS
  <2> QED  BY <2>1 DEF Entry, Waiting
<1>2. \A p \in P : p.conn # c /\ p.conn \in Conns
  BY DEF Waiting
<1>3. e \in R /\ e.conn = c /\ P \subseteq R /\ \A p \in R : p \in P \/ p = e
  OBVIOUS
<1>4. g[c] = "waiting" /\ \A d \in Conns : d # c => g[d] = f[d]
  OBVIOUS
<1> HIDE DEF e, R, g
<1>5. Waiting(s, R, g)
  <2>1. /\ \A i \in DOMAIN s : g[s[i].conn] = "waiting"
        /\ \A p \in R : g[p.conn] = "waiting"
    BY <1>1, <1>2, <1>3, <1>4 DEF Waiting
  <2>2. /\ \A i, j \in DOMAIN s : s[i].conn = s[j].conn => i = j
        /\ \A p, r \in R : p.conn = r.conn => p = r
        /\ \A i \in DOMAIN s : \A p \in R : s[i].conn # p.conn
    BY <1>1, <1>2, <1>3 DEF Waiting
  <2>3. \A d \in Conns : g[d] = "waiting" =>
          (\E i \in DOMAIN s : s[i].conn = d) \/ (\E p \in R : p.conn = d)
    BY <1>3, <1>4 DEF Waiting
  <2> QED  BY <2>1, <2>2, <2>3 DEF Waiting
<1> QED  BY <1>5 DEF e, R, g

LEMMA WaitingElsewhere ==
  ASSUME NEW s \in Seq(Entry), NEW P \in SUBSET [conn : Conns, age : 0..ClassifyTicks],
         NEW f \in [Conns -> Fates], Waiting(s, P, f),
         NEW c \in Conns, f[c] # "waiting", NEW x \in Fates, x # "waiting"
  PROVE  Waiting(s, P, [f EXCEPT ![c] = x])
<1>1. \A j \in DOMAIN s : s[j].conn \in Conns /\ s[j].conn # c
  <2>1. \A j \in DOMAIN s : s[j] \in Entry
    OBVIOUS
  <2> QED  BY <2>1 DEF Entry, Waiting
<1>2. \A p \in P : p.conn # c /\ p.conn \in Conns
  BY DEF Waiting
<1> QED  BY <1>1, <1>2 DEF Waiting

-----------------------------------------------------------------------------
(* The operators the handlers share.                                       *)

\* What each of them does to the ledgers, when c is not with a worker yet.
LedgerKept == Handed(known, held, done, fate) /\ LingerRefused /\ ActiveIsInFlight

LEMMA RefuseKeeps ==
  ASSUME Ownership, NEW c \in Conns, fate[c] \notin {"handed", "refused"},
         NEW r \in Reasons, Refuse(c, r),
         UNCHANGED <<known, held, done, active, assigned, completed, disp>>
  PROVE  LedgerKept' /\ fate' = [fate EXCEPT ![c] = "refused"]
<1>1. fate' = [fate EXCEPT ![c] = "refused"] /\ fate \in [Conns -> Fates]
  BY DEF Refuse, Ownership, TypeOK, HistoryType
<1>2. \A w \in Workers : held[w] \subseteq Conns /\ done[w] \subseteq Conns
  BY DEF Ownership, TypeOK, WorkerType
<1>3. Handed(known, held, done, fate)'
  BY <1>1, <1>2 DEF Handed, Ownership
<1>4. LingerRefused'
  <2>1. \A l \in linger : l.conn \in Conns
    BY DEF Ownership, TypeOK, CountType
  <2>2. linger' \subseteq linger \cup {[conn |-> c, age |-> 0]}
    BY DEF Refuse
  <2> QED  BY <1>1, <2>1, <2>2 DEF LingerRefused, Ownership
<1>5. ActiveIsInFlight'
  BY DEF ActiveIsInFlight, Ownership
<1> QED  BY <1>1, <1>3, <1>4, <1>5 DEF LedgerKept

LEMMA HandOverKeeps ==
  ASSUME Ownership, NEW c \in Conns, fate[c] \notin {"handed", "refused"},
         NEW w \in Workers, w \in known, active[w] < Slots, HandOver(w, c),
         UNCHANGED <<known, done, completed>>
  PROVE  LedgerKept' /\ fate' = [fate EXCEPT ![c] = "handed"]
<1>0. /\ fate \in [Conns -> Fates] /\ held \in [Workers -> SUBSET Conns]
      /\ done \in [Workers -> SUBSET Conns] /\ active \in [Workers -> Nat]
      /\ assigned \in [Workers -> Nat] /\ completed \in [Workers -> Nat]
      /\ disp \in [Workers -> Seq(0..ServiceCap)]
  BY DEF Ownership, TypeOK, HistoryType, WorkerType, LedgerType
<1>1. /\ fate' = [fate EXCEPT ![c] = "handed"]
      /\ held' = [held EXCEPT ![w] = @ \cup {c}]
      /\ active' = [active EXCEPT ![w] = @ + 1]
      /\ assigned' = [assigned EXCEPT ![w] = @ + 1]
      /\ linger' = linger
  BY DEF HandOver
<1>2. \A v \in Workers : c \notin held[v] \cup done[v]
  BY DEF Ownership, Handed
<1>3. Handed(known, held, done, fate)'
  <2> SUFFICES ASSUME NEW v \in Workers
               PROVE  /\ held'[v] \cap done[v] = {}
                      /\ v \notin known => held'[v] \cup done[v] = {}
                      /\ \A d \in held'[v] \cup done[v] :
                           fate'[d] = "handed"
                             /\ \A u \in Workers \ {v} : d \notin held'[u] \cup done[u]
    BY DEF Handed
  <2>1. held'[v] = IF v = w THEN held[w] \cup {c} ELSE held[v]
    BY <1>0, <1>1
  <2>2. \A u \in Workers : held'[u] = IF u = w THEN held[w] \cup {c} ELSE held[u]
    BY <1>0, <1>1
  <2>3. held'[v] \cap done[v] = {} /\ (v \notin known => held'[v] \cup done[v] = {})
    BY <1>2, <2>1 DEF Ownership, Handed
  <2>4. ASSUME NEW d \in held'[v] \cup done[v]
        PROVE  fate'[d] = "handed" /\ \A u \in Workers \ {v} : d \notin held'[u] \cup done[u]
    <3>1. CASE d = c
      BY <1>0, <1>1, <1>2, <2>1, <2>2, <3>1
    <3>2. CASE d # c
      <4>1. d \in held[v] \cup done[v] /\ d \in Conns
        BY <1>0, <2>1, <3>2
      <4>2. fate[d] = "handed" /\ \A u \in Workers \ {v} : d \notin held[u] \cup done[u]
        BY <4>1 DEF Ownership, Handed
      <4> QED  BY <1>0, <1>1, <2>2, <3>2, <4>1, <4>2
    <3> QED  BY <3>1, <3>2
  <2> QED  BY <2>3, <2>4
<1>4. LingerRefused'
  <2>1. \A l \in linger : l.conn \in Conns
    BY DEF Ownership, TypeOK, CountType
  <2> QED  BY <1>0, <1>1, <2>1 DEF LingerRefused, Ownership
<1>5. ActiveIsInFlight'
  <2> SUFFICES ASSUME NEW v \in known
               PROVE  /\ active'[v] = Cardinality(held'[v]) + Cardinality(done[v])
                      /\ active'[v] = assigned'[v] - completed[v]
                      /\ active'[v] <= Slots
                      /\ Len(disp'[v]) = active'[v]
    BY DEF ActiveIsInFlight
  <2>0. v \in Workers
    BY DEF Ownership, TypeOK, LedgerType
  <2>1. /\ active[v] = Cardinality(held[v]) + Cardinality(done[v])
        /\ active[v] = assigned[v] - completed[v] /\ active[v] <= Slots
        /\ Len(disp[v]) = active[v]
    BY DEF Ownership, ActiveIsInFlight
  <2>2. CASE v # w
    <3>1. disp'[v] = disp[v]
      BY <1>0, <2>0, <2>2 DEF HandOver
    <3> QED  BY <1>0, <1>1, <2>0, <2>1, <2>2, <3>1
  <2>3. CASE v = w
    <3>1. held'[w] = held[w] \cup {c} /\ c \notin held[w] /\ held[w] \in SUBSET Conns
      BY <1>0, <1>1, <1>2
    <3>2. Cardinality(held'[w]) = Cardinality(held[w]) + 1
      BY <3>1, Finite, FS_AddElement
    <3>3. disp'[w] = Append(disp[w], 0)
      <4>1. Len(disp[w]) < Slots + 1 /\ Len(disp[w]) \in Nat
        BY <1>0, <2>0, <2>1, <2>3
      <4>2. disp' = [disp EXCEPT ![w] =
                       IF Len(disp[w]) < Slots + 1 THEN Append(disp[w], 0) ELSE disp[w]]
        BY DEF HandOver
      <4> QED  BY <1>0, <4>1, <4>2
    <3>4. Len(disp'[w]) = Len(disp[w]) + 1
      <4>1. disp[w] \in Seq(0..ServiceCap) /\ 0 \in 0..ServiceCap
        BY <1>0
      <4> QED  BY <3>3, <4>1, AppendProperties
    <3>5. /\ active'[w] = active[w] + 1 /\ assigned'[w] = assigned[w] + 1
          /\ active[w] \in Nat /\ assigned[w] \in Nat /\ completed[w] \in Nat
          /\ Cardinality(held[w]) \in Nat /\ Cardinality(done[w]) \in Nat
      BY <1>0, <1>1, Finite
    <3>6. active'[w] = Cardinality(held'[w]) + Cardinality(done[w])
      BY <2>1, <2>3, <3>2, <3>5
    <3>7. active'[w] = assigned'[w] - completed[w] /\ active'[w] <= Slots
      <4>1. active[w] = assigned[w] - completed[w]
        BY <2>1, <2>3
      <4> QED  BY <4>1, <3>5, Slots \in Nat
    <3>8. Len(disp'[w]) = active'[w]
      BY <2>1, <2>3, <3>4, <3>5
    <3> QED  BY <2>3, <3>6, <3>7, <3>8
  <2> QED  BY <2>2, <2>3
<1> QED  BY <1>1, <1>3, <1>4, <1>5 DEF LedgerKept

\* An attempt to dispatch c to one of the least loaded workers with a slot.
LEMMA DispatchKeeps ==
  ASSUME Ownership, NEW c \in Conns, fate[c] \notin {"handed", "refused"},
         NEW lang \in Langs, NEW w \in GroupPick(lang), Dispatch(w, c),
         UNCHANGED <<known, done, completed>>
  PROVE  LedgerKept' /\ \E x \in {"handed", "refused"} : fate' = [fate EXCEPT ![c] = x]
<1>1. w \in Workers /\ w \in known /\ active[w] < Slots
  BY DEF GroupPick, Free, GroupLive, Ownership, TypeOK, LedgerType
<1>2. CASE HandOver(w, c)
  BY <1>1, <1>2, HandOverKeeps
<1>3. CASE RefuseOnly(c, HandoffFailed)
  BY <1>3, RefuseKeeps DEF RefuseOnly, Reasons
<1> QED  BY <1>2, <1>3 DEF Dispatch

\* Admission of c, which is in neither waiting set once it has left P.
LEMMA AdmitKeeps ==
  ASSUME Ownership, NEW c \in Conns, fate[c] \notin {"handed", "refused"},
         NEW lang \in Langs, Admit(c, lang), UNCHANGED <<known, done, completed>>,
         NEW P \in SUBSET [conn : Conns, age : 0..ClassifyTicks],
         Waiting(q, P, [fate EXCEPT ![c] = "backlog"])
  PROVE  LedgerKept' /\ Waiting(q', P, fate')
<1> DEFINE g == [fate EXCEPT ![c] = "backlog"]
<1>0. /\ fate \in [Conns -> Fates] /\ g \in [Conns -> Fates] /\ g[c] = "backlog"
      /\ q \in Seq(Entry) /\ \A x : [fate EXCEPT ![c] = x] = [g EXCEPT ![c] = x]
  BY DEF Ownership, TypeOK, HistoryType, WaitingType, Fates
<1>1. ASSUME q' = q, NEW x \in {"handed", "refused"}, fate' = [fate EXCEPT ![c] = x]
      PROVE  Waiting(q', P, fate')
  <2>1. /\ Waiting(q, P, g) /\ g[c] # "waiting" /\ x \in Fates /\ x # "waiting"
        /\ fate' = [g EXCEPT ![c] = x]
    BY <1>0, <1>1 DEF Fates
  <2>2. g \in [Conns -> Fates] /\ q \in Seq(Entry)
    BY <1>0
  <2> HIDE DEF g
  <2>3. Waiting(q, P, [g EXCEPT ![c] = x])
    BY <2>1, <2>2, WaitingElsewhere
  <2> QED  BY <1>1, <2>1, <2>3
<1>2. CASE q' = q /\ \E w \in GroupPick(lang) : Dispatch(w, c)
  BY <1>1, <1>2, DispatchKeeps
<1>3. CASE q' = q /\ RefuseOnly(c, AtCapacity)
  BY <1>1, <1>3, RefuseKeeps DEF RefuseOnly, Reasons
<1>4. CASE Enqueue(c, lang)
  <2>1. /\ q' = Append(q, [conn |-> c, lang |-> lang, age |-> 0])
        /\ fate' = [g EXCEPT ![c] = "waiting"]
    BY <1>0, <1>4 DEF Enqueue
  <2>2. Waiting(q', P, fate')
    <3>1. Waiting(q, P, g) /\ g[c] # "waiting"
      BY <1>0
    <3> HIDE DEF g
    <3>2. Waiting(Append(q, [conn |-> c, lang |-> lang, age |-> 0]), P,
                  [g EXCEPT ![c] = "waiting"])
      BY <1>0, <3>1, WaitingAppend
    <3> QED  BY <2>1, <3>2
  <2>3. Handed(known, held, done, fate)'
    <3>1. \A w \in Workers : held[w] \subseteq Conns /\ done[w] \subseteq Conns
      BY DEF Ownership, TypeOK, WorkerType
    <3>2. fate' = [fate EXCEPT ![c] = "waiting"] /\ UNCHANGED <<held, known, done>>
      BY <1>4 DEF Enqueue
    <3> QED  BY <1>0, <3>1, <3>2 DEF Handed, Ownership
  <2>4. LingerRefused' /\ ActiveIsInFlight'
    BY <1>0, <1>4 DEF Enqueue, LingerRefused, ActiveIsInFlight, Ownership, TypeOK, CountType
  <2> QED  BY <2>2, <2>3, <2>4 DEF LedgerKept
<1> QED  BY <1>2, <1>3, <1>4 DEF Admit

LEMMA RouteKeeps ==
  ASSUME Ownership, NEW c \in Conns, fate[c] \notin {"handed", "refused"},
         NEW class, Route(c, class), UNCHANGED <<known, done, completed>>,
         NEW P \in SUBSET [conn : Conns, age : 0..ClassifyTicks],
         Waiting(q, P, [fate EXCEPT ![c] = "backlog"])
  PROVE  LedgerKept' /\ Waiting(q', P, fate')
<1>1. CASE class # Unknown
  <2>1. (IF class \in Langs THEN class ELSE DefaultLang) \in Langs
    BY LangsAssumption
  <2> QED  BY <1>1, <2>1, AdmitKeeps DEF Route
<1>2. CASE class = Unknown
  <2> DEFINE g == [fate EXCEPT ![c] = "backlog"]
  <2>1. RefuseOnly(c, LanguageNotServed) /\ q' = q
    BY <1>2 DEF Route
  <2>2. LedgerKept' /\ fate' = [fate EXCEPT ![c] = "refused"]
    BY <2>1, RefuseKeeps DEF RefuseOnly, Reasons
  <2>3. /\ g \in [Conns -> Fates] /\ g[c] = "backlog" /\ q \in Seq(Entry)
        /\ fate' = [g EXCEPT ![c] = "refused"]
    BY <2>2 DEF Ownership, TypeOK, HistoryType, WaitingType, Fates
  <2>4. Waiting(q, P, [g EXCEPT ![c] = "refused"])
    BY <2>3, WaitingElsewhere DEF Fates
  <2> QED  BY <2>1, <2>2, <2>3, <2>4
<1> QED  BY <1>1, <1>2

\* A connection that is not with a worker changes its fate, and nothing else.
LEMMA FateKeeps ==
  ASSUME Ownership, NEW c \in Conns, fate[c] \notin {"handed", "refused"},
         NEW x, fate' = [fate EXCEPT ![c] = x],
         UNCHANGED <<known, held, done, linger, active, assigned, completed, disp>>
  PROVE  LedgerKept'
<1>1. \A w \in Workers : held[w] \subseteq Conns /\ done[w] \subseteq Conns
  BY DEF Ownership, TypeOK, WorkerType
<1>2. fate \in [Conns -> Fates] /\ \A l \in linger : l.conn \in Conns
  BY DEF Ownership, TypeOK, HistoryType, CountType
<1>3. Handed(known, held, done, fate)'
  BY <1>1, <1>2 DEF Handed, Ownership
<1>4. LingerRefused' /\ ActiveIsInFlight'
  BY <1>2 DEF LingerRefused, ActiveIsInFlight, Ownership
<1> QED  BY <1>3, <1>4 DEF LedgerKept

-----------------------------------------------------------------------------
(* The steps that touch the ledgers, one lemma each.                       *)

LEMMA OwnershipInit == Init => Ownership
<1> SUFFICES ASSUME Init PROVE Ownership
  OBVIOUS
<1>1. TypeOK
  BY TypeInit
<1>2. Waiting(q, pending, fate)
  BY DEF Init, Waiting
<1>3. Handed(known, held, done, fate)
  BY DEF Init, Handed
<1>4. LingerRefused /\ ActiveIsInFlight /\ Unforked
  BY DEF Init, LingerRefused, ActiveIsInFlight, Unforked
<1> QED  BY <1>1, <1>2, <1>3, <1>4 DEF Ownership

\* Nothing that Ownership speaks of changes, except that refusals stop lingering.
LEMMA OwnershipFrame ==
  ASSUME Ownership, TypeOK', pc' # "fork" \/ pc' = pc, linger' \subseteq linger,
         UNCHANGED <<q, pending, fate, known, held, done, active, assigned, completed, disp>>
  PROVE  Ownership'
<1>1. Waiting(q, pending, fate)' /\ Handed(known, held, done, fate)'
  BY DEF Ownership, Waiting, Handed
<1>2. LingerRefused' /\ ActiveIsInFlight' /\ Unforked'
  BY DEF Ownership, LingerRefused, ActiveIsInFlight, Unforked
<1> QED  BY <1>1, <1>2 DEF Ownership

LEMMA OwnershipFork ==
  ASSUME Ownership, TypeOK', NEW w \in Workers, Fork(w)
  PROVE  Ownership'
<1>1. /\ known' = known \cup {w} /\ pc = "fork"
      /\ UNCHANGED <<q, pending, fate, linger, held, done, active, assigned, completed, disp>>
  BY DEF Fork
<1>2. \A v \in Workers : /\ held[v] = {} /\ done[v] = {} /\ disp[v] = <<>>
                         /\ active[v] = 0 /\ assigned[v] = 0 /\ completed[v] = 0
  BY <1>1 DEF Ownership, Unforked
<1>3. Waiting(q, pending, fate)' /\ Handed(known, held, done, fate)' /\ LingerRefused'
  BY <1>1 DEF Ownership, Waiting, Handed, LingerRefused
<1>4. ActiveIsInFlight' /\ Unforked'
  <2>1. known' \subseteq Workers
    BY DEF TypeOK, LedgerType
  <2>2. Cardinality({}) = 0
    BY FS_EmptySet
  <2>3. \A v \in Workers : /\ Cardinality(held'[v]) = 0 /\ Cardinality(done'[v]) = 0
                           /\ active'[v] = 0 /\ assigned'[v] = 0 /\ completed'[v] = 0
                           /\ Len(disp'[v]) = 0
    BY <1>1, <1>2, <2>2
  <2>4. \A v \in Workers : /\ active'[v] = Cardinality(held'[v]) + Cardinality(done'[v])
                           /\ active'[v] = assigned'[v] - completed'[v]
                           /\ active'[v] <= Slots /\ Len(disp'[v]) = active'[v]
    BY <2>3
  <2>5. ActiveIsInFlight'
    BY <2>1, <2>4 DEF ActiveIsInFlight
  <2> QED  BY <1>1, <1>2, <2>5 DEF Unforked
<1> QED  BY <1>3, <1>4 DEF Ownership

LEMMA OwnershipPoll ==
  ASSUME Ownership, TypeOK', NEW elapsed \in BOOLEAN, Poll(elapsed)
  PROVE  Ownership'
<1>1. UNCHANGED <<fate, known, held, done, active, assigned, completed>> /\ pc' = "linger"
  BY DEF Poll, workerVars
<1>2. CASE ~elapsed
  BY <1>1, <1>2, OwnershipFrame DEF Poll
<1>3. CASE elapsed
  <2>1. /\ Len(q) \in Nat /\ DOMAIN q = 1..Len(q)
        /\ q' = [i \in 1..Len(q) |-> [conn |-> q[i].conn, lang |-> q[i].lang,
                                     age |-> Older(q[i].age, QDeadline)]]
    BY <1>3 DEF Poll, TimePasses, Ownership, TypeOK, WaitingType
  <2>2. DOMAIN q' = DOMAIN q /\ \A i \in DOMAIN q : q'[i].conn = q[i].conn
    BY <2>1
  <2>3. /\ \A p \in pending' : \E r \in pending :
             p = [conn |-> r.conn, age |-> Older(r.age, ClassifyTicks)]
        /\ \A r \in pending : [conn |-> r.conn, age |-> Older(r.age, ClassifyTicks)] \in pending'
    BY <1>3 DEF Poll, TimePasses
  <2>4. /\ \A p \in pending' : \E r \in pending : p.conn = r.conn
        /\ \A r \in pending : \E p \in pending' : p.conn = r.conn
    <3>1. ASSUME NEW p \in pending' PROVE \E r \in pending : p.conn = r.conn
      <4>1. PICK r \in pending : p = [conn |-> r.conn, age |-> Older(r.age, ClassifyTicks)]
        BY <2>3
      <4> QED  BY <4>1
    <3>2. ASSUME NEW r \in pending PROVE \E p \in pending' : p.conn = r.conn
      <4> DEFINE p == [conn |-> r.conn, age |-> Older(r.age, ClassifyTicks)]
      <4>1. p \in pending' /\ p.conn = r.conn
        BY <2>3
      <4> QED  BY <4>1
    <3> QED  BY <3>1, <3>2
  <2>5. \A p, r \in pending' : p.conn = r.conn => p = r
    BY <2>3 DEF Ownership, Waiting
  <2>6. Waiting(q', pending', fate)
    <3>1. /\ \A i, j \in DOMAIN q : q[i].conn = q[j].conn => i = j
          /\ \A i \in DOMAIN q : fate[q[i].conn] = "waiting"
          /\ \A p \in pending : fate[p.conn] = "waiting"
          /\ \A i \in DOMAIN q : \A p \in pending : q[i].conn # p.conn
          /\ \A c \in Conns : fate[c] = "waiting" =>
               (\E i \in DOMAIN q : q[i].conn = c) \/ (\E p \in pending : p.conn = c)
      BY DEF Ownership, Waiting
    <3>2. \A c \in Conns : fate[c] = "waiting" =>
            (\E i \in DOMAIN q' : q'[i].conn = c) \/ (\E p \in pending' : p.conn = c)
      BY <2>2, <2>4, <3>1
    <3>3. /\ \A i, j \in DOMAIN q' : q'[i].conn = q'[j].conn => i = j
          /\ \A i \in DOMAIN q' : fate[q'[i].conn] = "waiting"
      BY <2>2, <3>1
    <3>4. /\ \A p \in pending' : fate[p.conn] = "waiting"
          /\ \A i \in DOMAIN q' : \A p \in pending' : q'[i].conn # p.conn
      BY <2>2, <2>4, <3>1
    <3> QED  BY <2>5, <3>2, <3>3, <3>4 DEF Waiting
  <2>7. Handed(known, held, done, fate)'
    BY <1>1 DEF Ownership, Handed
  <2>8. LingerRefused'
    <3>1. linger' = {[conn |-> l.conn, age |-> Older(l.age, LingerTicks)] : l \in linger}
      BY <1>3 DEF Poll, TimePasses
    <3> QED  BY <1>1, <3>1 DEF Ownership, LingerRefused
  <2>9. ActiveIsInFlight'
    <3>1. \A w \in Workers : Len(disp'[w]) = Len(disp[w])
      <4> SUFFICES ASSUME NEW w \in Workers PROVE Len(disp'[w]) = Len(disp[w])
        OBVIOUS
      <4>1. disp[w] \in Seq(0..ServiceCap)
        BY DEF Ownership, TypeOK, LedgerType
      <4>2. disp'[w] = [i \in DOMAIN disp[w] |-> Older(disp[w][i], ServiceCap)]
        BY <1>3 DEF Poll, TimePasses
      <4>3. DOMAIN disp[w] = 1..Len(disp[w]) /\ Len(disp[w]) \in Nat
        BY <4>1
      <4> QED  BY <4>2, <4>3
    <3>2. known \subseteq Workers
      BY DEF Ownership, TypeOK, LedgerType
    <3> QED  BY <1>1, <3>1, <3>2 DEF Ownership, ActiveIsInFlight
  <2> QED  BY <1>1, <2>6, <2>7, <2>8, <2>9 DEF Ownership, Unforked
<1> QED  BY <1>2, <1>3

LEMMA OwnershipReadCompletions ==
  ASSUME Ownership, TypeOK', NEW w \in fired.chan, ReadCompletions(w)
  PROVE  Ownership'
<1>0. /\ w \in Workers /\ held \in [Workers -> SUBSET Conns] /\ done \in [Workers -> SUBSET Conns]
      /\ active \in [Workers -> Nat] /\ completed \in [Workers -> Nat]
      /\ assigned \in [Workers -> Nat] /\ disp \in [Workers -> Seq(0..ServiceCap)]
      /\ known \subseteq Workers
  BY DEF Ownership, TypeOK, LoopType, WorkerType, LedgerType
<1>1. /\ Cardinality(done[w]) \in Nat /\ Cardinality(done[w]) > 0
      /\ Cardinality(held[w]) \in Nat
  BY <1>0, Finite DEF ReadCompletions
<1>2. /\ UNCHANGED <<q, pending, fate, linger, known, held, assigned, pc>>
      /\ done' = [done EXCEPT ![w] = {}] /\ pc = "chan"
      /\ completed' = [completed EXCEPT ![w] = @ + Cardinality(done[w])]
  BY DEF ReadCompletions
<1>3. w \in known
  <2>1. done[w] # {}
    BY <1>1, FS_EmptySet
  <2> QED  BY <1>0, <2>1 DEF Ownership, Handed
<1>4. /\ active[w] = Cardinality(held[w]) + Cardinality(done[w])
      /\ active[w] = assigned[w] - completed[w] /\ active[w] <= Slots
      /\ Len(disp[w]) = active[w]
  BY <1>3 DEF Ownership, ActiveIsInFlight
<1>5. /\ active' = [active EXCEPT ![w] = @ - Cardinality(done[w])]
      /\ disp' = [disp EXCEPT ![w] = DispPop(disp[w], Cardinality(done[w]))]
  <2>1. ~(active[w] < Cardinality(done[w]))
    BY <1>1, <1>4
  <2>2. /\ active' = [active EXCEPT ![w] = IF active[w] < Cardinality(done[w]) THEN 0
                                           ELSE active[w] - Cardinality(done[w])]
        /\ disp' = [disp EXCEPT ![w] = IF active[w] < Cardinality(done[w]) THEN <<>>
                                       ELSE DispPop(disp[w], Cardinality(done[w]))]
    BY DEF ReadCompletions
  <2> QED  BY <2>1, <2>2
<1>6. Len(disp'[w]) = Len(disp[w]) - Cardinality(done[w])
  <2>1. disp'[w] = DispPop(disp[w], Cardinality(done[w])) /\ disp[w] \in Seq(0..ServiceCap)
    BY <1>0, <1>5
  <2>2. Cardinality(done[w]) <= Len(disp[w])
    BY <1>1, <1>4
  <2>3. Len(DispPop(disp[w], Cardinality(done[w]))) = Len(disp[w]) - Cardinality(done[w])
    BY <1>1, <2>1, <2>2, DispPopType
  <2> QED  BY <2>1, <2>3
<1>7. ActiveIsInFlight'
  <2> SUFFICES ASSUME NEW v \in known
               PROVE  /\ active'[v] = Cardinality(held[v]) + Cardinality(done'[v])
                      /\ active'[v] = assigned[v] - completed'[v]
                      /\ active'[v] <= Slots
                      /\ Len(disp'[v]) = active'[v]
    BY <1>2 DEF ActiveIsInFlight
  <2>1. CASE v # w
    BY <1>0, <1>2, <1>5, <2>1 DEF Ownership, ActiveIsInFlight
  <2>2. CASE v = w
    <3>1. /\ active'[w] = active[w] - Cardinality(done[w]) /\ done'[w] = {}
          /\ completed'[w] = completed[w] + Cardinality(done[w])
          /\ assigned[w] \in Nat /\ completed[w] \in Nat
      BY <1>0, <1>2, <1>5
    <3> QED  BY <1>1, <1>4, <1>6, <2>2, <3>1, FS_EmptySet
  <2> QED  BY <2>1, <2>2
<1>8. Handed(known, held, done, fate)'
  <2>1. \A v \in Workers : done'[v] \subseteq done[v]
    BY <1>0, <1>2
  <2> QED  BY <1>2, <2>1 DEF Ownership, Handed
<1>9. Waiting(q, pending, fate)' /\ LingerRefused' /\ Unforked'
  BY <1>2 DEF Ownership, Waiting, LingerRefused, Unforked
<1> QED  BY <1>7, <1>8, <1>9 DEF Ownership

LEMMA OwnershipWorkerLost ==
  ASSUME Ownership, TypeOK', NEW w \in fired.chan, WorkerLost(w)
  PROVE  Ownership'
<1>1. /\ UNCHANGED <<q, pending, fate, linger, done, assigned, completed, pc>>
      /\ done[w] = {} /\ pc = "chan" /\ known' = known \ {w}
      /\ held' = [held EXCEPT ![w] = {}] /\ active' = [active EXCEPT ![w] = 0]
      /\ disp' = [disp EXCEPT ![w] = <<>>]
  BY DEF WorkerLost
<1>2. /\ w \in Workers /\ held \in [Workers -> SUBSET Conns] /\ active \in [Workers -> Nat]
      /\ disp \in [Workers -> Seq(0..ServiceCap)] /\ known \subseteq Workers
  BY DEF Ownership, TypeOK, LoopType, WorkerType, LedgerType
<1>3. Handed(known, held, done, fate)'
  <2>1. \A v \in Workers : held'[v] \subseteq held[v] /\ (v \notin known' => held'[v] \cup done[v] = {})
    BY <1>1, <1>2 DEF Ownership, Handed
  <2> QED  BY <1>1, <2>1 DEF Ownership, Handed
<1>4. ActiveIsInFlight'
  BY <1>1, <1>2 DEF Ownership, ActiveIsInFlight
<1>5. Waiting(q, pending, fate)' /\ LingerRefused' /\ Unforked'
  BY <1>1 DEF Ownership, Waiting, LingerRefused, Unforked
<1> QED  BY <1>3, <1>4, <1>5 DEF Ownership

LEMMA OwnershipWatchdog ==
  ASSUME Ownership, TypeOK', Watchdog
  PROVE  Ownership'
<1>1. UNCHANGED <<q, pending, fate, linger, known, held, done, active, assigned, completed>>
      /\ pc' = "hup"
  BY DEF Watchdog, workerVars
<1>2. known \subseteq Workers
  BY DEF Ownership, TypeOK, LedgerType
<1>3. \A w \in Workers : Len(disp'[w]) = Len(disp[w])
  <2> SUFFICES ASSUME NEW w \in Workers PROVE Len(disp'[w]) = Len(disp[w])
    OBVIOUS
  <2>1. disp[w] \in Seq(0..ServiceCap)
    BY DEF Ownership, TypeOK, LedgerType
  <2>2. disp'[w] = IF w \in PastCap THEN [disp[w] EXCEPT ![1] = 0] ELSE disp[w]
    BY DEF Watchdog
  <2>3. Len([disp[w] EXCEPT ![1] = 0]) = Len(disp[w])
    BY <2>1
  <2> QED  BY <2>2, <2>3
<1>4. ActiveIsInFlight'
  BY <1>1, <1>2, <1>3 DEF Ownership, ActiveIsInFlight
<1>5. /\ Waiting(q, pending, fate)' /\ Handed(known, held, done, fate)'
      /\ LingerRefused' /\ Unforked'
  BY <1>1 DEF Ownership, Waiting, Handed, LingerRefused, Unforked
<1> QED  BY <1>4, <1>5 DEF Ownership

LEMMA OwnershipFinish ==
  ASSUME Ownership, TypeOK', NEW w \in Workers, NEW c \in Conns, Finish(w, c)
  PROVE  Ownership'
<1>1. /\ UNCHANGED <<q, pending, fate, linger, known, active, assigned, completed, disp, pc>>
      /\ c \in held[w]
      /\ held' = [held EXCEPT ![w] = @ \ {c}] /\ done' = [done EXCEPT ![w] = @ \cup {c}]
  BY DEF Finish, ledger
<1>2. /\ held \in [Workers -> SUBSET Conns] /\ done \in [Workers -> SUBSET Conns]
      /\ known \subseteq Workers
  BY DEF Ownership, TypeOK, WorkerType, LedgerType
<1>3. \A v \in Workers : /\ held'[v] \cup done'[v] = held[v] \cup done[v]
                         /\ held'[v] \cap done'[v] = {}
  BY <1>1, <1>2 DEF Ownership, Handed
<1>4. Handed(known, held, done, fate)'
  BY <1>1, <1>3 DEF Ownership, Handed
<1>5. \A v \in Workers : Cardinality(held'[v]) + Cardinality(done'[v])
                           = Cardinality(held[v]) + Cardinality(done[v])
  <2>1. /\ held'[w] = held[w] \ {c} /\ done'[w] = done[w] \cup {c}
        /\ c \in held[w] /\ c \notin done[w]
        /\ IsFiniteSet(held[w]) /\ IsFiniteSet(done[w])
    BY <1>1, <1>2, Finite DEF Ownership, Handed
  <2>2. /\ Cardinality(held'[w]) = Cardinality(held[w]) - 1
        /\ Cardinality(done'[w]) = Cardinality(done[w]) + 1
    <3>1. Cardinality(held[w] \ {c}) = Cardinality(held[w]) - 1
      BY <2>1, FS_RemoveElement
    <3>2. Cardinality(done[w] \cup {c}) = Cardinality(done[w]) + 1
      BY <2>1, FS_AddElement
    <3> QED  BY <2>1, <3>1, <3>2
  <2>3. Cardinality(held[w]) \in Nat /\ Cardinality(done[w]) \in Nat
    BY <2>1, FS_CardinalityType
  <2>4. \A v \in Workers : v # w => held'[v] = held[v] /\ done'[v] = done[v]
    BY <1>1, <1>2
  <2> QED  BY <2>2, <2>3, <2>4
<1>6. ActiveIsInFlight'
  BY <1>1, <1>2, <1>5 DEF Ownership, ActiveIsInFlight
<1>7. Waiting(q, pending, fate)' /\ LingerRefused' /\ Unforked'
  BY <1>1 DEF Ownership, Waiting, LingerRefused, Unforked
<1> QED  BY <1>4, <1>6, <1>7 DEF Ownership

\* An entry of the queue is waiting, so it is with no worker.
LEMMA EntryWaits ==
  ASSUME Ownership, NEW i \in DOMAIN q
  PROVE  /\ q[i].conn \in Conns /\ fate[q[i].conn] = "waiting"
         /\ q \in Seq(Entry) /\ fate \in [Conns -> Fates]
         /\ pending \in SUBSET [conn : Conns, age : 0..ClassifyTicks]
         /\ Waiting(q, pending, fate)
BY EntryAt DEF Ownership, Waiting, TypeOK, WaitingType, HistoryType

LEMMA PendingWaits ==
  ASSUME Ownership, NEW p \in pending
  PROVE  /\ p.conn \in Conns /\ fate[p.conn] = "waiting"
         /\ q \in Seq(Entry) /\ fate \in [Conns -> Fates]
         /\ pending \in SUBSET [conn : Conns, age : 0..ClassifyTicks]
         /\ Waiting(q, pending, fate)
BY DEF Ownership, Waiting, TypeOK, WaitingType, HistoryType

LEMMA OwnershipDropQueued ==
  ASSUME Ownership, TypeOK', NEW i \in DOMAIN q, DropQueued(i)
  PROVE  Ownership'
<1>1. /\ q' = QueueErase(q, i) /\ pending' = pending /\ pc' = pc /\ pc = "hup"
      /\ fate' = [fate EXCEPT ![q[i].conn] = "gone"]
      /\ UNCHANGED <<known, held, done, linger, active, assigned, completed, disp>>
  BY DEF DropQueued, DropAt, workerVars, ledger
<1>2. LedgerKept'
  BY <1>1, EntryWaits, FateKeeps
<1>3. Waiting(q, pending, fate)'
  <2>1. Waiting(QueueErase(q, i), pending, [fate EXCEPT ![q[i].conn] = "gone"])
    BY EntryWaits, WaitingErase DEF Fates
  <2> QED  BY <1>1, <2>1
<1> QED  BY <1>1, <1>2, <1>3 DEF Ownership, LedgerKept, Unforked

LEMMA OwnershipDrainRefuse ==
  ASSUME Ownership, TypeOK', NEW i \in DOMAIN q, DrainRefuse(i)
  PROVE  Ownership'
<1>1. /\ q' = QueueErase(q, i) /\ pending' = pending /\ pc' = pc /\ pc = "drain"
      /\ Refuse(q[i].conn, QueuedTooLong)
      /\ UNCHANGED <<known, held, done, active, assigned, completed, disp>>
  BY DEF DrainRefuse, workerVars, ledger
<1>2. LedgerKept' /\ fate' = [fate EXCEPT ![q[i].conn] = "refused"]
  BY <1>1, EntryWaits, RefuseKeeps DEF Reasons
<1>3. Waiting(q, pending, fate)'
  <2>1. Waiting(QueueErase(q, i), pending, [fate EXCEPT ![q[i].conn] = "refused"])
    BY EntryWaits, WaitingErase DEF Fates
  <2> QED  BY <1>1, <1>2, <2>1
<1> QED  BY <1>1, <1>2, <1>3 DEF Ownership, LedgerKept, Unforked

LEMMA OwnershipDrainDispatch ==
  ASSUME Ownership, TypeOK', NEW i \in DOMAIN q, DrainDispatch(i)
  PROVE  Ownership'
<1>1. /\ q' = QueueErase(q, i) /\ pending' = pending /\ pc' = pc /\ pc = "drain"
      /\ UNCHANGED <<known, done, completed>>
  BY DEF DrainDispatch
<1>2. PICK w \in GroupPick(q[i].lang) : Dispatch(w, q[i].conn)
  BY DEF DrainDispatch
<1>3. q[i].lang \in Langs
  BY EntryAt DEF Ownership
<1>4. LedgerKept' /\ \E x \in {"handed", "refused"} : fate' = [fate EXCEPT ![q[i].conn] = x]
  BY <1>1, <1>2, <1>3, EntryWaits, DispatchKeeps
<1>5. PICK x \in {"handed", "refused"} : fate' = [fate EXCEPT ![q[i].conn] = x]
  BY <1>4
<1>6. Waiting(QueueErase(q, i), pending, [fate EXCEPT ![q[i].conn] = x])
  BY EntryWaits, WaitingErase DEF Fates
<1>7. Waiting(q, pending, fate)'
  BY <1>1, <1>5, <1>6
<1> QED  BY <1>1, <1>4, <1>7 DEF Ownership, LedgerKept, Unforked

LEMMA OwnershipDecidePending ==
  ASSUME Ownership, TypeOK', NEW p \in pending, DecidePending(p)
  PROVE  Ownership'
<1> DEFINE class == IF Class(p.conn) = Undecided THEN Unnamed ELSE Class(p.conn)
<1>1. /\ pending' = pending \ {p} /\ pc' = pc /\ pc = "classify"
      /\ Route(p.conn, class) /\ UNCHANGED <<known, done, completed>>
  BY DEF DecidePending
<1>2. pending \ {p} \in SUBSET [conn : Conns, age : 0..ClassifyTicks]
  BY PendingWaits
<1>3. Waiting(q, pending \ {p}, [fate EXCEPT ![p.conn] = "backlog"])
  BY PendingWaits, WaitingDrop DEF Fates
<1> HIDE DEF class
<1>4. LedgerKept' /\ Waiting(q', pending \ {p}, fate')
  BY <1>1, <1>2, <1>3, PendingWaits, RouteKeeps
<1> QED  BY <1>1, <1>4 DEF Ownership, LedgerKept, Unforked

LEMMA OwnershipAccept ==
  ASSUME Ownership, TypeOK', NEW c \in Conns, Accept(c)
  PROVE  Ownership'
<1>1. /\ fate[c] = "backlog" /\ pc' = "poll" /\ UNCHANGED <<known, done, completed>>
      /\ fate \in [Conns -> Fates] /\ q \in Seq(Entry)
      /\ pending \in SUBSET [conn : Conns, age : 0..ClassifyTicks]
      /\ Waiting(q, pending, fate)
  BY DEF Accept, Ownership, TypeOK, HistoryType, WaitingType
<1>2. Waiting(q, pending, [fate EXCEPT ![c] = "backlog"])
  <2>1. [fate EXCEPT ![c] = "backlog"] = fate
    BY <1>1
  <2> QED  BY <1>1, <2>1
<1>3. ASSUME LedgerKept', Waiting(q', pending', fate') PROVE Ownership'
  BY <1>1, <1>3 DEF Ownership, LedgerKept, Unforked
<1>4. CASE UNCHANGED pending /\ \E class : Route(c, class)
  BY <1>1, <1>2, <1>3, <1>4, RouteKeeps
<1>5. CASE UNCHANGED pending /\ Admit(c, DefaultLang)
  BY <1>1, <1>2, <1>3, <1>5, AdmitKeeps, LangsAssumption
<1>6. CASE /\ pending' = pending \cup {[conn |-> c, age |-> 0]}
           /\ fate' = [fate EXCEPT ![c] = "waiting"]
           /\ UNCHANGED <<q, held, active, assigned, disp, linger>>
  <2>1. LedgerKept'
    BY <1>1, <1>6, FateKeeps
  <2>2. Waiting(q, pending \cup {[conn |-> c, age |-> 0]}, [fate EXCEPT ![c] = "waiting"])
    BY <1>1, WaitingPark
  <2> QED  BY <1>3, <1>6, <2>1, <2>2
<1> QED  BY <1>4, <1>5, <1>6 DEF Accept

LEMMA OwnershipShutdownQueued ==
  ASSUME Ownership, TypeOK', ShutdownQueued
  PROVE  Ownership'
<1>1. q \in Seq(Entry) /\ 1 \in DOMAIN q
  BY DEF ShutdownQueued, Ownership, TypeOK, WaitingType
<1>2. /\ q' = Tail(q) /\ pending' = pending /\ pc' = pc /\ pc = "shutdown"
      /\ fate' = [fate EXCEPT ![q[1].conn] = "refused"]
      /\ UNCHANGED <<known, held, done, linger, active, assigned, completed, disp>>
  BY DEF ShutdownQueued, RefuseAtShutdown, workerVars, ledger
<1>3. Tail(q) = QueueErase(q, 1)
  <2>1. /\ Tail(q) \in Seq(Entry) /\ Len(Tail(q)) = Len(q) - 1
        /\ \A j \in 1..Len(Tail(q)) : Tail(q)[j] = q[j + 1]
    BY <1>1, HeadTailProperties
  <2>2. /\ QueueErase(q, 1) \in Seq(Entry) /\ Len(QueueErase(q, 1)) = Len(q) - 1
        /\ \A j \in DOMAIN QueueErase(q, 1) :
             QueueErase(q, 1)[j] = q[IF j < 1 THEN j ELSE j + 1]
    BY <1>1, QueueEraseType
  <2>3. \A j \in 1..Len(Tail(q)) : Tail(q)[j] = QueueErase(q, 1)[j]
    BY <2>1, <2>2
  <2> QED  BY <2>1, <2>2, <2>3, SeqEqual
<1>4. LedgerKept'
  BY <1>1, <1>2, EntryWaits, FateKeeps
<1>5. Waiting(QueueErase(q, 1), pending, [fate EXCEPT ![q[1].conn] = "refused"])
  BY <1>1, EntryWaits, WaitingErase DEF Fates
<1>6. Waiting(q, pending, fate)'
  BY <1>2, <1>3, <1>5
<1> QED  BY <1>2, <1>4, <1>6 DEF Ownership, LedgerKept, Unforked

LEMMA OwnershipShutdownPending ==
  ASSUME Ownership, TypeOK', NEW p \in pending, ShutdownPending(p)
  PROVE  Ownership'
<1>1. /\ q' = q /\ pending' = pending \ {p} /\ pc' = pc /\ pc = "shutdown"
      /\ fate' = [fate EXCEPT ![p.conn] = "refused"]
      /\ UNCHANGED <<known, held, done, linger, active, assigned, completed, disp>>
  BY DEF ShutdownPending, RefuseAtShutdown, workerVars, ledger
<1>2. LedgerKept'
  BY <1>1, PendingWaits, FateKeeps
<1>3. Waiting(q, pending \ {p}, [fate EXCEPT ![p.conn] = "refused"])
  BY PendingWaits, WaitingDrop DEF Fates
<1> QED  BY <1>1, <1>2, <1>3 DEF Ownership, LedgerKept, Unforked

LEMMA OwnershipConnect ==
  ASSUME Ownership, TypeOK', NEW c \in Conns, Connect(c)
  PROVE  Ownership'
<1>1. /\ fate[c] = "idle" /\ pc' = pc /\ fate' = [fate EXCEPT ![c] = "backlog"]
      /\ UNCHANGED <<q, pending, known, held, done, linger, active, assigned, completed, disp>>
  BY DEF Connect, workerVars, ledger
<1>2. LedgerKept'
  BY <1>1, FateKeeps
<1>3. Waiting(q, pending, [fate EXCEPT ![c] = "backlog"])
  BY <1>1, WaitingElsewhere DEF Ownership, TypeOK, HistoryType, WaitingType, Fates
<1> QED  BY <1>1, <1>2, <1>3 DEF Ownership, LedgerKept, Unforked

LEMMA OwnershipStep ==
  ASSUME Ownership, [Next]_vars
  PROVE  Ownership'
<1>0. TypeOK'
  BY TypeStep DEF Ownership
<1>1. ASSUME \/ ForkFails \/ Lingers \/ CompletionsRead \/ HangupsDone \/ ClassifyDone
             \/ DrainDone \/ AcceptRetry \/ AcceptFails \/ LeaveLoop \/ Terminate \/ Reaped
             \/ PollFails
      PROVE  Ownership'
  <2>1. /\ pc' # "fork" \/ pc' = pc
        /\ linger' \subseteq linger
        /\ UNCHANGED <<q, pending, fate, known, held, done, active, assigned, completed, disp>>
    BY <1>1 DEF ForkFails, Lingers, CompletionsRead, HangupsDone, ClassifyDone, DrainDone,
       AcceptRetry, AcceptFails, LeaveLoop, PollFails, Terminate, Reaped, workerVars, ledger
  <2> QED  BY <1>0, <2>1, OwnershipFrame
<1>2. ASSUME \/ \E p \in pending : KeepPending(p)
             \/ \E c \in Conns : Send(c) \/ HangUp(c)
             \/ \E w \in Workers : Die(w)
             \/ Signal \/ UNCHANGED vars
      PROVE  Ownership'
  <2>1. UNCHANGED <<pc, linger, q, pending, fate, known, held, done, active, assigned,
                    completed, disp>>
    BY <1>2 DEF KeepPending, Send, HangUp, Die, Signal, vars, workerVars, ledger
  <2> QED  BY <1>0, <2>1, OwnershipFrame
<1>3. ASSUME NEW w \in Workers, Fork(w) \/ \E c \in Conns : Finish(w, c) PROVE Ownership'
  BY <1>0, <1>3, OwnershipFork, OwnershipFinish
<1>4. ASSUME NEW elapsed \in BOOLEAN, Poll(elapsed) PROVE Ownership'
  BY <1>0, <1>4, OwnershipPoll
<1>5. ASSUME NEW w \in fired.chan, ReadCompletions(w) \/ WorkerLost(w) PROVE Ownership'
  BY <1>0, <1>5, OwnershipReadCompletions, OwnershipWorkerLost
<1>6. ASSUME NEW i \in DOMAIN q, DropQueued(i) \/ DrainRefuse(i) \/ DrainDispatch(i)
      PROVE  Ownership'
  BY <1>0, <1>6, OwnershipDropQueued, OwnershipDrainRefuse, OwnershipDrainDispatch
<1>7. ASSUME NEW p \in pending, DecidePending(p) \/ ShutdownPending(p) PROVE Ownership'
  BY <1>0, <1>7, OwnershipDecidePending, OwnershipShutdownPending
<1>8. ASSUME NEW c \in Conns, Accept(c) \/ Connect(c) PROVE Ownership'
  BY <1>0, <1>8, OwnershipAccept, OwnershipConnect
<1>9. ASSUME Watchdog \/ ShutdownQueued PROVE Ownership'
  BY <1>0, <1>9, OwnershipWatchdog, OwnershipShutdownQueued
<1> QED
  BY <1>1, <1>2, <1>3, <1>4, <1>5, <1>6, <1>7, <1>8, <1>9
     DEF Next, RouterStep, Environment, Terminated

\* Ownership is an inductive invariant of the router.
THEOREM OwnershipInvariant == Spec => []Ownership
<1>1. Init => Ownership
  BY OwnershipInit
<1>2. Ownership /\ [Next]_vars => Ownership'
  BY OwnershipStep
<1> QED  BY <1>1, <1>2, PTL DEF Spec

\* The load every routing decision reads is what the worker really owes, and
\* no worker is ever given more than its slots.
THEOREM ActiveIsInFlightAlways == Spec => []ActiveIsInFlight
<1>1. Ownership => ActiveIsInFlight
  BY DEF Ownership
<1> QED  BY <1>1, OwnershipInvariant, PTL

LEMMA OwnershipImpliesOneOwner == Ownership => OneOwner
<1> SUFFICES ASSUME Ownership PROVE OneOwner
  OBVIOUS
<1>0. \A i \in DOMAIN q : q[i].conn \in Conns
  BY EntryWaits
<1>1. ASSUME NEW c \in Conns
      PROVE  Cardinality(InQueue(c)) + Cardinality({p \in pending : p.conn = c})
               = IF fate[c] = "waiting" THEN 1 ELSE 0
  <2> DEFINE Parked == {p \in pending : p.conn = c}
  <2>1. CASE fate[c] # "waiting"
    <3>1. InQueue(c) = {} /\ Parked = {}
      BY <2>1 DEF Ownership, Waiting, InQueue
    <3> HIDE DEF Parked
    <3>2. Cardinality(InQueue(c)) = 0 /\ Cardinality(Parked) = 0
      BY <3>1, FS_EmptySet
    <3> QED  BY <2>1, <3>2 DEF Parked
  <2>2. CASE fate[c] = "waiting" /\ \E i \in DOMAIN q : q[i].conn = c
    <3>1. PICK i \in DOMAIN q : q[i].conn = c
      BY <2>2
    <3>2. InQueue(c) = {i} /\ Parked = {}
      BY <3>1 DEF Ownership, Waiting, InQueue
    <3> HIDE DEF Parked
    <3>3. Cardinality(InQueue(c)) = 1 /\ Cardinality(Parked) = 0
      BY <3>2, FS_EmptySet, FS_Singleton
    <3> QED  BY <2>2, <3>3 DEF Parked
  <2>3. CASE fate[c] = "waiting" /\ \A i \in DOMAIN q : q[i].conn # c
    <3>1. PICK p \in pending : p.conn = c
      BY <2>3 DEF Ownership, Waiting
    <3>2. InQueue(c) = {} /\ Parked = {p}
      BY <2>3, <3>1 DEF Ownership, Waiting, InQueue
    <3> HIDE DEF Parked
    <3>3. Cardinality(InQueue(c)) = 0 /\ Cardinality(Parked) = 1
      BY <3>2, FS_EmptySet, FS_Singleton
    <3> QED  BY <2>3, <3>3 DEF Parked
  <2> QED  BY <2>1, <2>2, <2>3
<1>2. \A c \in ConnsIn(linger) : fate[c] = "refused"
  BY DEF ConnsIn, Ownership, LingerRefused
<1>3. \A w \in Workers :
        /\ held[w] \cap done[w] = {}
        /\ \A c \in held[w] \cup done[w] :
             fate[c] = "handed" /\ \A v \in Workers \ {w} : c \notin held[v] \cup done[v]
  BY DEF Ownership, Handed
<1> QED  BY <1>1, <1>2, <1>3 DEF OneOwner

\* Every connection the router accepted has exactly one owner.
THEOREM OneOwnerAlways == Spec => []OneOwner
<1>1. Ownership => OneOwner
  BY OwnershipImpliesOneOwner
<1> QED  BY <1>1, OwnershipInvariant, PTL

-----------------------------------------------------------------------------
(* What is promised to the clients.                                        *)

USE BoundsAreNat, LangsAssumption

\* A set of numbers that is not empty has a least one.
LEMMA LeastNumber ==
  ASSUME NEW T \in SUBSET Nat, T # {}
  PROVE  \E x \in T : \A y \in T : x <= y
<1> DEFINE R == OpToRel(<,Nat)
<1>1. IsWellFoundedOn(R, Nat)
  BY NatLessThanWellFounded
<1>2. \A x, y \in Nat : x < y => <<x, y>> \in R
  BY DEF OpToRel
<1> HIDE DEF R
<1>3. PICK x \in T : \A y \in T : ~(<<y, x>> \in R)
  BY <1>1, WFMin, T \subseteq Nat
<1>4. \A y \in T : ~(y < x)
  BY <1>2, <1>3
<1> QED  BY <1>3, <1>4

\* The types that the proofs below read one by one.
LEMMA Types ==
  ASSUME TypeOK
  PROVE  /\ fate \in [Conns -> Fates] /\ service \in [Conns -> 0..ServiceCap]
         /\ bytes \in [Conns -> Amounts]
         /\ held \in [Workers -> SUBSET Conns] /\ done \in [Workers -> SUBSET Conns]
         /\ known \subseteq Workers /\ active \in [Workers -> Nat]
         /\ disp \in [Workers -> Seq(0..ServiceCap)] /\ overCap \in [Workers -> Nat]
         /\ q \in Seq(Entry) /\ pending \subseteq [conn : Conns, age : 0..ClassifyTicks]
         /\ fired.chan \subseteq Workers
BY DEF TypeOK, ClientType, WorkerType, LoopType, WaitingType, LedgerType, HistoryType

LEMMA PickedIsFree ==
  ASSUME TypeOK, NEW lang, NEW w \in GroupPick(lang)
  PROVE  w \in Workers /\ w \in known /\ LangOf[w] = lang /\ active[w] < Slots
BY Types DEF GroupPick, Free, GroupLive

-----------------------------------------------------------------------------
(* The steps of the router as steps of ConnectionFate.                     *)

LEMMA InServiceKept ==
  ASSUME UNCHANGED <<known, held, done>>
  PROVE  InService' = InService
BY DEF InService

LEMMA HandOverHands ==
  ASSUME Ownership, NEW c \in Conns, fate[c] \in {"backlog", "waiting"},
         NEW lang, NEW w \in GroupPick(lang), HandOver(w, c),
         UNCHANGED <<gone, known, done>>
  PROVE  w \in Workers /\ Promise!Hand(c, w)
<1>0. TypeOK
  BY DEF Ownership
<1>1. w \in Workers /\ w \in known /\ active[w] < Slots
  BY <1>0, PickedIsFree
<1>2. InService[w] = held[w] \cup done[w]
  BY <1>1 DEF InService
<1>3. Cardinality(InService[w]) = active[w]
  <2>1. active[w] = Cardinality(held[w]) + Cardinality(done[w]) /\ held[w] \cap done[w] = {}
    BY <1>1 DEF Ownership, ActiveIsInFlight, Handed
  <2>2. /\ IsFiniteSet(held[w]) /\ IsFiniteSet(done[w])
        /\ Cardinality(held[w]) \in Nat /\ Cardinality(done[w]) \in Nat
    BY <1>0, <1>1, Types, Finite
  <2>3. Cardinality(held[w] \cup done[w])
          = Cardinality(held[w]) + Cardinality(done[w]) - Cardinality({})
    BY <2>1, <2>2, FS_Union
  <2>4. Cardinality({}) = 0
    BY FS_EmptySet
  <2> QED  BY <1>2, <2>1, <2>2, <2>3, <2>4
<1>4. fate' = [fate EXCEPT ![c] = "handed"] /\ held' = [held EXCEPT ![w] = held[w] \cup {c}]
  BY DEF HandOver
<1>5. InService' = [InService EXCEPT ![w] = InService[w] \cup {c}]
  <2>1. held \in [Workers -> SUBSET Conns]
    BY <1>0, Types
  <2>2. InService' = [v \in Workers |-> IF v \in known THEN held'[v] \cup done[v] ELSE {}]
    BY DEF InService
  <2>3. ASSUME NEW v \in Workers
        PROVE  (IF v \in known THEN held'[v] \cup done[v] ELSE {})
                 = IF v = w THEN InService[w] \cup {c} ELSE InService[v]
    <3>1. CASE v = w
      <4>1. held'[w] = held[w] \cup {c}
        BY <1>1, <1>4, <2>1
      <4> QED  BY <1>1, <1>2, <3>1, <4>1
    <3>2. CASE v # w
      <4>1. held'[v] = held[v]
        BY <1>4, <2>1, <3>2
      <4> QED  BY <3>2, <4>1 DEF InService
    <3> QED  BY <3>1, <3>2
  <2>4. InService = [v \in Workers |-> InService[v]]
    BY DEF InService
  <2> QED  BY <2>2, <2>3, <2>4
<1>6. Promise!Cardinality(InService[w]) = Cardinality(InService[w])
  BY Zenon DEF Promise!Cardinality, Cardinality
<1>7. Promise!Cardinality(InService[w]) < Slots /\ fate[c] \in Promise!Open
  BY <1>1, <1>3, <1>6 DEF Promise!Open
<1> HIDE DEF InService
<1>8. Promise!Hand(c, w)
  BY <1>4, <1>5, <1>7 DEF Promise!Hand
<1> QED  BY <1>1, <1>8

LEMMA DispatchHands ==
  ASSUME Ownership, NEW c \in Conns, fate[c] \in {"backlog", "waiting"},
         NEW lang, NEW w \in GroupPick(lang), Dispatch(w, c),
         UNCHANGED <<gone, known, done>>
  PROVE  Promise!Next
<1>1. CASE HandOver(w, c)
  <2>1. w \in Workers /\ Promise!Hand(c, w)
    BY <1>1, HandOverHands
  <2> QED  BY <2>1 DEF Promise!Next
<1>2. CASE RefuseOnly(c, HandoffFailed)
  <2>1. Promise!Refuse(c)
    BY <1>2, InServiceKept DEF RefuseOnly, Refuse, Promise!Refuse, Promise!Open
  <2> QED  BY <2>1 DEF Promise!Next
<1> QED  BY <1>1, <1>2 DEF Dispatch

LEMMA AdmitPromises ==
  ASSUME Ownership, NEW c \in Conns, fate[c] \in {"backlog", "waiting"},
         NEW lang, Admit(c, lang), UNCHANGED <<gone, known, done>>
  PROVE  Promise!Next
<1>1. CASE \E w \in GroupPick(lang) : Dispatch(w, c)
  BY <1>1, DispatchHands
<1>2. CASE Enqueue(c, lang)
  <2>1. Promise!Park(c)
    BY <1>2, InServiceKept DEF Enqueue, Promise!Park, Promise!Open
  <2> QED  BY <2>1 DEF Promise!Next
<1>3. CASE RefuseOnly(c, AtCapacity)
  <2>1. Promise!Refuse(c)
    BY <1>3, InServiceKept DEF RefuseOnly, Refuse, Promise!Refuse, Promise!Open
  <2> QED  BY <2>1 DEF Promise!Next
<1> QED  BY <1>1, <1>2, <1>3 DEF Admit

LEMMA RoutePromises ==
  ASSUME Ownership, NEW c \in Conns, fate[c] \in {"backlog", "waiting"},
         NEW class, Route(c, class), UNCHANGED <<gone, known, done>>
  PROVE  Promise!Next
<1>1. CASE RefuseOnly(c, LanguageNotServed)
  <2>1. Promise!Refuse(c)
    BY <1>1, InServiceKept DEF RefuseOnly, Refuse, Promise!Refuse, Promise!Open
  <2> QED  BY <2>1 DEF Promise!Next
<1>2. CASE Admit(c, IF class \in Langs THEN class ELSE DefaultLang)
  BY <1>2, AdmitPromises
<1> QED  BY <1>1, <1>2 DEF Route

\* A worker gives back a part, or all, of what it had.
LEMMA WorkerReleases ==
  ASSUME NEW w \in Workers, UNCHANGED <<fate, gone>>,
         \A v \in Workers \ {w} : InService'[v] = InService[v],
         InService'[w] \subseteq InService[w]
  PROVE  Promise!Next
<1> DEFINE new == InService'
<1>1. /\ InService = [v \in Workers |-> InService[v]]
      /\ new = [v \in Workers |-> new[v]]
  BY DEF InService
<1>2. new = [InService EXCEPT ![w] = new[w]]
  <2> HIDE DEF new
  <2>1. \A v \in Workers \ {w} : new[v] = InService[v]
    BY DEF new
  <2> QED  BY <1>1, <2>1
<1>3. Promise!Release(w)
  BY <1>2 DEF Promise!Release
<1> QED  BY <1>3 DEF Promise!Next

\* The positions poll() reported are of queued clients that hung up, as long as
\* the walk over them, from the back, is not through.
HupPhases == {"linger", "chan", "cap", "hup"}
HupFired ==
  /\ \A i \in fired.hup : i \in DOMAIN q /\ gone[q[i].conn]
  /\ pc \notin HupPhases => fired.hup = {}

LEMMA HupFiredStep ==
  ASSUME Ownership, HupFired, [Next]_vars
  PROVE  HupFired'
<1>0. /\ q \in Seq(Entry) /\ gone \in [Conns -> BOOLEAN]
      /\ fired \in [chan : SUBSET Workers, hup : SUBSET Nat,
                    pend : SUBSET Conns, listen : BOOLEAN]
      /\ \A i \in DOMAIN q : q[i].conn \in Conns
  BY EntryWaits DEF Ownership, TypeOK, ClientType, LoopType, WaitingType
<1>1. ASSUME fired'.hup = {} PROVE HupFired'
  BY <1>1 DEF HupFired
<1>2. ASSUME \/ LeaveLoop \/ PollFails \/ ClassifyDone \/ DrainDone \/ AcceptRetry
             \/ AcceptFails \/ Terminate \/ Reaped \/ ShutdownQueued \/ ForkFails
             \/ HangupsDone
             \/ (\E w \in Workers : Fork(w)) \/ (\E c \in Conns : Accept(c))
             \/ (\E p \in pending : KeepPending(p) \/ DecidePending(p) \/ ShutdownPending(p))
             \/ (\E i \in DOMAIN q : DrainRefuse(i) \/ DrainDispatch(i))
      PROVE  fired'.hup = {}
  <2>1. fired.hup = {}
    BY <1>2 DEF HupFired, HupPhases, LeaveLoop, PollFails, ClassifyDone, DrainDone,
       AcceptRetry, AcceptFails, Terminate, Reaped, ShutdownQueued, ForkFails, HangupsDone,
       Fork, Accept, KeepPending, DecidePending, ShutdownPending, DrainRefuse, DrainDispatch
  <2>2. fired' = fired \/ fired' = NoneFired \/ \E P : fired' = [fired EXCEPT !.pend = P]
    BY <1>2 DEF LeaveLoop, PollFails, ClassifyDone, DrainDone, AcceptRetry, AcceptFails,
       Terminate, Reaped, ShutdownQueued, RefuseAtShutdown, ForkFails, HangupsDone, Fork,
       Accept, KeepPending, DecidePending, ShutdownPending, DrainRefuse, DrainDispatch
  <2> QED  BY <1>0, <2>1, <2>2 DEF NoneFired
<1>3. ASSUME \/ Lingers \/ CompletionsRead \/ Watchdog
             \/ \E w \in fired.chan : ReadCompletions(w) \/ WorkerLost(w)
      PROVE  HupFired'
  <2>1. UNCHANGED <<q, gone>> /\ pc' \in HupPhases
    BY <1>3 DEF Lingers, CompletionsRead, Watchdog, ReadCompletions, WorkerLost, HupPhases,
       clientVars
  <2>2. fired' = fired \/ \E S : fired' = [fired EXCEPT !.chan = S]
    BY <1>3 DEF Lingers, CompletionsRead, Watchdog, ReadCompletions, WorkerLost
  <2>3. fired'.hup = fired.hup
    BY <1>0, <2>2
  <2> QED  BY <2>1, <2>3 DEF HupFired
<1>4. ASSUME \/ (\E c \in Conns : Connect(c) \/ Send(c) \/ \E w \in Workers : Finish(w, c))
             \/ (\E w \in Workers : Die(w)) \/ Signal \/ UNCHANGED vars
      PROVE  HupFired'
  <2>1. UNCHANGED <<pc, fired, q, gone>>
    BY <1>4 DEF Connect, Send, Finish, Die, Signal, vars, clientVars
  <2> QED  BY <2>1 DEF HupFired
<1>5. ASSUME NEW c \in Conns, HangUp(c) PROVE HupFired'
  <2>1. UNCHANGED <<pc, fired, q>> /\ gone' = [gone EXCEPT ![c] = TRUE]
    BY <1>5 DEF HangUp
  <2>2. \A d \in Conns : gone[d] => gone'[d]
    BY <1>0, <2>1
  <2> QED  BY <1>0, <2>1, <2>2 DEF HupFired
<1>6. ASSUME NEW elapsed \in BOOLEAN, Poll(elapsed) PROVE HupFired'
  <2>1. /\ fired'.hup = {i \in DOMAIN q : i <= QPollMax /\ gone[q[i].conn]}
        /\ gone' = gone /\ pc' = "linger"
    BY <1>6 DEF Poll, Readiness, clientVars
  <2>2. DOMAIN q' = DOMAIN q /\ \A i \in DOMAIN q : q'[i].conn = q[i].conn
    <3>1. DOMAIN q = 1..Len(q)
      BY <1>0
    <3> QED  BY <1>6, <3>1 DEF Poll, TimePasses
  <2> QED  BY <2>1, <2>2 DEF HupFired, HupPhases
<1>7. ASSUME NEW i \in DOMAIN q, DropQueued(i) PROVE HupFired'
  <2>1. /\ fired' = [fired EXCEPT !.hup = fired.hup \ {i}] /\ q' = QueueErase(q, i)
        /\ UNCHANGED <<pc, gone>> /\ pc = "hup" /\ \A j \in fired.hup : j <= i
    BY <1>7 DEF DropQueued, DropAt, clientVars
  <2>2. fired'.hup = fired.hup \ {i}
    BY <1>0, <2>1
  <2>3. /\ Len(q) \in Nat /\ DOMAIN q = 1..Len(q)
        /\ q' = [j \in 1..(Len(q) - 1) |-> IF j < i THEN q[j] ELSE q[j + 1]]
    BY <1>0, <2>1 DEF QueueErase
  <2>4. \A j \in fired.hup \ {i} : j \in DOMAIN q' /\ q'[j] = q[j]
    BY <2>1, <2>3 DEF HupFired
  <2> QED  BY <2>1, <2>2, <2>4 DEF HupFired, HupPhases
<1> QED
  BY <1>1, <1>2, <1>3, <1>4, <1>5, <1>6, <1>7 DEF Next, RouterStep, Environment, Terminated

LEMMA PromiseStep ==
  ASSUME Ownership, HupFired, [Next]_vars
  PROVE  Promise!Next \/ UNCHANGED <<fate, gone, InService>>
<1>0. TypeOK
  BY DEF Ownership
<1>1. ASSUME \/ ForkFails \/ Lingers \/ CompletionsRead \/ HangupsDone \/ ClassifyDone
             \/ DrainDone \/ AcceptRetry \/ AcceptFails \/ LeaveLoop \/ Terminate \/ Reaped
             \/ PollFails
             \/ Watchdog
      PROVE  UNCHANGED <<fate, gone, InService>>
  <2>1. UNCHANGED <<fate, gone, known, held, done>>
    BY <1>1 DEF ForkFails, Lingers, CompletionsRead, HangupsDone, ClassifyDone, DrainDone,
       AcceptRetry, AcceptFails, LeaveLoop, PollFails, Terminate, Reaped, Watchdog,
       clientVars, workerVars, ledger
  <2> QED  BY <2>1, InServiceKept
<1>2. ASSUME \/ \E p \in pending : KeepPending(p)
             \/ \E c \in Conns : Send(c)
             \/ \E w \in Workers : Die(w)
             \/ \E elapsed \in BOOLEAN : Poll(elapsed)
             \/ Signal \/ UNCHANGED vars
      PROVE  UNCHANGED <<fate, gone, InService>>
  <2>1. UNCHANGED <<fate, gone, known, held, done>>
    BY <1>2 DEF KeepPending, Send, Die, Signal, Poll, vars, clientVars, workerVars, ledger
  <2> QED  BY <2>1, InServiceKept
<1>3. ASSUME NEW w \in Workers, Fork(w) PROVE UNCHANGED <<fate, gone, InService>>
  <2>1. UNCHANGED <<fate, gone, held, done>> /\ \A v \in Workers : held[v] = {} /\ done[v] = {}
    BY <1>3 DEF Fork, clientVars, Ownership, Unforked
  <2> QED  BY <2>1 DEF InService
<1>4. ASSUME NEW w \in Workers, NEW c \in Conns, Finish(w, c)
      PROVE  UNCHANGED <<fate, gone, InService>>
  <2>1. /\ UNCHANGED <<fate, gone, known>> /\ c \in held[w]
        /\ held' = [held EXCEPT ![w] = held[w] \ {c}]
        /\ done' = [done EXCEPT ![w] = done[w] \cup {c}]
    BY <1>4 DEF Finish, clientVars, ledger
  <2>2. \A v \in Workers : held'[v] \cup done'[v] = held[v] \cup done[v]
    BY <1>0, <2>1, Types
  <2> QED  BY <2>1, <2>2 DEF InService
<1>5. ASSUME NEW w \in fired.chan, ReadCompletions(w) \/ WorkerLost(w) PROVE Promise!Next
  <2>0. w \in Workers /\ held \in [Workers -> SUBSET Conns] /\ done \in [Workers -> SUBSET Conns]
    BY <1>0, Types
  <2>1. CASE ReadCompletions(w)
    <3>1. UNCHANGED <<fate, gone, known, held>> /\ done' = [done EXCEPT ![w] = {}]
      BY <2>1 DEF ReadCompletions, clientVars
    <3>2. /\ \A v \in Workers \ {w} : InService'[v] = InService[v]
          /\ InService'[w] \subseteq InService[w]
      BY <2>0, <3>1 DEF InService
    <3> QED  BY <2>0, <3>1, <3>2, WorkerReleases
  <2>2. CASE WorkerLost(w)
    <3>1. /\ UNCHANGED <<fate, gone, done>> /\ known' = known \ {w}
          /\ held' = [held EXCEPT ![w] = {}]
      BY <2>2 DEF WorkerLost, clientVars
    <3>2. /\ \A v \in Workers \ {w} : InService'[v] = InService[v]
          /\ InService'[w] \subseteq InService[w]
      BY <2>0, <3>1 DEF InService
    <3> QED  BY <2>0, <3>1, <3>2, WorkerReleases
  <2> QED  BY <1>5, <2>1, <2>2
<1>6. ASSUME NEW i \in DOMAIN q, DropQueued(i) \/ DrainRefuse(i) \/ DrainDispatch(i)
      PROVE  Promise!Next
  <2>0. q[i].conn \in Conns /\ fate[q[i].conn] = "waiting"
    BY EntryWaits
  <2>1. CASE DropQueued(i)
    <3>1. gone[q[i].conn]
      BY <2>1 DEF DropQueued, HupFired
    <3>2. Promise!Leave(q[i].conn)
      BY <2>0, <2>1, <3>1, InServiceKept
         DEF DropQueued, DropAt, clientVars, workerVars, ledger, Promise!Leave
    <3> QED  BY <2>0, <3>2 DEF Promise!Next
  <2>2. CASE DrainRefuse(i)
    <3>1. Promise!Refuse(q[i].conn)
      BY <2>0, <2>2, InServiceKept
         DEF DrainRefuse, Refuse, clientVars, workerVars, ledger, Promise!Refuse, Promise!Open
    <3> QED  BY <2>0, <3>1 DEF Promise!Next
  <2>3. CASE DrainDispatch(i)
    <3>1. PICK w \in GroupPick(q[i].lang) : Dispatch(w, q[i].conn)
      BY <2>3 DEF DrainDispatch
    <3>2. UNCHANGED <<gone, known, done>>
      BY <2>3 DEF DrainDispatch, clientVars
    <3> QED  BY <2>0, <3>1, <3>2, DispatchHands
  <2> QED  BY <1>6, <2>1, <2>2, <2>3
<1>7. ASSUME NEW p \in pending, DecidePending(p) PROVE Promise!Next
  <2>1. p.conn \in Conns /\ fate[p.conn] = "waiting"
    BY PendingWaits
  <2>2. (\E class : Route(p.conn, class)) /\ UNCHANGED <<gone, known, done>>
    BY <1>7 DEF DecidePending, clientVars
  <2> QED  BY <2>1, <2>2, RoutePromises
<1>8. ASSUME NEW p \in pending, ShutdownPending(p) PROVE Promise!Next
  <2>1. p.conn \in Conns /\ fate[p.conn] = "waiting"
    BY PendingWaits
  <2>2. Promise!Refuse(p.conn)
    BY <1>8, <2>1, InServiceKept
       DEF ShutdownPending, RefuseAtShutdown, clientVars, workerVars, ledger,
           Promise!Refuse, Promise!Open
  <2> QED  BY <2>1, <2>2 DEF Promise!Next
<1>9. ASSUME ShutdownQueued PROVE Promise!Next
  <2>0. 1 \in DOMAIN q
    BY <1>0, <1>9, Types DEF ShutdownQueued
  <2>1. q[1].conn \in Conns /\ fate[q[1].conn] = "waiting"
    BY <2>0, EntryWaits
  <2>2. Promise!Refuse(q[1].conn)
    BY <1>9, <2>1, InServiceKept
       DEF ShutdownQueued, RefuseAtShutdown, clientVars, workerVars, ledger,
           Promise!Refuse, Promise!Open
  <2> QED  BY <2>1, <2>2 DEF Promise!Next
<1>10. ASSUME NEW c \in Conns, Connect(c) PROVE Promise!Next
  <2>1. Promise!Arrive(c)
    BY <1>10, InServiceKept DEF Connect, clientVars, workerVars, ledger, Promise!Arrive
  <2> QED  BY <2>1 DEF Promise!Next
<1>11. ASSUME NEW c \in Conns, Accept(c) PROVE Promise!Next
  <2>1. fate[c] = "backlog" /\ UNCHANGED <<gone, known, done>>
    BY <1>11 DEF Accept, clientVars
  <2>2. CASE \E class : Route(c, class)
    BY <2>1, <2>2, RoutePromises
  <2>3. CASE Admit(c, DefaultLang)
    BY <2>1, <2>3, AdmitPromises
  <2>4. CASE fate' = [fate EXCEPT ![c] = "waiting"] /\ UNCHANGED held
    <3>1. Promise!Park(c)
      BY <2>1, <2>4, InServiceKept DEF Promise!Park, Promise!Open
    <3> QED  BY <3>1 DEF Promise!Next
  <2> QED  BY <1>11, <2>2, <2>3, <2>4 DEF Accept
<1>12. ASSUME NEW c \in Conns, HangUp(c) PROVE Promise!Next
  <2>1. Promise!HangUp(c)
    BY <1>12, InServiceKept DEF HangUp, workerVars, ledger, Promise!HangUp, Promise!Open
  <2> QED  BY <2>1 DEF Promise!Next
<1> QED
  BY <1>1, <1>2, <1>3, <1>4, <1>5, <1>6, <1>7, <1>8, <1>9, <1>10, <1>11, <1>12
     DEF Next, RouterStep, Environment, Terminated

\* The router implements the promise of ConnectionFate: each connection is
\* handed over within the capacity of a worker, refused, or dropped because its
\* client hung up, and that once; the positions poll() reported never drop another.
THEOREM RouterImplementsPromise == Spec => ImplementsPromise
<1>1. Init => Promise!Init
  BY DEF Init, Promise!Init, InService
<1>2. Ownership /\ HupFired /\ [Next]_vars => [Promise!Next]_<<fate, gone, InService>>
  BY PromiseStep
<1>3. Init => HupFired
  BY DEF Init, HupFired, NoneFired
<1>4. Ownership /\ HupFired /\ [Next]_vars => HupFired'
  BY HupFiredStep
<1> QED
  BY <1>1, <1>2, <1>3, <1>4, OwnershipInvariant, PTL
     DEF Spec, ImplementsPromise, Promise!Spec

-----------------------------------------------------------------------------
(* Nobody overtakes: only Admit and DrainDispatch hand a connection over.  *)

\* c goes to w, and nobody of its group is queued ahead of it.
LEMMA HandOverGivesOne ==
  ASSUME TypeOK, NEW c, NEW w \in Workers, HandOver(w, c),
         NEW d, NEW v \in Workers, d \in held'[v], d \notin held[v]
  PROVE  d = c /\ v = w
BY Types DEF HandOver

Overtaken(c, w, i) == c \in held'[w] /\ fate[c] # "handed" /\ q[i].lang = LangOf[w]
                        /\ \A j \in 1..i : q[j].conn # c

LEMMA AdmitOvertakesNobody ==
  ASSUME Ownership, NEW lang, NEW c, Admit(c, lang),
         NEW d \in Conns, NEW v \in Workers, NEW i \in DOMAIN q
  PROVE  ~Overtaken(d, v, i)
<1> SUFFICES ASSUME Overtaken(d, v, i) PROVE FALSE
  OBVIOUS
<1>0. TypeOK /\ d \notin held[v] /\ d \in held'[v]
  BY DEF Overtaken, Ownership, Handed
<1>1. PICK w \in GroupPick(lang) : HandOver(w, c) /\ GroupQueued(lang) = {}
  BY <1>0 DEF Admit, Dispatch, RefuseOnly, Enqueue
<1>2. v = w /\ LangOf[w] = lang
  BY <1>0, <1>1, PickedIsFree, HandOverGivesOne
<1> QED  BY <1>1, <1>2 DEF Overtaken, GroupQueued

LEMMA OvertakingStep ==
  ASSUME Ownership, [Next]_vars,
         NEW c \in Conns, NEW w \in Workers, NEW i \in DOMAIN q
  PROVE  ~Overtaken(c, w, i)
<1> SUFFICES ASSUME Overtaken(c, w, i) PROVE FALSE
  OBVIOUS
<1>0. /\ TypeOK /\ c \in held'[w] /\ c \notin held[w]
      /\ held \in [Workers -> SUBSET Conns]
  BY Types DEF Overtaken, Ownership, Handed
<1>1. ASSUME \/ ForkFails \/ Lingers \/ CompletionsRead \/ HangupsDone \/ ClassifyDone
             \/ DrainDone \/ AcceptRetry \/ AcceptFails \/ LeaveLoop \/ Terminate \/ Reaped
             \/ PollFails
             \/ Watchdog \/ ShutdownQueued \/ Signal \/ UNCHANGED vars
             \/ (\E p \in pending : KeepPending(p) \/ ShutdownPending(p))
             \/ (\E d \in Conns : Connect(d) \/ Send(d) \/ HangUp(d))
             \/ (\E v \in Workers : Die(v) \/ Fork(v))
             \/ (\E elapsed \in BOOLEAN : Poll(elapsed))
             \/ (\E v \in fired.chan : ReadCompletions(v))
             \/ (\E k \in DOMAIN q : DropQueued(k) \/ DrainRefuse(k))
      PROVE  FALSE
  <2>1. UNCHANGED held
    BY <1>1 DEF ForkFails, Lingers, CompletionsRead, HangupsDone, ClassifyDone, DrainDone,
       AcceptRetry, AcceptFails, LeaveLoop, PollFails, Terminate, Reaped, Watchdog,
       ShutdownQueued, RefuseAtShutdown, Signal, KeepPending, ShutdownPending, Connect, Send, HangUp, Die,
       Fork, Poll, ReadCompletions, DropQueued, DropAt, DrainRefuse, vars, workerVars, ledger
  <2> QED  BY <1>0, <2>1
<1>2. ASSUME NEW v \in Workers, NEW d \in Conns, Finish(v, d) PROVE FALSE
  BY <1>0, <1>2 DEF Finish
<1>3. ASSUME NEW v \in fired.chan, WorkerLost(v) PROVE FALSE
  BY <1>0, <1>3 DEF WorkerLost
<1>4. ASSUME NEW p \in pending, DecidePending(p) PROVE FALSE
  <2>1. PICK class : Route(p.conn, class)
    BY <1>4 DEF DecidePending
  <2>2. \E lang : Admit(p.conn, lang)
    BY <1>0, <2>1 DEF Route, RefuseOnly
  <2> QED  BY <2>2, AdmitOvertakesNobody
<1>5. ASSUME NEW d \in Conns, Accept(d) PROVE FALSE
  <2>1. \E lang : Admit(d, lang)
    BY <1>0, <1>5 DEF Accept, Route, RefuseOnly
  <2> QED  BY <2>1, AdmitOvertakesNobody
<1>6. ASSUME NEW k \in DOMAIN q, DrainDispatch(k) PROVE FALSE
  <2>1. PICK v \in GroupPick(q[k].lang) : Dispatch(v, q[k].conn)
    BY <1>6 DEF DrainDispatch
  <2>2. HandOver(v, q[k].conn) /\ v \in Workers /\ LangOf[v] = q[k].lang
    BY <1>0, <2>1, PickedIsFree DEF Dispatch, RefuseOnly
  <2>3. c = q[k].conn /\ w = v
    BY <1>0, <2>2, HandOverGivesOne
  <2>4. k \in Nat /\ i \in Nat /\ i >= 1 /\ k >= 1
    <3>1. q \in Seq(Entry)
      BY <1>0, Types
    <3> QED  BY <3>1
  <2>5. CASE i < k
    <3>1. i \in 1..(k - 1)
      BY <2>4, <2>5
    <3> QED  BY <1>6, <2>2, <2>3, <3>1 DEF DrainDispatch, IsHead, Overtaken
  <2>6. CASE k <= i
    <3>1. k \in 1..i
      BY <2>4, <2>6
    <3> QED  BY <2>3, <3>1 DEF Overtaken
  <2> QED  BY <2>4, <2>5, <2>6
<1> QED
  BY <1>1, <1>2, <1>3, <1>4, <1>5, <1>6 DEF Next, RouterStep, Environment, Terminated

\* A connection handed to a worker had nobody of its group queued ahead of it.
THEOREM NobodyOvertakes == Spec => NoOvertaking
<1>1. ASSUME Ownership, [Next]_vars
      PROVE  \A c \in Conns, w \in Workers, i \in DOMAIN q :
               c \in held'[w] /\ fate[c] # "handed" /\ q[i].lang = LangOf[w]
                 => \E j \in 1..i : q[j].conn = c
  <2> SUFFICES ASSUME NEW c \in Conns, NEW w \in Workers, NEW i \in DOMAIN q,
                      c \in held'[w], fate[c] # "handed", q[i].lang = LangOf[w]
               PROVE  \E j \in 1..i : q[j].conn = c
    OBVIOUS
  <2> QED  BY <1>1, OvertakingStep DEF Overtaken
<1> QED  BY <1>1, OwnershipInvariant, PTL DEF Spec, NoOvertaking

-----------------------------------------------------------------------------
(* The language a connection is queued under, and the one it is served in. *)

\* c may be routed as lang: it has named it, or it has named none.
MayServe(c, lang) == /\ bytes[c] # Unknown
                     /\ lang = IF bytes[c] \in Langs THEN bytes[c] ELSE DefaultLang

Named == \A i \in DOMAIN q : MayServe(q[i].conn, q[i].lang)

\* A fleet of one language reads no request.
Unread == Langs = {DefaultLang} => \A c \in Conns : bytes[c] = "none"

NamedRight == Ownership /\ Unread /\ Named /\ RightLanguage

\* What the loop may route c as: its class, or unnamed when it has none yet, or
\* when nobody looks.
Routable(c, class) ==
  \/ class = Class(c) /\ class # Undecided
  \/ class = Unnamed /\ (Class(c) = Undecided \/ Langs = {DefaultLang})

LEMMA ClassIsNamed ==
  ASSUME NamedRight, NEW c \in Conns, NEW class, Routable(c, class), class # Unknown
  PROVE  MayServe(c, IF class \in Langs THEN class ELSE DefaultLang)
<1>1. bytes[c] \in {"none", "partial"} \cup Wants
  BY Types DEF NamedRight, Ownership, Amounts
<1>2. CASE class = Class(c) /\ class # Undecided
  BY <1>1, <1>2 DEF Class, MayServe, Unnamed, Unknown, Undecided
<1>3. CASE class = Unnamed /\ Class(c) = Undecided
  BY <1>1, <1>3 DEF Class, MayServe, Unnamed, Unknown, Undecided
<1>4. CASE class = Unnamed /\ Langs = {DefaultLang}
  BY <1>4 DEF NamedRight, Unread, MayServe, Unnamed, Unknown
<1> QED  BY <1>2, <1>3, <1>4 DEF Routable

LEMMA HandOverRight ==
  ASSUME NamedRight, NEW c \in Conns, NEW lang, MayServe(c, lang),
         NEW w \in GroupPick(lang), Dispatch(w, c), UNCHANGED <<bytes, done>>
  PROVE  RightLanguage'
<1>0. TypeOK
  BY DEF NamedRight, Ownership
<1>1. CASE UNCHANGED held
  BY <1>1 DEF RightLanguage, NamedRight
<1>2. CASE HandOver(w, c)
  <2> SUFFICES ASSUME NEW v \in Workers, NEW d \in held'[v] \cup done[v]
               PROVE  MayServe(d, LangOf[v])
    BY DEF RightLanguage, MayServe
  <2>1. CASE d \in held[v] \cup done[v]
    BY <2>1 DEF NamedRight, RightLanguage, MayServe
  <2>2. CASE d \notin held[v] \cup done[v]
    <3>1. w \in Workers /\ LangOf[w] = lang
      BY <1>0, PickedIsFree
    <3>2. d = c /\ v = w
      BY <1>0, <1>2, <2>2, <3>1, HandOverGivesOne
    <3> QED  BY <3>1, <3>2
  <2> QED  BY <2>1, <2>2
<1> QED  BY <1>1, <1>2 DEF Dispatch, RefuseOnly

LEMMA AdmitRight ==
  ASSUME NamedRight, NEW c \in Conns, NEW lang, MayServe(c, lang), Admit(c, lang),
         UNCHANGED <<bytes, done>>
  PROVE  Named' /\ RightLanguage'
<1>1. CASE q' = q /\ \E w \in GroupPick(lang) : Dispatch(w, c)
  BY <1>1, HandOverRight DEF NamedRight, Named, MayServe
<1>2. CASE Enqueue(c, lang)
  <2>1. RightLanguage'
    BY <1>2 DEF Enqueue, RightLanguage, NamedRight
  <2> DEFINE e == [conn |-> c, lang |-> lang, age |-> 0]
  <2>2. q' = Append(q, e) /\ q \in Seq(Entry)
    BY <1>2, Types DEF Enqueue, NamedRight, Ownership
  <2>3. /\ \A i \in DOMAIN q' : i \in DOMAIN q \/ i = Len(q) + 1
        /\ \A i \in DOMAIN q : q'[i] = q[i]
        /\ q'[Len(q) + 1] = e
    BY <2>2
  <2>4. e.lang = lang /\ e.conn = c
    OBVIOUS
  <2> HIDE DEF e
  <2>5. Named'
    BY <2>3, <2>4 DEF Named, NamedRight, MayServe
  <2> QED  BY <2>1, <2>5
<1>3. CASE q' = q /\ RefuseOnly(c, AtCapacity)
  BY <1>3 DEF RefuseOnly, NamedRight, Named, MayServe, RightLanguage
<1> QED  BY <1>1, <1>2, <1>3 DEF Admit

LEMMA RouteRight ==
  ASSUME NamedRight, NEW c \in Conns, NEW class, Routable(c, class),
         Route(c, class), UNCHANGED <<bytes, done>>
  PROVE  Named' /\ RightLanguage'
<1>1. CASE q' = q /\ RefuseOnly(c, LanguageNotServed)
  BY <1>1 DEF RefuseOnly, NamedRight, Named, MayServe, RightLanguage
<1>2. CASE class # Unknown /\ Admit(c, IF class \in Langs THEN class ELSE DefaultLang)
  <2> DEFINE lang == IF class \in Langs THEN class ELSE DefaultLang
  <2>1. MayServe(c, lang) /\ Admit(c, lang)
    BY <1>2, ClassIsNamed
  <2> HIDE DEF lang
  <2> QED  BY <2>1, AdmitRight
<1> QED  BY <1>1, <1>2 DEF Route

\* Only a client changes what it has sent, and only where it is read.
LEMMA UnreadStep ==
  ASSUME TypeOK, Unread, [Next]_vars
  PROVE  Unread'
<1>1. UNCHANGED bytes \/ \E c \in Conns : Send(c)
  BY DEF Next, RouterStep, Environment, Terminated, Poll, PollFails, ForkFails, Fork, Lingers,
     CompletionsRead, Watchdog, HangupsDone, ClassifyDone, DrainDone, AcceptRetry, AcceptFails,
     ReadCompletions, WorkerLost, DropQueued, DropAt, DrainRefuse, DrainDispatch, KeepPending,
     DecidePending, Accept, LeaveLoop, ShutdownQueued, Terminate, Reaped, ShutdownPending,
     RefuseAtShutdown, Connect, HangUp, Die, Finish, Signal, vars, clientVars
<1> QED  BY <1>1 DEF Unread, Send

LEMMA EraseNamed ==
  ASSUME NamedRight, NEW i \in DOMAIN q, q' = QueueErase(q, i), UNCHANGED bytes
  PROVE  Named'
<1>1. q \in Seq(Entry)
  BY Types DEF NamedRight, Ownership
<1>2. \A j \in DOMAIN q' : \E k \in DOMAIN q : q'[j] = q[k]
  <2>1. /\ Len(q) \in Nat /\ DOMAIN q = 1..Len(q) /\ DOMAIN q' = 1..(Len(q) - 1)
        /\ \A j \in DOMAIN q' : q'[j] = q[IF j < i THEN j ELSE j + 1]
    BY <1>1, QueueEraseType
  <2>2. \A j \in DOMAIN q' : (IF j < i THEN j ELSE j + 1) \in DOMAIN q
    BY <2>1
  <2> QED  BY <2>1, <2>2
<1> QED  BY <1>2 DEF NamedRight, Named, MayServe

LEMMA NamedRightStep ==
  ASSUME NamedRight, [Next]_vars
  PROVE  NamedRight'
<1>0. /\ Ownership' /\ Ownership /\ TypeOK
      /\ held \in [Workers -> SUBSET Conns] /\ done \in [Workers -> SUBSET Conns]
  BY OwnershipStep, Types DEF NamedRight, Ownership
<1>1. ASSUME \/ ForkFails \/ Lingers \/ CompletionsRead \/ HangupsDone \/ ClassifyDone
             \/ DrainDone \/ AcceptRetry \/ AcceptFails \/ LeaveLoop \/ Terminate \/ Reaped
             \/ PollFails
             \/ Watchdog \/ Signal \/ UNCHANGED vars
             \/ (\E p \in pending : KeepPending(p) \/ ShutdownPending(p))
             \/ (\E d \in Conns : Connect(d) \/ HangUp(d))
             \/ (\E v \in Workers : Die(v) \/ Fork(v))
      PROVE  Named' /\ RightLanguage'
  <2>1. UNCHANGED <<bytes, held, done, q>>
    BY <1>1 DEF ForkFails, Lingers, CompletionsRead, HangupsDone, ClassifyDone, DrainDone,
       AcceptRetry, AcceptFails, LeaveLoop, PollFails, Terminate, Reaped, Watchdog,
       ShutdownPending, RefuseAtShutdown, Signal, KeepPending, Connect, HangUp, Die,
       Fork, vars, workerVars, clientVars, ledger
  <2> QED  BY <2>1 DEF NamedRight, Named, MayServe, RightLanguage
<1>2. ASSUME NEW elapsed \in BOOLEAN, Poll(elapsed) PROVE Named' /\ RightLanguage'
  <2>1. UNCHANGED <<bytes, held, done>>
    BY <1>2 DEF Poll, clientVars, workerVars
  <2>2. /\ DOMAIN q' = DOMAIN q
        /\ \A i \in DOMAIN q : q'[i].conn = q[i].conn /\ q'[i].lang = q[i].lang
    <3>1. q \in Seq(Entry) /\ DOMAIN q = 1..Len(q)
      BY <1>0, Types
    <3> QED  BY <1>2, <3>1 DEF Poll, TimePasses
  <2> QED  BY <2>1, <2>2 DEF NamedRight, Named, MayServe, RightLanguage
<1>3. ASSUME NEW c \in Conns, Send(c) PROVE Named' /\ RightLanguage'
  <2>1. /\ \A d : d # c => bytes'[d] = bytes[d]
        /\ UNCHANGED <<held, done, q, pending, fate>>
    <3>1. /\ \E more : bytes' = [bytes EXCEPT ![c] = more]
          /\ bytes \in [Conns -> Amounts] /\ UNCHANGED <<held, done, q, pending, fate>>
      BY <1>0, <1>3, Types DEF Send, workerVars
    <3> QED  BY <3>1
  <2>2. \A i \in DOMAIN q : q[i].conn # c
    <3>1. fate[c] = "backlog" \/ \E p \in pending : p.conn = c
      BY <1>3 DEF Send, ConnsIn
    <3> QED  BY <1>0, <3>1 DEF Ownership, Waiting
  <2>3. \A w \in Workers : c \notin held[w] \cup done[w]
    <3>1. fate[c] # "handed"
      BY <1>0, <1>3 DEF Send, ConnsIn, Ownership, Waiting
    <3> QED  BY <1>0, <3>1 DEF Ownership, Handed
  <2>4. Named'
    BY <2>1, <2>2 DEF NamedRight, Named, MayServe
  <2>5. RightLanguage'
    BY <2>1, <2>3 DEF NamedRight, RightLanguage
  <2> QED  BY <2>4, <2>5
<1>4. ASSUME NEW v \in Workers, NEW d \in Conns, Finish(v, d) PROVE Named' /\ RightLanguage'
  <2>1. /\ UNCHANGED <<bytes, q>>
        /\ \A w \in Workers : held'[w] \cup done'[w] \subseteq held[w] \cup done[w]
    BY <1>0, <1>4 DEF Finish, clientVars
  <2> QED  BY <2>1 DEF NamedRight, Named, MayServe, RightLanguage
<1>5. ASSUME NEW v \in fired.chan, ReadCompletions(v) \/ WorkerLost(v)
      PROVE  Named' /\ RightLanguage'
  <2>1. /\ UNCHANGED <<bytes, q>>
        /\ \A w \in Workers : held'[w] \cup done'[w] \subseteq held[w] \cup done[w]
    BY <1>0, <1>5 DEF ReadCompletions, WorkerLost, clientVars
  <2> QED  BY <2>1 DEF NamedRight, Named, MayServe, RightLanguage
<1>6. ASSUME NEW i \in DOMAIN q, DropQueued(i) \/ DrainRefuse(i) PROVE Named' /\ RightLanguage'
  <2>1. UNCHANGED <<bytes, held, done>> /\ q' = QueueErase(q, i)
    BY <1>6 DEF DropQueued, DropAt, DrainRefuse, clientVars, workerVars
  <2> QED  BY <2>1, EraseNamed DEF NamedRight, RightLanguage
<1>7. ASSUME NEW i \in DOMAIN q, DrainDispatch(i) PROVE Named' /\ RightLanguage'
  <2>1. UNCHANGED <<bytes, done>> /\ q' = QueueErase(q, i)
    BY <1>7 DEF DrainDispatch, clientVars
  <2>2. PICK w \in GroupPick(q[i].lang) : Dispatch(w, q[i].conn)
    BY <1>7 DEF DrainDispatch
  <2>3. q[i].conn \in Conns /\ MayServe(q[i].conn, q[i].lang)
    BY <1>0, EntryWaits DEF NamedRight, Named
  <2> QED  BY <2>1, <2>2, <2>3, EraseNamed, HandOverRight
<1>8. ASSUME ShutdownQueued PROVE Named' /\ RightLanguage'
  <2>1. /\ q \in Seq(Entry) /\ q # <<>> /\ q' = Tail(q)
        /\ UNCHANGED <<bytes, held, done>>
    BY <1>0, <1>8, Types DEF ShutdownQueued, RefuseAtShutdown, clientVars, workerVars
  <2>2. \A j \in DOMAIN q' : \E k \in DOMAIN q : q'[j] = q[k]
    <3>1. /\ Len(Tail(q)) = Len(q) - 1 /\ Tail(q) \in Seq(Entry) /\ Len(q) \in Nat
          /\ \A j \in 1..Len(Tail(q)) : Tail(q)[j] = q[j + 1]
      BY <2>1, HeadTailProperties
    <3>2. \A j \in DOMAIN q' : j + 1 \in DOMAIN q /\ q'[j] = q[j + 1]
      BY <2>1, <3>1
    <3> QED  BY <3>2
  <2> QED  BY <2>1, <2>2 DEF NamedRight, Named, MayServe, RightLanguage
<1>9. ASSUME NEW p \in pending, DecidePending(p) PROVE Named' /\ RightLanguage'
  <2> DEFINE class == IF Class(p.conn) = Undecided THEN Unnamed ELSE Class(p.conn)
  <2>1. Route(p.conn, class) /\ UNCHANGED <<bytes, done>>
    BY <1>9 DEF DecidePending, clientVars
  <2>2. Routable(p.conn, class) /\ p.conn \in Conns
    BY <1>0, PendingWaits DEF Routable
  <2> HIDE DEF class
  <2> QED  BY <2>1, <2>2, RouteRight
<1>10. ASSUME NEW c \in Conns, Accept(c) PROVE Named' /\ RightLanguage'
  <2>1. UNCHANGED <<bytes, done>>
    BY <1>10 DEF Accept, clientVars
  <2>2. CASE \E class : Routable(c, class) /\ Route(c, class)
    BY <2>1, <2>2, RouteRight
  <2>3. CASE Class(c) = Undecided /\ Admit(c, DefaultLang)
    <3>1. Unnamed # Unknown /\ Unnamed \notin Langs
      BY DEF Unnamed, Unknown
    <3>2. MayServe(c, DefaultLang)
      BY <2>3, <3>1, ClassIsNamed DEF Routable
    <3> QED  BY <2>1, <2>3, <3>2, AdmitRight
  <2>4. CASE UNCHANGED <<q, held>>
    BY <2>1, <2>4 DEF NamedRight, Named, MayServe, RightLanguage
  <2> QED  BY <1>10, <2>2, <2>3, <2>4 DEF Accept, Routable, Unnamed, Undecided
<1>11. Unread'
  BY <1>0, UnreadStep DEF NamedRight
<1> QED
  BY <1>0, <1>1, <1>2, <1>3, <1>4, <1>5, <1>6, <1>7, <1>8, <1>9, <1>10, <1>11
     DEF Next, RouterStep, Environment, Terminated, NamedRight

\* A connection is with a worker of the language its request had named by the
\* time it was routed, and with the default group only if it had named none by
\* then; a request for a language nobody holds is with no worker.
THEOREM LanguagesAreRight == Spec => []RightLanguage
<1>1. Init => NamedRight
  <2>1. Init => Unread /\ Named /\ RightLanguage
    BY DEF Init, Unread, Named, RightLanguage
  <2> QED  BY <2>1, OwnershipInit DEF NamedRight
<1>2. NamedRight /\ [Next]_vars => NamedRight'
  BY NamedRightStep
<1>3. NamedRight => RightLanguage
  BY DEF NamedRight
<1> QED  BY <1>1, <1>2, <1>3, PTL DEF Spec

-----------------------------------------------------------------------------
(* The watchdog.  Stamps are not tied to connections: a completion pops    *)
(* the oldest stamp whichever connection it ended, and an alarm resets the *)
(* head.  What holds throughout is that the i-th stamp has i connections   *)
(* of the worker at least as old as itself; n completions take away n      *)
(* connections and shift every stamp by n places, so it is kept.           *)

Aged(w, t) == {c \in held[w] \cup done[w] : service[c] >= t}
AgedNext(w, t) == {c \in held'[w] \cup done'[w] : service'[c] >= t}

StampsAreServed ==
  \A w \in known : \A i \in DOMAIN disp[w] : Cardinality(Aged(w, disp[w][i])) >= i

Watched == Ownership /\ StampsAreServed

LEMMA FewerAreFewer ==
  ASSUME NEW T \in SUBSET Conns, NEW S \in SUBSET T
  PROVE  Cardinality(S) <= Cardinality(T) /\ Cardinality(S) \in Nat /\ Cardinality(T) \in Nat
BY Finite, FS_Subset

LEMMA WithoutSome ==
  ASSUME NEW S \in SUBSET Conns, NEW T \in SUBSET Conns
  PROVE  Cardinality(S \ T) >= Cardinality(S) - Cardinality(T)
<1>1. /\ IsFiniteSet(S \ T) /\ IsFiniteSet(T) /\ Cardinality(S \ T) \in Nat
      /\ Cardinality(T) \in Nat /\ Cardinality(S) \in Nat
      /\ Cardinality((S \ T) \cap T) \in Nat
  BY Finite
<1>2. Cardinality((S \ T) \cup T)
        = Cardinality(S \ T) + Cardinality(T) - Cardinality((S \ T) \cap T)
  BY <1>1, FS_Union
<1>3. /\ Cardinality(S) <= Cardinality((S \ T) \cup T)
      /\ Cardinality((S \ T) \cup T) \in Nat
  BY FewerAreFewer
<1> QED  BY <1>1, <1>2, <1>3

LEMMA DisjointSum ==
  ASSUME NEW S \in SUBSET Conns, NEW T \in SUBSET Conns, S \cap T = {}
  PROVE  Cardinality(S \cup T) = Cardinality(S) + Cardinality(T)
<1>1. /\ IsFiniteSet(S) /\ IsFiniteSet(T) /\ Cardinality(S) \in Nat /\ Cardinality(T) \in Nat
  BY Finite
<1>2. Cardinality(S \cup T) = Cardinality(S) + Cardinality(T) - Cardinality(S \cap T)
  BY <1>1, FS_Union
<1>3. Cardinality(S \cap T) = 0
  BY FS_EmptySet
<1> QED  BY <1>1, <1>2, <1>3

\* Nothing changes for the stamps.
LEMMA ServedFrame ==
  ASSUME StampsAreServed, UNCHANGED <<held, done, disp, service>>, known' \subseteq known
  PROVE  StampsAreServed'
BY DEF StampsAreServed, Aged, AgedNext

LEMMA ServedDispatch ==
  ASSUME Watched, Ownership', NEW c \in Conns, fate[c] \notin {"handed", "refused"},
         NEW lang, NEW w \in GroupPick(lang), Dispatch(w, c), UNCHANGED <<known, done>>
  PROVE  StampsAreServed'
<1>0. /\ TypeOK /\ w \in Workers /\ w \in known /\ known \subseteq Workers
      /\ held \in [Workers -> SUBSET Conns] /\ done \in [Workers -> SUBSET Conns]
      /\ disp \in [Workers -> Seq(0..ServiceCap)] /\ service \in [Conns -> 0..ServiceCap]
  BY PickedIsFree, Types DEF Watched, Ownership
<1>1. CASE RefuseOnly(c, HandoffFailed)
  BY <1>1, ServedFrame DEF RefuseOnly, Watched
<1>2. CASE HandOver(w, c)
  <2> DEFINE n == Len(disp[w])
             plus == IF n < Slots + 1 THEN Append(disp[w], 0) ELSE disp[w]
  <2>1. /\ held' = [held EXCEPT ![w] = held[w] \cup {c}]
        /\ disp' = [disp EXCEPT ![w] = plus]
        /\ service' = [service EXCEPT ![c] = 0]
    BY <1>2 DEF HandOver
  <2>2. \A v \in Workers : c \notin held[v] \cup done[v]
    BY DEF Watched, Ownership, Handed
  <2>3. \A v \in Workers : \A t : Aged(v, t) \subseteq AgedNext(v, t)
    <3> SUFFICES ASSUME NEW v \in Workers, NEW t, NEW d \in Aged(v, t)
                 PROVE  d \in held'[v] \cup done'[v] /\ service'[d] >= t
      BY DEF Aged, AgedNext
    <3>1. d \in held[v] \cup done[v] /\ service[d] >= t /\ d # c
      BY <2>2 DEF Aged, AgedNext
    <3>2. held[v] \subseteq held'[v]
      BY <1>0, <2>1
    <3>3. service'[d] = service[d]
      BY <1>0, <2>1, <3>1
    <3> QED  BY <3>1, <3>2, <3>3
  <2>4. \A v \in Workers : \A t : AgedNext(v, t) \in SUBSET Conns
    <3>1. held' \in [Workers -> SUBSET Conns] /\ done' \in [Workers -> SUBSET Conns]
      BY DEF Ownership, TypeOK, WorkerType
    <3> QED  BY <3>1 DEF Aged, AgedNext
  <2>5. \A v \in Workers : \A t : /\ Cardinality(Aged(v, t)) <= Cardinality(AgedNext(v, t))
                              /\ Cardinality(Aged(v, t)) \in Nat
                              /\ Cardinality(AgedNext(v, t)) \in Nat
    BY <2>3, <2>4, FewerAreFewer
  <2> SUFFICES ASSUME NEW v \in known, NEW i \in DOMAIN disp'[v]
               PROVE  Cardinality(AgedNext(v, disp'[v][i])) >= i
    BY DEF StampsAreServed, Aged, AgedNext
  <2>6. v \in Workers
    BY <1>0
  <2>7. CASE i \in DOMAIN disp[v] /\ disp'[v][i] = disp[v][i]
    <3>1. Cardinality(Aged(v, disp[v][i])) >= i /\ i \in Nat
      BY <1>0, <2>6, <2>7 DEF Watched, StampsAreServed
    <3>2. Cardinality(AgedNext(v, disp[v][i])) >= i
      BY <2>5, <2>6, <3>1
    <3> QED  BY <2>7, <3>2
  <2>8. CASE v = w /\ i = n + 1 /\ disp'[w] = Append(disp[w], 0)
    <3>1. /\ Len(disp'[w]) = i /\ disp'[w][i] = 0 /\ i \in Nat
      BY <1>0, <2>8
    <3>2. held'[w] \in SUBSET Conns /\ done'[w] \in SUBSET Conns /\ held'[w] \cap done'[w] = {}
      BY <1>0 DEF Ownership, TypeOK, WorkerType, Handed
    <3>3. Len(disp'[w]) = Cardinality(held'[w]) + Cardinality(done'[w])
      BY <1>0 DEF Ownership, ActiveIsInFlight
    <3>4. Cardinality(held'[w] \cup done'[w]) = i
      BY <3>1, <3>2, <3>3, DisjointSum
    <3>5. AgedNext(w, 0) = held'[w] \cup done'[w]
      <4>1. service' \in [Conns -> 0..ServiceCap]
        BY DEF Ownership, TypeOK, HistoryType
      <4>2. \A d \in held'[w] \cup done'[w] : service'[d] >= 0
        BY <3>2, <4>1
      <4> QED  BY <4>2 DEF Aged, AgedNext
    <3>6. Cardinality(AgedNext(w, 0)) = i
      BY <3>4, <3>5, Zenon
    <3>7. disp'[v][i] = 0 /\ v = w
      BY <2>8, <3>1
    <3> QED  BY <3>1, <3>6, <3>7
  <2>9. CASE v # w
    <3>1. disp'[v] = disp[v]
      BY <1>0, <2>1, <2>6, <2>9
    <3> QED  BY <2>7, <3>1
  <2>10. CASE v = w
    <3>1. disp'[w] = plus
      BY <1>0, <2>1
    <3>2. CASE n < Slots + 1
      <4>1. /\ disp'[w] = Append(disp[w], 0) /\ disp[w] \in Seq(0..ServiceCap) /\ n \in Nat
        BY <1>0, <3>1, <3>2
      <4>2. /\ \A j \in DOMAIN disp'[w] : (j \in DOMAIN disp[w] /\ disp'[w][j] = disp[w][j])
                                           \/ j = n + 1
        BY <4>1
      <4> HIDE DEF n, plus
      <4>3. (i \in DOMAIN disp[v] /\ disp'[v][i] = disp[v][i]) \/ i = n + 1
        BY <2>10, <4>2
      <4> QED  BY <2>7, <2>8, <2>10, <4>1, <4>3
    <3>3. CASE ~(n < Slots + 1)
      <4>1. disp'[v] = disp[v]
        BY <2>10, <3>1, <3>3
      <4> QED  BY <2>7, <4>1
    <3> QED  BY <3>2, <3>3
  <2> QED  BY <2>9, <2>10
<1> QED  BY <1>1, <1>2 DEF Dispatch

LEMMA ServedAdmit ==
  ASSUME Watched, Ownership', NEW c \in Conns, fate[c] \notin {"handed", "refused"},
         NEW lang, Admit(c, lang), UNCHANGED <<known, done>>
  PROVE  StampsAreServed'
<1>1. CASE \E w \in GroupPick(lang) : Dispatch(w, c)
  BY <1>1, ServedDispatch
<1>2. CASE Enqueue(c, lang) \/ RefuseOnly(c, AtCapacity)
  BY <1>2, ServedFrame DEF Enqueue, RefuseOnly, Watched
<1> QED  BY <1>1, <1>2 DEF Admit

LEMMA ServedRoute ==
  ASSUME Watched, Ownership', NEW c \in Conns, fate[c] \notin {"handed", "refused"},
         NEW class, Route(c, class), UNCHANGED <<known, done>>
  PROVE  StampsAreServed'
<1>1. CASE RefuseOnly(c, LanguageNotServed)
  BY <1>1, ServedFrame DEF RefuseOnly, Watched
<1>2. CASE Admit(c, IF class \in Langs THEN class ELSE DefaultLang)
  BY <1>2, ServedAdmit
<1> QED  BY <1>1, <1>2 DEF Route

\* Time passes for stamps and connections alike, and both stop at the cap.
LEMMA ServedPoll ==
  ASSUME Watched, Ownership', NEW elapsed \in BOOLEAN, Poll(elapsed)
  PROVE  StampsAreServed'
<1>0. /\ UNCHANGED <<known, held, done>> /\ known \subseteq Workers
      /\ held \in [Workers -> SUBSET Conns] /\ done \in [Workers -> SUBSET Conns]
      /\ disp \in [Workers -> Seq(0..ServiceCap)] /\ service \in [Conns -> 0..ServiceCap]
  BY Types DEF Poll, workerVars, Watched, Ownership
<1>1. CASE ~elapsed
  BY <1>0, <1>1, ServedFrame DEF Poll, Watched
<1>2. CASE elapsed
  <2> SUFFICES ASSUME NEW w \in known, NEW i \in DOMAIN disp'[w]
               PROVE  Cardinality(AgedNext(w, disp'[w][i])) >= i
    BY <1>0 DEF StampsAreServed, Aged, AgedNext
  <2>1. /\ disp'[w] = [j \in DOMAIN disp[w] |-> Older(disp[w][j], ServiceCap)]
        /\ \A c \in Conns : fate[c] = "handed" => service'[c] = Older(service[c], ServiceCap)
    BY <1>0, <1>2 DEF Poll, TimePasses
  <2>2. i \in DOMAIN disp[w] /\ disp'[w][i] = Older(disp[w][i], ServiceCap)
    BY <2>1
  <2>3. /\ i \in Nat /\ disp[w][i] \in 0..ServiceCap
        /\ Cardinality(Aged(w, disp[w][i])) >= i
    BY <1>0, <2>2 DEF Watched, StampsAreServed
  <2>4. Aged(w, disp[w][i]) \subseteq AgedNext(w, disp'[w][i])
    <3> SUFFICES ASSUME NEW c \in held[w] \cup done[w], service[c] >= disp[w][i]
                 PROVE  service'[c] >= disp'[w][i]
      BY <1>0 DEF Aged, AgedNext
    <3>1. c \in Conns /\ fate[c] = "handed" /\ service[c] \in 0..ServiceCap
      BY <1>0 DEF Watched, Ownership, Handed
    <3>2. service'[c] = Older(service[c], ServiceCap)
      BY <2>1, <3>1
    <3> QED  BY <2>2, <2>3, <3>1, <3>2 DEF Older
  <2>5. AgedNext(w, disp'[w][i]) \in SUBSET Conns
    BY <1>0 DEF Aged, AgedNext
  <2>6. /\ Cardinality(Aged(w, disp[w][i])) <= Cardinality(AgedNext(w, disp'[w][i]))
        /\ Cardinality(Aged(w, disp[w][i])) \in Nat
        /\ Cardinality(AgedNext(w, disp'[w][i])) \in Nat
    BY <2>4, <2>5, FewerAreFewer
  <2> QED  BY <2>3, <2>6
<1> QED  BY <1>1, <1>2

LEMMA ServedReadCompletions ==
  ASSUME Watched, NEW w \in fired.chan, ReadCompletions(w)
  PROVE  StampsAreServed'
<1>0. /\ w \in Workers /\ known \subseteq Workers
      /\ held \in [Workers -> SUBSET Conns] /\ done \in [Workers -> SUBSET Conns]
      /\ disp \in [Workers -> Seq(0..ServiceCap)]
  BY Types DEF Watched, Ownership
<1> DEFINE n == Cardinality(done[w])
           popped == IF active[w] < n THEN <<>> ELSE DispPop(disp[w], n)
<1>1. /\ UNCHANGED <<known, held, service>> /\ n > 0
      /\ done' = [done EXCEPT ![w] = {}]
      /\ disp' = [disp EXCEPT ![w] = popped]
  BY DEF ReadCompletions
<1> SUFFICES ASSUME NEW v \in known, NEW i \in DOMAIN disp'[v]
             PROVE  Cardinality(AgedNext(v, disp'[v][i])) >= i
  BY <1>1 DEF StampsAreServed, Aged, AgedNext
<1>2. CASE v # w
  <2>1. done'[v] = done[v] /\ disp'[v] = disp[v]
    BY <1>0, <1>1, <1>2
  <2> QED  BY <1>1, <2>1 DEF Watched, StampsAreServed, Aged, AgedNext
<1>3. CASE v = w
  <2>1. disp'[w] = popped /\ done'[w] = {}
    BY <1>0, <1>1
  <2>2. popped = DispPop(disp[w], n) /\ ~(Len(disp[w]) <= n)
    <3>1. DOMAIN <<>> = {}
      OBVIOUS
    <3> QED  BY <1>3, <2>1, <3>1 DEF DispPop
  <2>3. n \in Nat /\ Len(disp[w]) \in Nat /\ disp[w] \in Seq(0..ServiceCap)
    BY <1>0, Finite
  <2> HIDE DEF n, popped
  <2>4. i \in Nat /\ i >= 1 /\ n + i \in DOMAIN disp[w] /\ disp'[w][i] = disp[w][n + i]
    <3>1. disp'[w] = SubSeq(disp[w], n + 1, Len(disp[w]))
      BY <2>1, <2>2 DEF DispPop
    <3>2. i \in 1..(Len(disp[w]) - n) /\ disp'[w][i] = disp[w][n + i]
      BY <1>3, <2>2, <2>3, <3>1
    <3> QED  BY <2>3, <3>2
  <2> DEFINE t == disp[w][n + i]
  <2>5. Cardinality(Aged(w, t)) >= n + i
    BY <1>3, <2>4 DEF Watched, StampsAreServed
  <2>6. Aged(w, t) \ done[w] \subseteq AgedNext(w, t) /\ AgedNext(w, t) \in SUBSET Conns
    BY <1>0, <1>1, <2>1 DEF Aged, AgedNext
  <2>7. Aged(w, t) \in SUBSET Conns /\ done[w] \in SUBSET Conns
    BY <1>0 DEF Aged, AgedNext
  <2>8. /\ Cardinality(Aged(w, t) \ done[w]) >= Cardinality(Aged(w, t)) - n
        /\ Cardinality(Aged(w, t)) \in Nat
    BY <2>7, WithoutSome, Finite DEF n
  <2>9. /\ Cardinality(Aged(w, t) \ done[w]) <= Cardinality(AgedNext(w, t))
        /\ Cardinality(Aged(w, t) \ done[w]) \in Nat /\ Cardinality(AgedNext(w, t)) \in Nat
    BY <2>6, FewerAreFewer
  <2>10. Cardinality(AgedNext(w, t)) >= i
    <3> HIDE DEF t
    <3> QED  BY <2>3, <2>4, <2>5, <2>8, <2>9
  <2> QED  BY <1>3, <2>4, <2>10
<1> QED  BY <1>2, <1>3

LEMMA ServedWatchdog ==
  ASSUME Watched, Watchdog
  PROVE  StampsAreServed'
<1>0. /\ UNCHANGED <<known, held, done, service>> /\ known \subseteq Workers
      /\ held \in [Workers -> SUBSET Conns] /\ done \in [Workers -> SUBSET Conns]
      /\ disp \in [Workers -> Seq(0..ServiceCap)] /\ service \in [Conns -> 0..ServiceCap]
  BY Types DEF Watchdog, workerVars, Watched, Ownership
<1> SUFFICES ASSUME NEW w \in known, NEW i \in DOMAIN disp'[w]
             PROVE  Cardinality(Aged(w, disp'[w][i])) >= i
  BY <1>0 DEF StampsAreServed, Aged, AgedNext
<1>1. disp'[w] = IF w \in PastCap THEN [disp[w] EXCEPT ![1] = 0] ELSE disp[w]
  BY <1>0 DEF Watchdog
<1>2. i \in DOMAIN disp[w] /\ disp[w] \in Seq(0..ServiceCap)
  BY <1>0, <1>1
<1>3. CASE disp'[w][i] = disp[w][i]
  BY <1>2, <1>3 DEF Watched, StampsAreServed
<1>4. CASE i = 1 /\ disp'[w][i] = 0
  <2>1. held[w] \in SUBSET Conns /\ done[w] \in SUBSET Conns /\ held[w] \cap done[w] = {}
    BY <1>0 DEF Watched, Ownership, Handed
  <2>2. Len(disp[w]) = Cardinality(held[w]) + Cardinality(done[w])
    BY <1>0 DEF Watched, Ownership, ActiveIsInFlight
  <2>3. Cardinality(held[w] \cup done[w]) = Len(disp[w])
    BY <2>1, <2>2, DisjointSum
  <2>4. Aged(w, 0) = held[w] \cup done[w]
    BY <1>0, <2>1 DEF Aged, AgedNext
  <2>5. Len(disp[w]) >= 1
    BY <1>2, <1>4
  <2> QED  BY <1>4, <2>3, <2>4, <2>5
<1>5. disp'[w][i] = disp[w][i] \/ (i = 1 /\ disp'[w][i] = 0)
  BY <1>1, <1>2
<1> QED  BY <1>3, <1>4, <1>5

LEMMA WatchedStep ==
  ASSUME Watched, [Next]_vars
  PROVE  Watched'
<1>0. /\ Ownership' /\ Ownership /\ TypeOK /\ StampsAreServed
      /\ held \in [Workers -> SUBSET Conns] /\ done \in [Workers -> SUBSET Conns]
      /\ known \subseteq Workers /\ disp \in [Workers -> Seq(0..ServiceCap)]
      /\ fired.chan \subseteq Workers
  BY OwnershipStep, Types DEF Watched, Ownership
<1>1. ASSUME \/ ForkFails \/ Lingers \/ CompletionsRead \/ HangupsDone \/ ClassifyDone
             \/ DrainDone \/ AcceptRetry \/ AcceptFails \/ LeaveLoop \/ Terminate \/ Reaped
             \/ PollFails
             \/ ShutdownQueued \/ Signal \/ UNCHANGED vars
             \/ (\E p \in pending : KeepPending(p) \/ ShutdownPending(p))
             \/ (\E d \in Conns : Connect(d) \/ Send(d) \/ HangUp(d))
             \/ (\E v \in Workers : Die(v))
             \/ (\E k \in DOMAIN q : DropQueued(k) \/ DrainRefuse(k))
      PROVE  StampsAreServed'
  <2>1. UNCHANGED <<known, held, done, disp, service>>
    BY <1>1 DEF ForkFails, Lingers, CompletionsRead, HangupsDone, ClassifyDone, DrainDone,
       AcceptRetry, AcceptFails, LeaveLoop, PollFails, Terminate, Reaped, ShutdownQueued,
       RefuseAtShutdown, Signal, KeepPending, ShutdownPending, Connect, Send, HangUp, Die,
       DropQueued, DropAt, DrainRefuse, vars, workerVars, ledger
  <2> QED  BY <1>0, <2>1, ServedFrame
<1>2. ASSUME NEW w \in Workers, Fork(w) PROVE StampsAreServed'
  <2>1. UNCHANGED disp /\ \A v \in Workers : disp[v] = <<>>
    BY <1>0, <1>2 DEF Fork, Ownership, Unforked
  <2>2. known' \subseteq Workers /\ DOMAIN <<>> = {}
    BY <1>0 DEF Ownership, TypeOK, LedgerType
  <2> QED  BY <2>1, <2>2 DEF StampsAreServed
<1>3. ASSUME NEW w \in Workers, NEW c \in Conns, Finish(w, c) PROVE StampsAreServed'
  <2>1. /\ UNCHANGED <<known, disp, service>>
        /\ \A v \in Workers : held'[v] \cup done'[v] = held[v] \cup done[v]
    BY <1>0, <1>3 DEF Finish, ledger
  <2> SUFFICES ASSUME NEW v \in known, NEW i \in DOMAIN disp[v]
               PROVE  Cardinality(AgedNext(v, disp[v][i])) >= i
    BY <2>1 DEF StampsAreServed, Aged, AgedNext
  <2>2. AgedNext(v, disp[v][i]) = Aged(v, disp[v][i])
    BY <1>0, <2>1 DEF Aged, AgedNext
  <2>3. Cardinality(AgedNext(v, disp[v][i])) = Cardinality(Aged(v, disp[v][i]))
    BY <2>2, Zenon
  <2> QED  BY <1>0, <2>3 DEF StampsAreServed
<1>4. ASSUME NEW w \in fired.chan, WorkerLost(w) PROVE StampsAreServed'
  <2>1. /\ UNCHANGED <<done, service>> /\ known' = known \ {w}
        /\ \A v \in known \ {w} : held'[v] = held[v] /\ disp'[v] = disp[v]
    BY <1>0, <1>4 DEF WorkerLost
  <2> QED  BY <1>0, <2>1 DEF StampsAreServed, Aged, AgedNext
<1>5. ASSUME \/ Watchdog
             \/ (\E elapsed \in BOOLEAN : Poll(elapsed))
             \/ (\E w \in fired.chan : ReadCompletions(w))
      PROVE  StampsAreServed'
  BY <1>0, <1>5, ServedWatchdog, ServedPoll, ServedReadCompletions
<1>6. ASSUME NEW i \in DOMAIN q, DrainDispatch(i) PROVE StampsAreServed'
  <2>1. PICK w \in GroupPick(q[i].lang) : Dispatch(w, q[i].conn)
    BY <1>6 DEF DrainDispatch
  <2>2. q[i].conn \in Conns /\ fate[q[i].conn] = "waiting" /\ UNCHANGED <<known, done>>
    BY <1>0, <1>6, EntryWaits DEF DrainDispatch
  <2> QED  BY <1>0, <2>1, <2>2, ServedDispatch
<1>7. ASSUME NEW p \in pending, DecidePending(p) PROVE StampsAreServed'
  <2>1. p.conn \in Conns /\ fate[p.conn] = "waiting"
    BY <1>0, PendingWaits
  <2>2. (\E class : Route(p.conn, class)) /\ UNCHANGED <<known, done>>
    BY <1>7 DEF DecidePending
  <2> QED  BY <1>0, <2>1, <2>2, ServedRoute
<1>8. ASSUME NEW c \in Conns, Accept(c) PROVE StampsAreServed'
  <2>1. fate[c] = "backlog" /\ UNCHANGED <<known, done>>
    BY <1>8 DEF Accept
  <2>2. CASE \E class : Route(c, class)
    BY <1>0, <2>1, <2>2, ServedRoute
  <2>3. CASE Admit(c, DefaultLang)
    BY <1>0, <2>1, <2>3, ServedAdmit
  <2>4. CASE UNCHANGED <<held, disp, service>>
    BY <1>0, <2>1, <2>4, ServedFrame
  <2> QED  BY <1>8, <2>2, <2>3, <2>4 DEF Accept
<1>9. StampsAreServed'
  BY <1>0, <1>1, <1>2, <1>3, <1>4, <1>5, <1>6, <1>7, <1>8
     DEF Next, RouterStep, Environment, Terminated
<1> QED  BY <1>0, <1>9 DEF Watched

LEMMA AlarmIsReal ==
  ASSUME Watched, [Next]_vars, NEW w \in Workers, overCap'[w] > overCap[w]
  PROVE  \E c \in held[w] \cup done[w] : service[c] >= ServiceCap
<1>0. /\ TypeOK /\ overCap \in [Workers -> Nat] /\ disp \in [Workers -> Seq(0..ServiceCap)]
      /\ service \in [Conns -> 0..ServiceCap] /\ held \in [Workers -> SUBSET Conns]
      /\ done \in [Workers -> SUBSET Conns] /\ fired.chan \subseteq Workers
  BY Types DEF Watched, Ownership
<1>1. ASSUME UNCHANGED overCap PROVE FALSE
  BY <1>0, <1>1
<1>2. Watchdog
  <2>1. ~(ForkFails \/ Lingers \/ CompletionsRead \/ HangupsDone \/ ClassifyDone
             \/ DrainDone \/ AcceptRetry \/ AcceptFails \/ LeaveLoop \/ Terminate \/ Reaped
             \/ PollFails
             \/ ShutdownQueued \/ Signal \/ UNCHANGED vars)
    BY <1>1 DEF ForkFails, Lingers, CompletionsRead, HangupsDone, ClassifyDone, DrainDone,
       AcceptRetry, AcceptFails, LeaveLoop, PollFails, Terminate, Reaped, ShutdownQueued,
       RefuseAtShutdown, Signal, vars, ledger
  <2>2. ~\E p \in pending : KeepPending(p) \/ ShutdownPending(p) \/ DecidePending(p)
    BY <1>1 DEF KeepPending, ShutdownPending, DecidePending, RefuseAtShutdown, ledger
  <2>3. ~\E c \in Conns : Connect(c) \/ Send(c) \/ HangUp(c) \/ Accept(c)
    BY <1>1 DEF Connect, Send, HangUp, Accept, ledger
  <2>4. ~\E v \in Workers : Die(v) \/ Fork(v) \/ \E c \in Conns : Finish(v, c)
    BY <1>1 DEF Die, Fork, Finish, ledger
  <2>5. ~\E v \in fired.chan : ReadCompletions(v) \/ WorkerLost(v)
    BY <1>1 DEF ReadCompletions, WorkerLost
  <2>6. ~\E i \in DOMAIN q : DropQueued(i) \/ DrainRefuse(i) \/ DrainDispatch(i)
    BY <1>1 DEF DropQueued, DropAt, DrainRefuse, DrainDispatch, ledger
  <2>7. ~\E elapsed \in BOOLEAN : Poll(elapsed)
    BY <1>1 DEF Poll
  <2> QED
    BY <2>1, <2>2, <2>3, <2>4, <2>5, <2>6, <2>7 DEF Next, RouterStep, Environment, Terminated
<1>3. w \in PastCap
  BY <1>0, <1>2 DEF Watchdog
<1>4. w \in known /\ disp[w] # <<>> /\ disp[w][1] >= ServiceCap
  BY <1>3 DEF PastCap
<1>5. 1 \in DOMAIN disp[w] /\ disp[w][1] \in 0..ServiceCap
  BY <1>0, <1>4
<1>6. Cardinality(Aged(w, disp[w][1])) >= 1
  BY <1>4, <1>5 DEF Watched, StampsAreServed
<1>7. Aged(w, disp[w][1]) # {}
  BY <1>6, FS_EmptySet
<1>8. PICK c \in held[w] \cup done[w] : service[c] >= disp[w][1]
  BY <1>7 DEF Aged, AgedNext
<1>9. c \in Conns /\ service[c] \in 0..ServiceCap
  BY <1>0
<1> QED  BY <1>4, <1>5, <1>8, <1>9

\* An alarm means that some connection of the worker really is past the cap.
THEOREM AlarmsAreReal == Spec => NoFalseAlarm
<1>1. Init => Watched
  <2>1. Init => StampsAreServed
    BY DEF Init, StampsAreServed
  <2> QED  BY <2>1, OwnershipInit DEF Watched
<1>2. Watched /\ [Next]_vars => Watched'
  BY WatchedStep
<1>3. ASSUME Watched, [Next]_vars
      PROVE  \A w \in Workers : overCap'[w] > overCap[w] =>
               \E c \in held[w] \cup done[w] : service[c] >= ServiceCap
  BY <1>3, AlarmIsReal
<1> QED  BY <1>1, <1>2, <1>3, PTL DEF Spec, NoFalseAlarm

-----------------------------------------------------------------------------
(* Nobody waits without need.  router_drain() looks at the heads of the    *)
(* groups' queues only; that this settles the entries behind them as well  *)
(* rests on each group's queue being in order of age, and between the end  *)
(* of the drain and the next poll() one more connection may be accepted.   *)

InOrderOfAge == \A i, j \in DOMAIN q : i < j /\ q[i].lang = q[j].lang => q[i].age >= q[j].age

Full(lang) == \A w \in known : LangOf[w] = lang => active[w] >= Slots

SettledAt(i) == Full(q[i].lang) /\ (QDeadline > 0 => q[i].age < QDeadline)

Settled == pc \in {"accept", "poll"} => \A i \in DOMAIN q : SettledAt(i)

Starting == pc = "fork" => q = <<>>

Patient == Ownership /\ InOrderOfAge /\ Settled /\ Starting

\* A worker is picked whenever one has a slot.
LEMMA NonePickedIsFull ==
  ASSUME TypeOK, NEW lang, GroupPick(lang) = {}
  PROVE  Full(lang)
<1>0. known \subseteq Workers /\ active \in [Workers -> Nat]
  BY Types
<1> SUFFICES ASSUME Free(lang) # {} PROVE FALSE
  <2>1. \A w \in known : LangOf[w] = lang /\ ~(active[w] >= Slots) => w \in Free(lang)
    BY <1>0 DEF Free, GroupLive
  <2> QED  BY <2>1 DEF Full
<1> DEFINE T == {active[w] : w \in Free(lang)}
<1>1. T \subseteq Nat /\ T # {} /\ Free(lang) \subseteq Workers
  BY <1>0 DEF Free, GroupLive
<1>2. \A w \in Free(lang) : active[w] \in T
  OBVIOUS
<1>3. \A x \in T : \E w \in Free(lang) : x = active[w]
  OBVIOUS
<1> HIDE DEF T
<1>4. PICK x \in T : \A y \in T : x <= y
  BY <1>1, LeastNumber
<1>5. PICK w \in Free(lang) : x = active[w]
  BY <1>3
<1>6. w \in GroupPick(lang)
  BY <1>2, <1>4, <1>5 DEF GroupPick
<1> QED  BY <1>6

LEMMA PickedNoneIsFull ==
  ASSUME NEW lang, Full(lang), TypeOK
  PROVE  GroupPick(lang) = {}
BY Types DEF Full, GroupPick, Free, GroupLive

\* Every entry of the queue has the head of its group at or before it.
LEMMA HeadOfGroup ==
  ASSUME TypeOK, NEW i \in DOMAIN q
  PROVE  \E h \in DOMAIN q : IsHead(h) /\ h <= i /\ q[h].lang = q[i].lang
<1>0. q \in Seq(Entry) /\ DOMAIN q \subseteq Nat /\ \A j \in DOMAIN q : \A k \in 1..(j - 1) : k \in DOMAIN q
  <2>1. q \in Seq(Entry)
    BY Types
  <2> QED  BY <2>1
<1> DEFINE T == {h \in DOMAIN q : q[h].lang = q[i].lang}
<1>1. T \subseteq Nat /\ i \in T
  BY <1>0
<1>2. PICK h \in T : \A y \in T : h <= y
  BY <1>1, LeastNumber
<1>3. h \in DOMAIN q /\ q[h].lang = q[i].lang /\ h <= i
  BY <1>1, <1>2
<1>4. IsHead(h)
  <2> SUFFICES ASSUME NEW j \in 1..(h - 1), q[j].lang = q[h].lang PROVE FALSE
    BY <1>3 DEF IsHead
  <2>1. j \in T
    BY <1>0, <1>3
  <2>2. h <= j /\ h \in Nat
    BY <1>0, <1>2, <1>3, <2>1
  <2> QED  BY <2>2
<1> QED  BY <1>3, <1>4

LEMMA SettledDrainDone ==
  ASSUME Patient, DrainDone
  PROVE  Settled'
<1>0. TypeOK
  BY DEF Patient, Ownership
<1>1. UNCHANGED <<q, known, active>>
  BY DEF DrainDone, ledger
<1> SUFFICES ASSUME NEW i \in DOMAIN q PROVE SettledAt(i)
  BY <1>1 DEF Settled, SettledAt, Full
<1>2. PICK h \in DOMAIN q : IsHead(h) /\ h <= i /\ q[h].lang = q[i].lang
  BY <1>0, HeadOfGroup
<1>3. ~Expired(h) /\ GroupPick(q[h].lang) = {}
  BY <1>2 DEF DrainDone
<1>4. Full(q[i].lang)
  BY <1>0, <1>2, <1>3, NonePickedIsFull
<1>5. q[h] \in Entry /\ q[i] \in Entry /\ h \in Int /\ i \in Int
  <2>1. q \in Seq(Entry)
    BY <1>0, Types
  <2> QED  BY <2>1
<1>6. q[h].age >= q[i].age
  <2>1. CASE h = i
    BY <1>5, <2>1 DEF Entry
  <2>2. CASE h < i
    BY <1>2, <2>2 DEF Patient, InOrderOfAge
  <2> QED  BY <1>2, <1>5, <2>1, <2>2
<1>7. QDeadline > 0 => q[i].age < QDeadline
  BY <1>3, <1>5, <1>6 DEF Expired, Entry
<1> QED  BY <1>4, <1>7 DEF SettledAt

\* One more entry at the end of the queue, just arrived.
LEMMA AppendInOrder ==
  ASSUME Patient, NEW c \in Conns, NEW lang \in Langs, Enqueue(c, lang)
  PROVE  /\ InOrderOfAge'
         /\ \A i \in DOMAIN q' : \/ i \in DOMAIN q /\ q'[i] = q[i]
                                 \/ q'[i].lang = lang /\ q'[i].age = 0
<1> DEFINE e == [conn |-> c, lang |-> lang, age |-> 0]
<1>1. q' = Append(q, e) /\ q \in Seq(Entry)
  BY Types DEF Enqueue, Patient, Ownership
<1>2. /\ DOMAIN q = 1..Len(q) /\ Len(q) \in Nat /\ DOMAIN q' = 1..(Len(q) + 1)
      /\ \A i \in DOMAIN q : q'[i] = q[i]
      /\ q'[Len(q) + 1] = e
  BY <1>1
<1>3. e.lang = lang /\ e.age = 0
  OBVIOUS
<1>4. \A i \in DOMAIN q : q[i].age \in Nat
  <2>1. \A i \in DOMAIN q : q[i] \in Entry
    BY <1>1
  <2> QED  BY <2>1 DEF Entry
<1> HIDE DEF e
<1>5. \A i \in DOMAIN q' : (i \in DOMAIN q /\ q'[i] = q[i]) \/ (i = Len(q) + 1 /\ q'[i] = e)
  BY <1>2
<1>6. InOrderOfAge'
  <2> SUFFICES ASSUME NEW i \in DOMAIN q', NEW j \in DOMAIN q', i < j,
                      q'[i].lang = q'[j].lang
               PROVE  q'[i].age >= q'[j].age
    BY DEF InOrderOfAge
  <2>1. i \in DOMAIN q /\ q'[i] = q[i]
    BY <1>2
  <2>2. CASE j \in DOMAIN q /\ q'[j] = q[j]
    BY <2>1, <2>2 DEF Patient, InOrderOfAge
  <2>3. CASE q'[j] = e
    BY <1>3, <1>4, <2>1, <2>3
  <2> QED  BY <1>5, <2>2, <2>3
<1> QED  BY <1>3, <1>5, <1>6

LEMMA EraseInOrder ==
  ASSUME Patient, NEW i \in DOMAIN q, q' = QueueErase(q, i)
  PROVE  InOrderOfAge'
<1>1. q \in Seq(Entry)
  BY Types DEF Patient, Ownership
<1>2. /\ Len(q) \in Nat /\ DOMAIN q = 1..Len(q) /\ DOMAIN q' = 1..(Len(q) - 1)
      /\ \A j \in DOMAIN q' : q'[j] = q[IF j < i THEN j ELSE j + 1]
  BY <1>1, QueueEraseType
<1> DEFINE at(j) == IF j < i THEN j ELSE j + 1
<1>3. \A j \in DOMAIN q' : at(j) \in DOMAIN q /\ q'[j] = q[at(j)]
  BY <1>2
<1>4. \A j, k \in DOMAIN q' : j < k => at(j) < at(k)
  BY <1>2
<1> HIDE DEF at
<1> QED  BY <1>3, <1>4 DEF Patient, InOrderOfAge

LEMMA AdmitInOrder ==
  ASSUME Patient, NEW c \in Conns, NEW lang \in Langs, Admit(c, lang)
  PROVE  InOrderOfAge'
<1>1. CASE q' = q
  BY <1>1 DEF Patient, InOrderOfAge
<1>2. CASE Enqueue(c, lang)
  BY <1>2, AppendInOrder
<1> QED  BY <1>1, <1>2 DEF Admit

LEMMA RouteInOrder ==
  ASSUME Patient, NEW c \in Conns, NEW class, Route(c, class)
  PROVE  InOrderOfAge'
<1>1. CASE q' = q
  BY <1>1 DEF Patient, InOrderOfAge
<1>2. CASE class # Unknown /\ Admit(c, IF class \in Langs THEN class ELSE DefaultLang)
  <2>1. (IF class \in Langs THEN class ELSE DefaultLang) \in Langs
    OBVIOUS
  <2> QED  BY <1>2, <2>1, AdmitInOrder
<1> QED  BY <1>1, <1>2 DEF Route

\* More work for some worker leaves the queue as settled as it was.
LEMMA SettledFrame ==
  ASSUME Patient, pc \in {"accept", "poll"}, UNCHANGED <<q, known>>,
         \A w \in known : active'[w] \in Nat /\ active'[w] >= active[w]
  PROVE  Settled'
<1>1. known \subseteq Workers /\ active \in [Workers -> Nat]
  BY Types DEF Patient, Ownership
<1> SUFFICES ASSUME NEW i \in DOMAIN q, SettledAt(i),
                    NEW w \in known, LangOf[w] = q[i].lang
             PROVE  active'[w] >= Slots
  BY DEF Patient, Settled, SettledAt, Full
<1>2. active[w] >= Slots
  BY DEF SettledAt, Full
<1> QED  BY <1>1, <1>2

LEMMA DispatchSettled ==
  ASSUME Patient, pc = "accept", UNCHANGED <<q, known>>, NEW c, NEW lang,
         NEW w \in GroupPick(lang), Dispatch(w, c)
  PROVE  Settled'
<1>1. w \in Workers /\ known \subseteq Workers /\ active \in [Workers -> Nat]
  BY PickedIsFree, Types DEF Patient, Ownership
<1>2. active' = [active EXCEPT ![w] = active[w] + 1] \/ active' = active
  BY DEF Dispatch, HandOver, RefuseOnly
<1>3. \A v \in known : active'[v] \in Nat /\ active'[v] >= active[v]
  BY <1>1, <1>2
<1> QED  BY <1>3, SettledFrame

LEMMA AdmitSettled ==
  ASSUME Patient, pc = "accept", UNCHANGED known, NEW c \in Conns, NEW lang \in Langs,
         Admit(c, lang)
  PROVE  Settled'
<1>0. TypeOK /\ known \subseteq Workers /\ active \in [Workers -> Nat]
  BY Types DEF Patient, Ownership
<1>1. CASE q' = q /\ \E w \in GroupPick(lang) : Dispatch(w, c)
  BY <1>1, DispatchSettled
<1>2. CASE q' = q /\ RefuseOnly(c, AtCapacity)
  BY <1>0, <1>2, SettledFrame DEF RefuseOnly
<1>3. CASE /\ ~(GroupQueued(lang) = {} /\ GroupPick(lang) # {})
           /\ Enqueue(c, lang)
  <2>1. \A i \in DOMAIN q : SettledAt(i)
    BY DEF Patient, Settled
  <2>2. Full(lang)
    <3>1. CASE GroupPick(lang) = {}
      BY <1>0, <3>1, NonePickedIsFull
    <3>2. CASE GroupQueued(lang) # {}
      BY <2>1, <3>2 DEF GroupQueued, SettledAt
    <3> QED  BY <1>3, <3>1, <3>2
  <2>3. UNCHANGED active
    BY <1>3 DEF Enqueue
  <2> SUFFICES ASSUME NEW i \in DOMAIN q'
               PROVE  /\ Full(q'[i].lang)
                      /\ QDeadline > 0 => q'[i].age < QDeadline
    BY <2>3 DEF Settled, SettledAt, Full
  <2>4. CASE i \in DOMAIN q /\ q'[i] = q[i]
    BY <2>1, <2>4 DEF SettledAt
  <2>5. CASE q'[i].lang = lang /\ q'[i].age = 0
    BY <2>2, <2>5
  <2> QED  BY <1>3, <2>4, <2>5, AppendInOrder
<1> QED  BY <1>1, <1>2, <1>3 DEF Admit

LEMMA AcceptSettled ==
  ASSUME Patient, NEW c \in Conns, Accept(c)
  PROVE  InOrderOfAge' /\ Settled'
<1>0. /\ pc = "accept" /\ UNCHANGED known
      /\ known \subseteq Workers /\ active \in [Workers -> Nat]
  BY Types DEF Accept, Patient, Ownership
<1>1. CASE \E class : Route(c, class)
  <2>1. PICK class : Route(c, class)
    BY <1>1
  <2>2. ASSUME q' = q, RefuseOnly(c, LanguageNotServed) PROVE Settled'
    BY <1>0, <2>2, SettledFrame DEF RefuseOnly
  <2>3. ASSUME Admit(c, IF class \in Langs THEN class ELSE DefaultLang) PROVE Settled'
    <3>1. (IF class \in Langs THEN class ELSE DefaultLang) \in Langs
      OBVIOUS
    <3> QED  BY <1>0, <2>3, <3>1, AdmitSettled
  <2>4. InOrderOfAge'
    BY <2>1, RouteInOrder
  <2>5. Settled'
    BY <2>1, <2>2, <2>3 DEF Route
  <2> QED  BY <2>4, <2>5
<1>2. CASE Admit(c, DefaultLang)
  BY <1>0, <1>2, AdmitSettled, AdmitInOrder
<1>3. CASE UNCHANGED <<q, active>>
  <2>1. Settled'
    BY <1>0, <1>3, SettledFrame
  <2>2. InOrderOfAge'
    BY <1>3 DEF Patient, InOrderOfAge
  <2> QED  BY <2>1, <2>2
<1> QED  BY <1>1, <1>2, <1>3 DEF Accept

LEMMA PatientStep ==
  ASSUME Patient, [Next]_vars
  PROVE  Patient'
<1>0. /\ Ownership' /\ Ownership /\ TypeOK /\ q \in Seq(Entry)
      /\ InOrderOfAge /\ Settled /\ Starting
      /\ known \subseteq Workers /\ active \in [Workers -> Nat]
  BY OwnershipStep, Types DEF Patient, Ownership
<1> DEFINE Rest == InOrderOfAge' /\ Settled' /\ Starting'
<1>1. ASSUME \/ Lingers \/ CompletionsRead \/ HangupsDone \/ ClassifyDone
             \/ AcceptFails \/ LeaveLoop \/ PollFails \/ Terminate \/ Reaped \/ Watchdog
             \/ (\E p \in pending : KeepPending(p) \/ ShutdownPending(p))
             \/ (\E v \in fired.chan : ReadCompletions(v) \/ WorkerLost(v))
      PROVE  Rest
  <2>1. q' = q /\ pc' \notin {"accept", "poll", "fork"}
    BY <1>1 DEF Lingers, CompletionsRead, HangupsDone, ClassifyDone, AcceptFails, LeaveLoop,
       PollFails, Terminate, Reaped, Watchdog, KeepPending, ShutdownPending, RefuseAtShutdown,
       ReadCompletions, WorkerLost
  <2> QED  BY <1>0, <2>1 DEF InOrderOfAge, Settled, Starting
<1>2. ASSUME \/ Signal \/ UNCHANGED vars
             \/ (\E d \in Conns : Connect(d) \/ Send(d) \/ HangUp(d))
             \/ (\E v \in Workers : Die(v) \/ \E d \in Conns : Finish(v, d))
      PROVE  Rest
  <2>1. UNCHANGED <<q, pc, known, active>>
    BY <1>2 DEF Signal, Connect, Send, HangUp, Die, Finish, vars, ledger
  <2> QED  BY <1>0, <2>1 DEF InOrderOfAge, Settled, SettledAt, Full, Starting
<1>3. ASSUME ForkFails \/ \E v \in Workers : Fork(v) PROVE Rest
  <2>1. q = <<>> /\ q' = q
    BY <1>0, <1>3 DEF ForkFails, Fork, Starting
  <2> QED  BY <2>1 DEF InOrderOfAge, Settled, Starting
<1>4. ASSUME DrainDone PROVE Rest
  <2>1. Settled' /\ q' = q /\ pc' # "fork"
    BY <1>4, SettledDrainDone DEF DrainDone
  <2> QED  BY <1>0, <2>1 DEF InOrderOfAge, Starting
<1>5. ASSUME AcceptRetry PROVE Rest
  <2>1. UNCHANGED <<q, known, active>> /\ pc = "accept" /\ pc' = "poll"
    BY <1>5 DEF AcceptRetry, ledger
  <2> QED  BY <1>0, <2>1 DEF InOrderOfAge, Settled, SettledAt, Full, Starting
<1>6. ASSUME NEW elapsed \in BOOLEAN, Poll(elapsed) PROVE Rest
  <2>1. pc' = "linger"
    BY <1>6 DEF Poll
  <2>2. InOrderOfAge'
    <3>1. CASE ~elapsed
      BY <1>0, <1>6, <3>1 DEF Poll, InOrderOfAge
    <3>2. CASE elapsed
      <4>1. /\ DOMAIN q' = DOMAIN q /\ DOMAIN q \subseteq Nat
            /\ \A i \in DOMAIN q : /\ q'[i].lang = q[i].lang
                                   /\ q'[i].age = Older(q[i].age, QDeadline)
        BY <1>0, <1>6, <3>2 DEF Poll, TimePasses
      <4>2. \A i \in DOMAIN q : q[i].age \in 0..QDeadline
        <5>1. \A i \in DOMAIN q : q[i] \in Entry
          BY <1>0
        <5> QED  BY <5>1 DEF Entry
      <4>3. \A a, b \in 0..QDeadline : a >= b => Older(a, QDeadline) >= Older(b, QDeadline)
        BY DEF Older
      <4> QED  BY <1>0, <4>1, <4>2, <4>3 DEF InOrderOfAge
    <3> QED  BY <3>1, <3>2
  <2> QED  BY <2>1, <2>2 DEF Settled, Starting
<1>7. ASSUME NEW i \in DOMAIN q, DropQueued(i) \/ DrainRefuse(i) \/ DrainDispatch(i) PROVE Rest
  <2>1. q' = QueueErase(q, i) /\ pc' \notin {"accept", "poll", "fork"}
    BY <1>7 DEF DropQueued, DropAt, DrainRefuse, DrainDispatch
  <2> QED  BY <2>1, EraseInOrder DEF Settled, Starting
<1>8. ASSUME ShutdownQueued PROVE Rest
  <2>1. q' = Tail(q) /\ q # <<>> /\ pc' = "shutdown"
    BY <1>8 DEF ShutdownQueued, RefuseAtShutdown
  <2>2. InOrderOfAge'
    <3>1. /\ Len(Tail(q)) = Len(q) - 1 /\ Tail(q) \in Seq(Entry) /\ Len(q) \in Nat
          /\ \A j \in 1..Len(Tail(q)) : Tail(q)[j] = q[j + 1]
      BY <1>0, <2>1, HeadTailProperties
    <3>2. DOMAIN q' \subseteq Nat /\ \A j \in DOMAIN q' : j + 1 \in DOMAIN q /\ q'[j] = q[j + 1]
      BY <1>0, <2>1, <3>1
    <3> QED  BY <1>0, <3>2 DEF InOrderOfAge
  <2> QED  BY <2>1, <2>2 DEF Settled, Starting
<1>9. ASSUME NEW p \in pending, DecidePending(p) PROVE Rest
  <2>1. p.conn \in Conns
    BY <1>0, PendingWaits
  <2>2. (\E class : Route(p.conn, class)) /\ pc' = "classify"
    BY <1>9 DEF DecidePending
  <2>3. InOrderOfAge'
    BY <2>1, <2>2, RouteInOrder
  <2> QED  BY <2>2, <2>3 DEF Settled, Starting
<1>10. ASSUME NEW c \in Conns, Accept(c) PROVE Rest
  <2>1. pc' = "poll"
    BY <1>10 DEF Accept
  <2> QED  BY <1>10, <2>1, AcceptSettled DEF Starting
<1>11. Rest
  <2> HIDE DEF Rest
  <2> QED
    BY <1>1, <1>2, <1>3, <1>4, <1>5, <1>6, <1>7, <1>8, <1>9, <1>10
       DEF Next, RouterStep, Environment, Terminated
<1> QED  BY <1>0, <1>11 DEF Patient

\* When the router goes to sleep, nobody waits for a slot that is free, and
\* nobody is still queued past the deadline.
THEOREM NobodyWaitsNeedlessly == Spec => []NoNeedlessWait
<1>1. Init => Patient
  <2>1. Init => InOrderOfAge /\ Settled /\ Starting
    BY DEF Init, InOrderOfAge, Settled, Starting
  <2> QED  BY <2>1, OwnershipInit DEF Patient
<1>2. Patient /\ [Next]_vars => Patient'
  BY PatientStep
<1>3. Patient => NoNeedlessWait
  <2> SUFFICES ASSUME Patient, pc = "poll", NEW i \in DOMAIN q
               PROVE  GroupPick(q[i].lang) = {} /\ (QDeadline > 0 => q[i].age < QDeadline)
    BY DEF NoNeedlessWait
  <2>1. SettledAt(i) /\ TypeOK
    BY DEF Patient, Settled, Ownership
  <2> QED  BY <2>1, PickedNoneIsFull DEF SettledAt
<1> QED  BY <1>1, <1>2, <1>3, PTL DEF Spec
==============================================================================
