--------------------------- MODULE ParallelRegion ---------------------------
(***************************************************************************)
(* What a team of threads promises whoever hands it a loop: each item is   *)
(* run by one thread, once, and the call returns when all of them have     *)
(* been.                                                                   *)
(***************************************************************************)
CONSTANTS
  Threads, \* those that may run items
  Items    \* what a loop may range over

VARIABLES
  open,    \* somebody is inside the call
  todo,    \* the items nobody has begun
  doing    \* those each thread is running

vars == <<open, todo, doing>>
NobodyRuns == doing = [t \in Threads |-> {}]

Init == ~open /\ todo = {} /\ NobodyRuns

Begin ==
  /\ ~open /\ open'
  /\ todo' \in (SUBSET Items) \ {{}}
  /\ NobodyRuns /\ UNCHANGED doing

Start(t) ==
  /\ open /\ doing[t] = {}
  /\ \E items \in (SUBSET todo) \ {{}} :
       /\ todo' = todo \ items
       /\ doing' = [doing EXCEPT ![t] = items]
  /\ UNCHANGED open

Finish(t) ==
  /\ doing[t] # {}
  /\ doing' = [doing EXCEPT ![t] = {}]
  /\ UNCHANGED <<open, todo>>

Return ==
  /\ open /\ ~open'
  /\ todo = {} /\ NobodyRuns
  /\ UNCHANGED <<todo, doing>>

Next == Begin \/ Return \/ \E t \in Threads : Start(t) \/ Finish(t)

Spec == Init /\ [][Next]_vars
=============================================================================
