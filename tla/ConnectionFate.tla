--------------------------- MODULE ConnectionFate ---------------------------
(***************************************************************************)
(* What the prefork router promises about each client connection, without  *)
(* queues, clocks or phases: it is handed to one worker that has room for  *)
(* it, refused, or found gone, and that is decided once.                   *)
(***************************************************************************)
EXTENDS Integers, FiniteSets

CONSTANTS Conns, Workers, Slots

VARIABLES
  fate,   \* what has become of each connection
  gone,   \* whether its client has hung up
  load    \* connections each worker has been handed and not given back

Open == {"backlog", "waiting"}

Init ==
  /\ fate = [c \in Conns |-> "idle"]
  /\ gone = [c \in Conns |-> FALSE]
  /\ load = [w \in Workers |-> {}]

\* the client connects; the fleet takes the connection and keeps it waiting
Arrive(c) ==
  /\ fate[c] = "idle"
  /\ fate' = [fate EXCEPT ![c] = "backlog"]
  /\ UNCHANGED <<gone, load>>

Park(c) ==
  /\ fate[c] \in Open
  /\ fate' = [fate EXCEPT ![c] = "waiting"]
  /\ UNCHANGED <<gone, load>>

Hand(c, w) ==
  /\ fate[c] \in Open
  /\ Cardinality(load[w]) < Slots
  /\ fate' = [fate EXCEPT ![c] = "handed"]
  /\ load' = [load EXCEPT ![w] = @ \cup {c}]
  /\ gone' = gone

\* the client hangs up; only then may it be dropped without an answer
HangUp(c) ==
  /\ fate[c] \in Open /\ ~gone[c]
  /\ gone' = [gone EXCEPT ![c] = TRUE]
  /\ UNCHANGED <<fate, load>>

Refuse(c) ==
  /\ fate[c] \in Open
  /\ fate' = [fate EXCEPT ![c] = "refused"]
  /\ UNCHANGED <<gone, load>>

Leave(c) ==
  /\ fate[c] = "waiting" /\ gone[c]
  /\ fate' = [fate EXCEPT ![c] = "gone"]
  /\ UNCHANGED <<gone, load>>

\* completions come back in any order and several at a time; a worker that is
\* lost gives back all it had
Release(w) ==
  /\ \E rest \in SUBSET load[w] : load' = [load EXCEPT ![w] = rest]
  /\ UNCHANGED <<fate, gone>>

Next ==
  \/ \E c \in Conns : Arrive(c) \/ Park(c) \/ HangUp(c) \/ Refuse(c) \/ Leave(c)
  \/ \E c \in Conns, w \in Workers : Hand(c, w)
  \/ \E w \in Workers : Release(w)

Spec == Init /\ [][Next]_<<fate, gone, load>>
=============================================================================
