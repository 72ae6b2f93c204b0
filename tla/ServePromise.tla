---------------------------- MODULE ServePromise ----------------------------
(***************************************************************************)
(* What a driver promises the sink it serves from (src/graph.h,            *)
(* mynah_graph_sink): it takes what was offered; a request it takes is     *)
(* reported exactly once, as cancelled if its client was found gone and    *)
(* only then; sound reaches a client only in between, and never after the  *)
(* client was found gone.                                                  *)
(***************************************************************************)
EXTENDS Naturals

CONSTANT Requests
VARIABLES
  state,  \* what the sink knows of each request
  heard   \* how much of each request its client has been given

Init ==
  /\ state = [r \in Requests |-> "unseen"]
  /\ heard = [r \in Requests |-> 0]

Offer(r) ==
  /\ state[r] = "unseen"
  /\ state' = [state EXCEPT ![r] = "offered"]
  /\ UNCHANGED heard

\* Sound may reach any clients whose requests are held, in any step.
Sounds ==
  /\ heard' \in [Requests -> Nat]
  /\ \A r \in Requests : heard'[r] # heard[r] => state[r] = "taken" /\ heard'[r] > heard[r]

\* A request that cannot start is taken and reported at once.
Take(r) ==
  /\ state[r] = "offered"
  /\ \E s \in {"taken", "FAILED"} : state' = [state EXCEPT ![r] = s]
  /\ Sounds

\* One pass may report several requests, after the last of their sound, or find
\* several whose clients are gone: those hear nothing more.
Fates(s) ==
  CASE s = "taken" -> {"taken", "dropped", "OK", "FAILED"}
    [] s = "dropped" -> {"dropped", "CANCELLED"}
    [] s \notin {"taken", "dropped"} -> {s}
Settle ==
  /\ DOMAIN state' = Requests /\ \A r \in Requests : state'[r] \in Fates(state[r])
  /\ Sounds

Next == Settle \/ \E r \in Requests : Offer(r) \/ Take(r)

Spec == Init /\ [][Next]_<<state, heard>>
=============================================================================
