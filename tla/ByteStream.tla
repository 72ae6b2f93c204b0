----------------------------- MODULE ByteStream -----------------------------
(***************************************************************************)
(* What a streaming response promises its client, without ring, threads or *)
(* condition variables: the audio arrives in the order it was given, and   *)
(* the end of the response is marked only after all of it.                 *)
(***************************************************************************)
EXTENDS Integers, Sequences

CONSTANT Streams

VARIABLES
  given,   \* samples taken from the synthesizer, in order
  got,     \* samples the client was sent
  end      \* "open", "complete" (terminated) or "cut" (closed without)

vars == <<given, got, end>>

Init ==
  /\ given = [s \in Streams |-> <<>>]
  /\ got = [s \in Streams |-> <<>>]
  /\ end = [s \in Streams |-> "open"]

Give(s) ==
  /\ end[s] = "open"
  /\ Len(given'[s]) > Len(given[s])
  /\ SubSeq(given'[s], 1, Len(given[s])) = given[s]
  /\ given' = [given EXCEPT ![s] = given'[s]]
  /\ UNCHANGED <<got, end>>

Send(s) ==
  /\ end[s] = "open" /\ Len(got[s]) < Len(given[s])
  /\ got' = [got EXCEPT ![s] = Append(@, given[s][Len(@) + 1])]
  /\ UNCHANGED <<given, end>>

Complete(s) ==
  /\ end[s] = "open" /\ got[s] = given[s]
  /\ end' = [end EXCEPT ![s] = "complete"]
  /\ UNCHANGED <<given, got>>

Cut(s) ==
  /\ end[s] = "open"
  /\ end' = [end EXCEPT ![s] = "cut"]
  /\ UNCHANGED <<given, got>>

Next == \E s \in Streams : Give(s) \/ Send(s) \/ Complete(s) \/ Cut(s)

Spec == Init /\ [][Next]_vars
=============================================================================
