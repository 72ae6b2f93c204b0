---------------------------- MODULE MCSynthJobs ----------------------------
(* A server of two workers, with one slot, one place in each queue and one  *)
(* warm-up job, for TLC.                                                    *)
EXTENDS SynthJobs, TLC

CONSTANTS c1, c2, c3, warm, w1, w2

Symmetric == Permutations(Conns) \cup Permutations(Workers)
=============================================================================
