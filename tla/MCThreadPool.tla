---------------------------- MODULE MCThreadPool ----------------------------
(***************************************************************************)
(* Settings of the pool: two workers and regions inside regions, with each *)
(* way to look for work and to leave; two submitters and one worker;       *)
(* workers that cannot be created, and a fork.                             *)
(***************************************************************************)
EXTENDS ThreadPool

CONSTANTS w1, w2, w3, s1, s2

Nested == [precheck |-> FALSE, narrow |-> FALSE, fastexit |-> FALSE, lows |-> {FALSE},
           offers |-> {s1}, teams |-> {2}, forks |-> 0, spurious |-> FALSE]
NestedFast == [Nested EXCEPT !.precheck = TRUE, !.narrow = TRUE, !.fastexit = TRUE]
Shared == [Nested EXCEPT !.precheck = TRUE, !.offers = {s1, s2}, !.teams = {1}, !.spurious = TRUE]
SharedFast == [Shared EXCEPT !.fastexit = TRUE, !.teams = {0, 1}]
SharedPlain == [Shared EXCEPT !.precheck = FALSE, !.lows = BOOLEAN]
Forked == [Shared EXCEPT !.forks = 1, !.spurious = FALSE]

AllModes == {Nested, NestedFast, Shared, SharedFast, SharedPlain, Forked}
=============================================================================
