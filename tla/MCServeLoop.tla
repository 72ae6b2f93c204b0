---------------------------- MODULE MCServeLoop ----------------------------
(***************************************************************************)
(* Configurations of the driver: the plain loop with a batch narrower than *)
(* its rows; gangs of prefills and decodes with a ramp; step overlap; step *)
(* and decode overlap; asynchronous and late admission.                    *)
(***************************************************************************)
EXTENDS ServeLoop

CONSTANTS r1, r2, r3

Serial == [overlap |-> FALSE, decode |-> FALSE, firstFirst |-> FALSE, gangPrefill |-> FALSE,
           late |-> FALSE, segments |-> FALSE, capacity |-> 2, batch |-> 1, emit |-> 1,
           admitCap |-> 0, inline |-> 9, offers |-> {r1, r2, r3}, frames |-> 1]
Together == [Serial EXCEPT !.gangPrefill = TRUE, !.batch = 2, !.emit = 2,
                         !.offers = {r1, r2}, !.frames = 3]
Overlapped == [Serial EXCEPT !.overlap = TRUE, !.segments = TRUE, !.batch = 2, !.offers = {r1, r3}]
Ahead == [Together EXCEPT !.overlap = TRUE, !.decode = TRUE, !.segments = TRUE, !.frames = 2]
AheadFirst == [Ahead EXCEPT !.firstFirst = TRUE, !.segments = FALSE]
Crowded == [AheadFirst EXCEPT !.firstFirst = FALSE, !.gangPrefill = FALSE, !.emit = 1,
                              !.frames = 1, !.offers = {r1, r2, r3}]
Helped == [AheadFirst EXCEPT !.firstFirst = FALSE, !.inline = 0, !.late = TRUE, !.gangPrefill = FALSE, !.frames = 1,
                             !.offers = {r1, r3}]
Capped == [Serial EXCEPT !.admitCap = 1, !.offers = {r1, r2}]

AllModes == {Serial, Together, Overlapped, Ahead, AheadFirst, Crowded, Helped}
AheadOnly == {Ahead}
CappedOnly == {Capped}
=============================================================================
