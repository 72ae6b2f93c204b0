---------------------------- MODULE MCSlotPool ----------------------------
(***************************************************************************)
(* Sizes in growth chunks.  A text's own ceiling may be below the fixed    *)
(* size (brief), past twice it (long), or leave nothing to grow (full).    *)
(***************************************************************************)
EXTENDS SlotPool, TLC

CONSTANTS s1, s2

Symmetric == Permutations(Rows)

Brief == [floor |-> 1, est |-> 2, top |-> 3]
Long == [floor |-> 2, est |-> 3, top |-> 5]
Full == [floor |-> 1, est |-> 4, top |-> 4]
AllShapes == {Brief, Long, Full}
=============================================================================
