-------------------------- MODULE MCPreforkRouter --------------------------
(* Instances of PreforkRouter small enough for TLC: a fleet that speaks one *)
(* language, and one that speaks two.                                       *)
EXTENDS PreforkRouter, TLC

CONSTANTS en, fr

OneGroup == [w \in Workers |-> en]

\* contiguous groups: the first worker speaks en, the last one fr
Last == CHOOSE w \in Workers : TRUE
TwoGroups == [w \in Workers |-> IF w = Last THEN fr ELSE en]

OneLang == {en}
TwoLangs == {en, fr}
NoNames == {Unnamed}
FrOrUnknown == {fr, Unknown}

Symmetric == Permutations(Conns)
=============================================================================
