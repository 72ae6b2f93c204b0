----------------------------- MODULE MCTextSegment -----------------------------
(* A dictionary small enough to enumerate every path, with the cases the      *)
(* encoder tells apart: a piece that joins the space symbol, pieces that      *)
(* overlap, a piece defined by the user, an unused piece that hides a usable  *)
(* one of the same spelling, and characters no piece spells.                  *)
EXTENDS TextSegment

MCSpellings ==
  << <<"<", "u", "n", "k", ">">>, <<"_">>, <<"a">>, <<"_", "a">>, <<"a", "a">>, <<".">>, <<",">>, <<".", ".">>,
     <<")">>, <<")">>, <<"a", ".">> >>

MCDictionary ==
  [id \in 1..11 |->
     [spelling |-> MCSpellings[id],
      score |-> 0 - <<0, 3, 5, 4, 4, 2, 2, 9, 1, 1, 8>>[id],
      type |-> CASE id = 1 -> "unknown" [] id = 8 -> "user_defined" [] id = 9 -> "unused" [] OTHER -> "normal"]]

MCBytesOf ==
  [char \in {"a", ".", ",", ")", "nl", " ", "<", "u", "n", "k", ">"} |-> 1] @@ [char \in {"_", "fffd"} |-> 3]
    @@ [char \in {"bad"} |-> 1]

MCWhitespace == {" ", "nl"}
MCSentenceMarks == {"."}
MCClauseMarks == {","}
MCClosers == {")"}
MCAlphabet == {"a", ".", ",", ")", " ", "nl", "bad"}
MCBudgets == {<<4, 2>>, <<3, 0>>, <<2, 6>>}
=============================================================================
