---------------------------- MODULE MCStreamOut ----------------------------
(* StreamOut with one stream, for TLC.                                     *)
EXTENDS StreamOut

CONSTANT s1
=============================================================================
