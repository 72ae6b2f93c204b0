----------------------------- MODULE MCHostPool -----------------------------
(***************************************************************************)
(* Two workers and two submitters, each of which may call while the        *)
(* other's region is open.                                                 *)
(***************************************************************************)
EXTENDS HostPool

CONSTANTS w1, w2, s1, s2
=============================================================================
