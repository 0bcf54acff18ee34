----------------------------- MODULE MCGovernor -----------------------------
(* Governor with the values of its set-valued constants for TLC. *)
EXTENDS Governor

ShortAndLong == {1, 3}
Halved == {25}
None == {}
=============================================================================
