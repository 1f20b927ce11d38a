---------------------------- MODULE MCLakeLease ----------------------------
(***************************************************************************)
(* LakeLease on a small instance.  A version is remembered by the object   *)
(* and by at most one field of each handle, so one more version than that  *)
(* always leaves a fresh one.                                              *)
(***************************************************************************)
EXTENDS LakeLease, TLC

Symmetry == Permutations(Attempt)
=============================================================================
