--------------------------- MODULE MCLakeApproval ---------------------------
(***************************************************************************)
(* LakeApproval on a small instance.                                       *)
(***************************************************************************)
EXTENDS LakeApproval, TLC

Symmetry == Permutations(Run) \cup Permutations(Operator)
=============================================================================
