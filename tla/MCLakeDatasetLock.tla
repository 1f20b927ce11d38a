------------------------- MODULE MCLakeDatasetLock -------------------------
(***************************************************************************)
(* LakeDatasetLock on small instances.  Attempts of one kind are alike.    *)
(***************************************************************************)
EXTENDS LakeDatasetLock, TLC

Symmetry == Permutations(Shared) \cup Permutations(Exclusive)
=============================================================================
