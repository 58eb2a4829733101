----------------------- MODULE MCSyncFileMutationLock -----------------------
(* Model-checking instance of SyncFileMutationLock. *)
EXTENDS SyncFileMutationLock, TLC

Symmetry == Permutations(Proc)
=============================================================================
