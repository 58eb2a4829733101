------------------------ MODULE MCLogicalAppendLock ------------------------
(* Model-checking instance of LogicalAppendLock. *)
EXTENDS LogicalAppendLock
=============================================================================
