------------------------------ MODULE MCSpine ------------------------------
(* Model-checking instance of Spine. *)
EXTENDS Spine, TLC

Symmetry == Permutations(Proc)
=============================================================================
