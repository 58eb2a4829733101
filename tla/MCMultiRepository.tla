------------------------- MODULE MCMultiRepository -------------------------
(* Three repositories, so that a compensation has a middle; four calls of   *)
(* apply, of which three may be cut short; one commit of somebody else.     *)
EXTENDS MultiRepository
=============================================================================
