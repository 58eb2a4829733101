------------------------------ MODULE EventLog ------------------------------
(***************************************************************************)
(* What the spine promises its users: one ordered log of events, of which  *)
(* a growing prefix is sealed.  Events are numbered in log order.          *)
(***************************************************************************)
EXTENDS Integers

VARIABLES
  accepted,  \* number of events in the log
  sealed     \* the events that are in the hash chain

vars == <<accepted, sealed>>

Init == accepted = 0 /\ sealed = {}

\* Writers extend the log.
Accept ==
  /\ accepted' \in accepted + 1 .. accepted + 2
  /\ UNCHANGED sealed

\* The sealer extends the sealed prefix and leaves no gap.
Seal ==
  /\ \E k \in 1..accepted :
       /\ k \notin sealed
       /\ sealed' = 1..k
       /\ sealed \subseteq sealed'
  /\ UNCHANGED accepted

Next == Accept \/ Seal

Spec == Init /\ [][Next]_vars
=============================================================================
