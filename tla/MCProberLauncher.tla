--------------------------- MODULE MCProberLauncher ---------------------------
(* Two launchers that compete for one UID; the other of the range is reserved. *)
EXTENDS ProberLauncher
CONSTANTS a1, a2, u1, u2
MCAttempts == {a1, a2}
MCUids == {u1, u2}
MCReserved == {u2}
MCCanary == {a2}
=============================================================================
