-------------------------- MODULE MCProjectRuntime --------------------------
(* Model-checking instances of ProjectRuntime. *)
EXTENDS ProjectRuntime

CONSTANTS p1, p2, j1, j2, res

\* One job holds the resource exclusively, the other claims none.
MCResource == [j \in Jobs |-> IF j = j1 THEN res ELSE NoResource]

MCHome == [j \in Jobs |-> IF j = j1 THEN p1 ELSE p2]
=============================================================================
