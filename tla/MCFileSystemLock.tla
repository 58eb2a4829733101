-------------------------- MODULE MCFileSystemLock --------------------------
(* Model-checking instances of FileSystemLock. *)
EXTENDS FileSystemLock, TLC

CONSTANTS t1, t2, t3, h1, h2, h3

\* Three processes with one caller each.
Apart == (t1 :> h1) @@ (t2 :> h2) @@ (t3 :> h3)
\* Two callers share a process and compete with a third elsewhere.
Shared == (t1 :> h1) @@ (t2 :> h1) @@ (t3 :> h2)

\* One call each, or second calls: by t1, which may find t2 still chained, and by
\* the task of the other process.
Once == [t \in {t1, t2, t3} |-> 1]
Again == (t1 :> 2) @@ (t2 :> 1) @@ (t3 :> 2)
=============================================================================
