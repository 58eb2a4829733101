------------------------ MODULE SyncFileMutationLock ------------------------
(***************************************************************************)
(* withSyncFileMutationLock (src/src/spine/sync_file_mutation_lock.ts):    *)
(* the fail-fast lock around synchronous read-modify-write stores.  The    *)
(* lock file is created with O_EXCL and filled afterwards; a contender     *)
(* fails at once, except that with stale takeover allowed it renames a     *)
(* dead owner's file away and tries again.  Every file operation is one    *)
(* step; a process may die between any two.                                *)
(***************************************************************************)
EXTENDS Integers

CONSTANTS
  Proc,     \* operating-system processes (one calling thread each)
  MaxCalls  \* bound: calls per process

ASSUME ProcAssumption == "none" \notin Proc
ASSUME MaxCallsAssumption == MaxCalls \in Nat

VARIABLES
  allowStaleTakeover, \* the option the callers of this store pass; never changes
  carrier,  \* the file at lockPath, or NoFile
  seen,     \* the owner record each process last read
  alive,    \* processes that have not died
  pc,       \* where each process is
  calls     \* calls so far; makes each call's token fresh

vars == <<allowStaleTakeover, carrier, seen, alive, pc, calls>>

Token(p) == [proc |-> p, call |-> calls[p]]
NoToken == [proc |-> "none", call |-> 0]
NoFile == [by |-> NoToken, written |-> FALSE]

Labels == {"idle", "create", "write", "read", "judge", "rename", "cs",
           "release", "unlink"}

Init ==
  /\ allowStaleTakeover \in BOOLEAN
  /\ carrier = NoFile
  /\ seen = [p \in Proc |-> NoFile]
  /\ alive = Proc
  /\ pc = [p \in Proc |-> "idle"]
  /\ calls = [p \in Proc |-> 0]

At(p, l) == p \in alive /\ pc[p] = l
Goto(p, l) == pc' = [pc EXCEPT ![p] = l]

\* A call draws its token.
Call(p) ==
  /\ At(p, "idle")
  /\ calls[p] < MaxCalls
  /\ calls' = [calls EXCEPT ![p] = @ + 1]
  /\ Goto(p, "create")
  /\ UNCHANGED <<carrier, seen, alive>>

\* Mutant of Create: open without O_EXCL.
CreateShared(p) ==
  /\ At(p, "create")
  /\ carrier' = [by |-> Token(p), written |-> FALSE]
  /\ Goto(p, "write")
  /\ UNCHANGED <<seen, alive, calls>>

\* Mutant of Create: the custody option is not consulted.
CreateIgnoresOption(p) ==
  /\ At(p, "create")
  /\ IF carrier = NoFile
       THEN /\ carrier' = [by |-> Token(p), written |-> FALSE]
            /\ Goto(p, "write")
       ELSE Goto(p, "read") /\ UNCHANGED carrier
  /\ UNCHANGED <<seen, alive, calls>>

\* openSync(O_CREAT | O_EXCL); EEXIST is refused or, with takeover, examined.
Create(p) ==
  /\ At(p, "create")
  /\ IF carrier = NoFile
       THEN /\ carrier' = [by |-> Token(p), written |-> FALSE]
            /\ Goto(p, "write")
       ELSE /\ Goto(p, IF allowStaleTakeover THEN "read" ELSE "idle")
            /\ UNCHANGED carrier
  /\ UNCHANGED <<seen, alive, calls>>

\* The path after the owner record is written to the descriptor.
Filled(p) == IF carrier.by = Token(p) THEN [carrier EXCEPT !.written = TRUE]
             ELSE carrier

\* Write the owner record, sync, and run the function.
Write(p) ==
  /\ At(p, "write")
  /\ carrier' = Filled(p)
  /\ Goto(p, "cs")
  /\ UNCHANGED <<seen, alive, calls>>

\* The write, or a sync after it, fails: unlinkSync(lockPath), whose own failure
\* is swallowed, and give up.
WriteFails(p) ==
  /\ At(p, "write")
  /\ carrier' \in {NoFile, carrier, Filled(p)}
  /\ Goto(p, "idle")
  /\ UNCHANGED <<seen, alive, calls>>

\* Read the owner; a file that is gone or does not parse is an error.
Read(p) ==
  /\ At(p, "read")
  /\ seen' = [seen EXCEPT ![p] = carrier]
  /\ Goto(p, IF carrier.written THEN "judge" ELSE "idle")
  /\ UNCHANGED <<carrier, alive, calls>>

\* alive(owner): refuse.
Judge(p) ==
  /\ At(p, "judge")
  /\ Goto(p, IF seen[p].by.proc \in alive THEN "idle" ELSE "rename")
  /\ UNCHANGED <<carrier, seen, alive, calls>>

\* renameSync(lockPath, stalePath), by path; ENOENT is thrown.
Rename(p) ==
  /\ At(p, "rename")
  /\ carrier' = NoFile
  /\ Goto(p, IF carrier = NoFile THEN "idle" ELSE "create")
  /\ UNCHANGED <<seen, alive, calls>>

\* The function settles.
Leave(p) ==
  /\ At(p, "cs")
  /\ Goto(p, "release")
  /\ UNCHANGED <<carrier, seen, alive, calls>>

\* Release: the record must carry this call's token.
Verify(p) ==
  /\ At(p, "release")
  /\ Goto(p, IF carrier = [by |-> Token(p), written |-> TRUE] THEN "unlink" ELSE "idle")
  /\ UNCHANGED <<carrier, seen, alive, calls>>

\* unlinkSync(lockPath)
Unlink(p) ==
  /\ At(p, "unlink")
  /\ carrier' = NoFile
  /\ Goto(p, "idle")
  /\ UNCHANGED <<seen, alive, calls>>

\* The process dies; its file stays.
Crash(p) ==
  /\ p \in alive
  /\ alive' = alive \ {p}
  /\ UNCHANGED <<carrier, seen, pc, calls>>

Next ==
  /\ \E p \in Proc :
       \/ Call(p) \/ Create(p) \/ Write(p) \/ WriteFails(p) \/ Read(p) \/ Judge(p)
       \/ Rename(p) \/ Leave(p) \/ Verify(p) \/ Unlink(p) \/ Crash(p)
  /\ UNCHANGED allowStaleTakeover

Spec == Init /\ [][Next]_vars

-----------------------------------------------------------------------------
Tokens == [proc : Proc, call : 0..MaxCalls] \cup {NoToken}

\* Every variable keeps the shape of the lock file and of the local variables
\* of withSyncFileMutationLock.
TypeOK ==
  /\ allowStaleTakeover \in BOOLEAN
  /\ carrier \in [by : Tokens, written : BOOLEAN]
  /\ carrier.by = NoToken => carrier = NoFile
  /\ seen \in [Proc -> [by : Tokens, written : BOOLEAN]]
  /\ alive \subseteq Proc
  /\ pc \in [Proc -> Labels]
  /\ calls \in [Proc -> 0..MaxCalls]

InCS(p) == p \in alive /\ pc[p] = "cs"

Exclusive == \A p, q \in Proc : InCS(p) /\ InCS(q) => p = q

\* No file can be taken away from a live owner: takeover is off, or nobody
\* has died yet.
NoTakeover == ~allowStaleTakeover \/ alive = Proc

\* "Preserve the carrier for explicit reconciliation": with takeover disabled
\* no two live processes run the function together, whoever died; with it
\* enabled the same holds until a process dies.
ExclusiveWithoutTakeover == NoTakeover => Exclusive

\* Why: without takeover the file always belongs to the process that is past
\* its creation, and nobody is about to rename it.
OwnerKeepsCarrier ==
  NoTakeover =>
    \A p \in Proc :
      /\ pc[p] # "rename"
      /\ pc[p] \in {"read", "judge"} => allowStaleTakeover
      /\ pc[p] = "judge" => seen[p].by # NoToken
      /\ p \in alive /\ pc[p] \in {"write", "cs", "release", "unlink"}
           => carrier.by = Token(p)
=============================================================================
