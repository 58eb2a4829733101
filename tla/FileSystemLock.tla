--------------------------- MODULE FileSystemLock ---------------------------
(***************************************************************************)
(* FileSystemLock and the InProcessLock it is built on                     *)
(* (src/src/lock/lock.ts): the asynchronous lock around the spine's        *)
(* sealer.  Inside a process, callers queue on a chain of promises; the    *)
(* head of the chain competes with other processes for one lock file,      *)
(* created with O_EXCL and filled with the owner's identity afterwards.    *)
(* A dead owner's file is renamed away by whoever notices.  Every file     *)
(* operation is one step; a process may die between any two.               *)
(***************************************************************************)
EXTENDS Integers

CONSTANTS
  Task,      \* asynchronous callers of withLock, all on the same key
  Host,      \* Host[t]: the process (FileSystemLock object) t runs in
  MaxCalls   \* bound: MaxCalls[t] calls of withLock by task t

ASSUME MaxCallsAssumption == MaxCalls \in [Task -> Nat]

VARIABLES
  tails,     \* InProcessLock.tails: the last gate of each process, or NoGate
  prev,      \* the gate each task's current call awaits
  opened,    \* gates that have been resolved
  carrier,   \* the file at the lock path, or NoFile
  seen,      \* the owner each task last read
  expired,   \* calls whose acquisition window has elapsed
  alive,     \* processes that have not died
  pc,        \* where each task is
  calls      \* calls so far; makes each call's gate and token fresh

vars == <<tails, prev, opened, carrier, seen, expired, alive, pc, calls>>

Proc == {Host[t] : t \in Task}
\* A call is identified by its task and number; the code's random token, its
\* gate promise and the tail derived from it are all one-to-one with it.
Id(t) == [task |-> t, call |-> calls[t]]
NoGate == [task |-> "none", call |-> 0]
NoFile == [by |-> NoGate, written |-> FALSE]

\* alive(pid, processStart)
Alive(t) == Host[t] \in alive

Acquiring == {"create", "write", "read", "exists", "decide", "rename"}
Holding == {"cs", "release", "unlink"}

Init ==
  /\ tails = [h \in Proc |-> NoGate]
  /\ prev = [t \in Task |-> NoGate]
  /\ opened = {NoGate}
  /\ carrier = NoFile
  /\ seen = [t \in Task |-> NoFile]
  /\ expired = {}
  /\ alive = Proc
  /\ pc = [t \in Task |-> "idle"]
  /\ calls = [t \in Task |-> 0]

At(t, l) == Alive(t) /\ pc[t] = l
Goto(t, l) == pc' = [pc EXCEPT ![t] = l]

-----------------------------------------------------------------------------
\* InProcessLock.withLock, first half: chain a new gate behind the tail.
Enqueue(t) ==
  /\ At(t, "idle")
  /\ calls[t] < MaxCalls[t]
  /\ calls' = [calls EXCEPT ![t] = @ + 1]
  /\ prev' = [prev EXCEPT ![t] = tails[Host[t]]]
  /\ tails' = [tails EXCEPT ![Host[t]] = Id(t)']
  /\ Goto(t, "queued")
  /\ UNCHANGED <<opened, carrier, seen, expired, alive>>

\* await prev, then FileSystemLock.acquire starts its clock.
Start(t) ==
  /\ At(t, "queued")
  /\ prev[t] \in opened
  /\ prev' = [prev EXCEPT ![t] = NoGate]
  /\ Goto(t, "create")
  /\ UNCHANGED <<tails, opened, carrier, seen, expired, alive, calls>>

\* Mutant of Finish: the map entry is dropped even when a later waiter owns it.
FinishDropsTail(t) ==
  /\ opened' = opened \cup {Id(t)}
  /\ tails' = [tails EXCEPT ![Host[t]] = NoGate]
  /\ Goto(t, "idle")

\* Mutant of Finish: the gate is left closed.
FinishKeepsGate(t) ==
  /\ UNCHANGED opened
  /\ tails' = [tails EXCEPT ![Host[t]] = IF @ = Id(t) THEN NoGate ELSE @]
  /\ Goto(t, "idle")

\* InProcessLock's finally block: open the gate, drop the tail if it is ours.
Finish(t) ==
  /\ opened' = opened \cup {Id(t)}
  /\ tails' = [tails EXCEPT ![Host[t]] = IF @ = Id(t) THEN NoGate ELSE @]
  /\ Goto(t, "idle")

-----------------------------------------------------------------------------
\* Mutant of Create: open without O_EXCL truncates whatever is there.
CreateShared(t) ==
  /\ At(t, "create")
  /\ carrier' = [by |-> Id(t), written |-> FALSE]
  /\ Goto(t, "write")
  /\ UNCHANGED <<tails, prev, opened, seen, expired, alive, calls>>

\* openSync(O_CREAT | O_EXCL)
Create(t) ==
  /\ At(t, "create")
  /\ IF carrier = NoFile
       THEN /\ carrier' = [by |-> Id(t), written |-> FALSE]
            /\ Goto(t, "write")
       ELSE Goto(t, "read") /\ UNCHANGED carrier
  /\ UNCHANGED <<tails, prev, opened, seen, expired, alive, calls>>

\* Mutant of Written: the record is written through the path.
WrittenByPath(t) == [carrier EXCEPT !.written = TRUE]

\* Writing goes to the descriptor: a file renamed away meanwhile is not at the
\* path any more.
Written(t) ==
  IF carrier.by = Id(t) THEN [carrier EXCEPT !.written = TRUE] ELSE carrier

\* writeFileSync, fsync, close, syncDirectory, return: t holds the lock.
Write(t) ==
  /\ At(t, "write")
  /\ carrier' = Written(t)
  /\ Goto(t, "cs")
  /\ UNCHANGED <<tails, prev, opened, seen, expired, alive, calls>>

\* The write or one of the syncs fails: acquire throws, the file stays.
WriteFails(t) ==
  /\ At(t, "write")
  /\ carrier' \in {carrier, Written(t)}
  /\ Finish(t)
  /\ UNCHANGED <<prev, seen, expired, alive, calls>>

\* The owner variable belongs to one turn of the loop.
Forget(t) == seen' = [seen EXCEPT ![t] = NoFile]

\* Read the owner.  ENOENT leaves it undefined; a file that is not yet written
\* does not parse, and any other read may fail too.
Read(t) ==
  /\ At(t, "read")
  /\ seen' = [seen EXCEPT ![t] = carrier]
  /\ \/ Goto(t, "exists")
     \/ (carrier # NoFile => carrier.written) /\ Goto(t, "decide")
  /\ UNCHANGED <<tails, prev, opened, carrier, expired, alive, calls>>

\* After an error: a file that is still at the path is refused, one that
\* has gone leaves the owner undefined.
Exists(t) ==
  /\ At(t, "exists")
  /\ IF carrier = NoFile
       THEN /\ seen' = [seen EXCEPT ![t] = NoFile]
            /\ Goto(t, "decide")
            /\ UNCHANGED <<tails, opened>>
       ELSE Finish(t) /\ Forget(t)
  /\ UNCHANGED <<prev, carrier, expired, alive, calls>>

\* A live owner is waited for until the window elapses and then refused; an
\* undefined one is waited for until the window elapses; otherwise take over.
Decide(t) ==
  /\ At(t, "decide")
  /\ LET undef == seen[t] = NoFile
         live  == ~undef /\ Alive(seen[t].by.task)
         late  == Id(t) \in expired
     IN  \/ live /\ late /\ Finish(t) /\ Forget(t)
         \/ /\ (live \/ undef) /\ ~late
            /\ Goto(t, "create") /\ Forget(t) /\ UNCHANGED <<tails, opened>>
         \/ /\ ~live /\ (undef => late)
            /\ Goto(t, "rename") /\ Forget(t) /\ UNCHANGED <<tails, opened>>
  /\ UNCHANGED <<prev, carrier, expired, alive, calls>>

\* renameSync(path, path.stale-...): whatever is at the path by now.
Rename(t) ==
  /\ At(t, "rename")
  /\ carrier' = NoFile
  /\ Goto(t, "create")
  /\ UNCHANGED <<tails, prev, opened, seen, expired, alive, calls>>

\* The locked function settles.
Leave(t) ==
  /\ At(t, "cs")
  /\ Goto(t, "release")
  /\ UNCHANGED <<tails, prev, opened, carrier, seen, expired, alive, calls>>

\* Release: the file must be ours, or the call throws.
Verify(t) ==
  /\ At(t, "release")
  /\ IF carrier = [by |-> Id(t), written |-> TRUE]
       THEN Goto(t, "unlink") /\ UNCHANGED <<tails, opened>>
       ELSE Finish(t)
  /\ UNCHANGED <<prev, carrier, seen, expired, alive, calls>>

\* unlinkSync(path)
Unlink(t) ==
  /\ At(t, "unlink")
  /\ carrier' = NoFile
  /\ Finish(t)
  /\ UNCHANGED <<prev, seen, expired, alive, calls>>

\* A call of the file system fails where no failure is expected: the open, the
\* rename, the read before the release or the unlink.  The lock's call throws and
\* what is at the path stays there.
Throws(t) ==
  /\ Alive(t) /\ pc[t] \in {"create", "rename", "release", "unlink"}
  /\ Finish(t)
  /\ UNCHANGED <<prev, carrier, seen, expired, alive, calls>>

\* Date.now() - started passes timeoutMs.
Expire(t) ==
  /\ Alive(t)
  /\ pc[t] \in Acquiring
  /\ Id(t) \notin expired
  /\ expired' = expired \cup {Id(t)}
  /\ UNCHANGED <<tails, prev, opened, carrier, seen, alive, pc, calls>>

\* A process dies with all of its tasks and its memory; the file stays.
Crash(h) ==
  LET dies(f, v) == [t \in Task |-> IF Host[t] = h THEN v ELSE f[t]] IN
  /\ h \in alive
  /\ alive' = alive \ {h}
  /\ pc' = dies(pc, "dead")
  /\ prev' = dies(prev, NoGate)
  /\ seen' = dies(seen, NoFile)
  /\ tails' = [tails EXCEPT ![h] = NoGate]
  /\ UNCHANGED <<opened, carrier, expired, calls>>

Step(t) ==
  \/ Start(t) \/ Create(t) \/ Write(t) \/ Read(t) \/ Exists(t) \/ Decide(t)
  \/ Rename(t) \/ Leave(t) \/ Verify(t) \/ Unlink(t)

Next ==
  \/ \E t \in Task : Enqueue(t) \/ Step(t) \/ WriteFails(t) \/ Throws(t) \/ Expire(t)
  \/ \E h \in Proc : Crash(h)

Spec == Init /\ [][Next]_vars

\* The event loop of a live process keeps running and its clock advances.
FairSpec == Spec /\ \A t \in Task : WF_vars(Step(t)) /\ WF_vars(Expire(t))

-----------------------------------------------------------------------------
Ids == {NoGate} \cup UNION {[task : {t}, call : 0..MaxCalls[t]] : t \in Task}

\* Every variable keeps the shape of the lock file, the tails map and the
\* local variables of withLock and acquire.
TypeOK ==
  /\ tails \in [Proc -> Ids]
  /\ prev \in [Task -> Ids]
  /\ opened \subseteq Ids
  /\ carrier \in [by : Ids, written : BOOLEAN]
  /\ carrier.by = NoGate => carrier = NoFile
  /\ seen \in [Task -> [by : Ids, written : BOOLEAN]]
  /\ expired \subseteq Ids
  /\ alive \subseteq Proc
  /\ pc \in [Task -> {"idle", "queued", "dead"} \cup Acquiring \cup Holding]
  /\ \A t \in Task : calls[t] \in 0..MaxCalls[t]

InCS(t) == Alive(t) /\ pc[t] = "cs"

\* No two callers run the locked function at once.
Exclusive == \A t, u \in Task : InCS(t) /\ InCS(u) => t = u

\* Until some process has died or some wait has outlasted its window, the lock
\* is exclusive across processes and tasks, although ownership is established
\* before the owner record is written.
ExclusiveWithoutRecovery == (alive = Proc /\ expired = {}) => Exclusive

\* "a crashed owner's record is quarantined before reacquisition": the lock is
\* exclusive also when a dead owner is taken over, no wait having timed out.
ExclusiveAfterCrash == expired = {} => Exclusive

\* InProcessLock: two tasks of one process are never past the queue together,
\* whatever other processes do to the lock file.
OnePerProcess ==
  \A t, u \in Task :
    /\ Host[t] = Host[u]
    /\ pc[t] \in Acquiring \cup Holding
    /\ pc[u] \in Acquiring \cup Holding
    => t = u

\* Every call settles: it gets the lock and releases it, is refused, or its
\* process dies; no caller waits on the promise chain forever.
EveryCallSettles ==
  \A t \in Task : pc[t] = "queued" ~> (pc[t] = "idle" \/ ~Alive(t))
=============================================================================
