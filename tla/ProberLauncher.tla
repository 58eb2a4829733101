---------------------------- MODULE ProberLauncher ----------------------------
(***************************************************************************)
(* launch_authenticated_fixture_bounded of native/crates/prober-launcher:  *)
(* one launch attempt leases a private UID by creating a file named after  *)
(* it, builds a jail, spawns Firecracker's jailer, which forks the VMM     *)
(* into the attempt's cgroup, waits under one deadline for an              *)
(* authenticated result on the serial file, kills the cgroup and removes   *)
(* everything it made.  Every error return unwinds through the same drop   *)
(* guards.  Several launchers share the UID range, the lease directory and *)
(* the kernel; a launcher may be killed at any point, and then no guard    *)
(* runs.                                                                   *)
(*                                                                         *)
(* Every observation of the kernel is a step of its own, so the jailer and *)
(* the VMM move between any two of them.  Any fallible call may fail.      *)
(***************************************************************************)
EXTENDS Naturals, FiniteSets

CONSTANTS
    Attempts,   \* launch attempts; the random nonce makes their names distinct
    Uids,       \* the UID range that leases are taken from
    Reserved,   \* UIDs that /etc/passwd, group, subuid or subgid name
    CanaryAttempts, \* attempts launched with use_seccomp_canary
    None        \* no UID, no lease file

ASSUME LauncherAssumption ==
    /\ Reserved \subseteq Uids
    /\ CanaryAttempts \subseteq Attempts
    /\ None \notin Uids \cup Attempts

VARIABLES
    pc,         \* where the launcher stands in launch_authenticated_fixture_bounded
    phase,      \* CandidateLifecycle.phase
    tried,      \* UIDs the lease loop has passed over
    uid,        \* the UID being tried, then leased
    leaseFile,  \* .uid-leases/<uid>: the attempt written in it, or None
    guards,     \* live drop guards
    jail,       \* the jail directory exists
    cgroup,     \* the cgroup leaf exists
    jailer,     \* the direct child
    vmm,        \* the forked VMM
    serial,     \* what a parse of the serial file finds
    over,       \* stdout + stderr exceed the output limit
    expired,    \* the deadline has passed
    seen,       \* authenticated_result_seen
    outcome     \* what the call returned

vars == <<pc, phase, tried, uid, leaseFile, guards, jail, cgroup,
          jailer, vmm, serial, over, expired, seen, outcome>>

\* Variables that only acquire_uid_lease writes, the ones the kernel's
\* processes write, and the launcher's own progress.
leaseVars  == <<tried, uid, leaseFile>>
kernelVars == <<cgroup, jailer, vmm, serial, over, expired>>

\* CandidateLifecycle: advance accepts each phase only after the one before it.
\* GuestResultCaptured and ResidueRemoved are passed within one step.
CandidatePhase ==
    {"Prepared", "Spawned", "DirectProcessReaped", "DescendantsEmpty", "Complete"}

Guards == {"lease", "jail", "cgroup"}
Setup == {"begin", "probe", "create", "recheck"}
Timed == {"wait", "populated", "canaryWait", "canaryClean", "contain",
          "result", "events", "capture", "observe", "residue"}
Steps == Setup \cup Timed \cup {"jail", "stage", "spawn", "disown", "unwind", "poll", "done"}

\* A VMM that still runs, and one that /proc lists under the leased UID.
Running == {"root", "live", "confined"}
Listed  == {"live", "confined", "doomed", "zombie"}

\* Types of all variables.
TypeOK ==
    /\ pc \in [Attempts -> Steps]
    /\ phase \in [Attempts -> CandidatePhase]
    /\ tried \in [Attempts -> SUBSET Uids]
    /\ uid \in [Attempts -> Uids \cup {None}]
    /\ leaseFile \in [Uids -> Attempts \cup {None}]
    /\ guards \in [Attempts -> SUBSET Guards]
    /\ jail \in [Attempts -> BOOLEAN]
    /\ cgroup \in [Attempts -> BOOLEAN]
    /\ jailer \in [Attempts -> {"none", "running", "exitOk", "exitBad", "reaped"}]
    /\ vmm \in [Attempts -> {"none", "root", "live", "confined", "doomedRoot",
                             "doomed", "zombie", "dead"}]
    /\ serial \in [Attempts -> {"none", "result", "ambiguous"}]
    /\ over \in [Attempts -> BOOLEAN]
    /\ expired \in [Attempts -> BOOLEAN]
    /\ seen \in [Attempts -> BOOLEAN]
    /\ outcome \in [Attempts -> {"none", "ok", "err", "crashed"}]

Init ==
    /\ pc = [a \in Attempts |-> "begin"]
    /\ phase = [a \in Attempts |-> "Prepared"]
    /\ tried = [a \in Attempts |-> {}]
    /\ uid = [a \in Attempts |-> None]
    /\ leaseFile = [u \in Uids |-> None]
    /\ guards = [a \in Attempts |-> {}]
    /\ jail = [a \in Attempts |-> FALSE]
    /\ cgroup = [a \in Attempts |-> FALSE]
    /\ jailer = [a \in Attempts |-> "none"]
    /\ vmm = [a \in Attempts |-> "none"]
    /\ serial = [a \in Attempts |-> "none"]
    /\ over = [a \in Attempts |-> FALSE]
    /\ expired = [a \in Attempts |-> FALSE]
    /\ seen = [a \in Attempts |-> FALSE]
    /\ outcome = [a \in Attempts |-> "none"]

-----------------------------------------------------------------------------
(* What the launcher observes of the kernel. *)

\* uid_has_live_process: some /proc entry belongs to the UID.  A zombie still
\* has its entry.
UidHasLiveProcess(u) == \E b \in Attempts : vmm[b] \in Listed /\ uid[b] = u

\* "populated 1" in cgroup.events; a zombie no longer counts.
Populated(a) == vmm[a] \in Running \cup {"doomedRoot", "doomed"}

\* parse_candidate_guest_result: one authenticated envelope for this nonce,
\* nothing that looks like a second one.
ParseCandidateGuestResult(a) == serial[a] = "result"

\* SIGKILL: the process runs no more user code.
Doom(v) == CASE v = "root" -> "doomedRoot"
             [] v \in {"live", "confined"} -> "doomed"
             [] OTHER -> v

\* Writing cgroup.kill.
KillCgroup(a) == vmm' = [vmm EXCEPT ![a] = Doom(@)]

\* Every error return: only the drop guards run from here on.
Fail(a) ==
    /\ pc' = [pc EXCEPT ![a] = "unwind"]
    /\ outcome' = [outcome EXCEPT ![a] = "err"]

Go(a, step) == pc' = [pc EXCEPT ![a] = step] /\ UNCHANGED outcome

-----------------------------------------------------------------------------
(* acquire_uid_lease. *)

\* The jail root and the lease root must be private root-owned directories.
Begin(a) ==
    /\ pc[a] = "begin"
    /\ Go(a, "probe") \/ Fail(a)
    /\ UNCHANGED <<phase, leaseVars, guards, jail, kernelVars, seen>>

\* One turn of the lease loop; the files that reserve UIDs may be unreadable.
Probe(a, u) ==
    /\ pc[a] = "probe" /\ u \notin tried[a]
    /\ \/ /\ u \in Reserved \/ UidHasLiveProcess(u)
          /\ tried' = [tried EXCEPT ![a] = @ \cup {u}]
          /\ UNCHANGED <<pc, uid, outcome>>
       \/ /\ u \notin Reserved /\ ~UidHasLiveProcess(u)
          /\ uid' = [uid EXCEPT ![a] = u]
          /\ Go(a, "create") /\ UNCHANGED tried
       \/ Fail(a) /\ UNCHANGED <<tried, uid>>
    /\ UNCHANGED <<phase, leaseFile, guards, jail, kernelVars, seen>>

Exhausted(a) ==
    /\ pc[a] = "probe" /\ tried[a] = Uids
    /\ Fail(a)
    /\ UNCHANGED <<phase, leaseVars, guards, jail, kernelVars, seen>>

\* Mutant of Create: the lease file is opened without create_new.
CreateTruncate(a) ==
    /\ pc[a] = "create"
    /\ leaseFile' = [leaseFile EXCEPT ![uid[a]] = a]
    /\ Go(a, "recheck")
    /\ UNCHANGED <<phase, tried, uid, guards, jail, kernelVars, seen>>

\* create_new is the kernel's test-and-set on the lease file.
Create(a) ==
    /\ pc[a] = "create"
    /\ \/ /\ leaseFile[uid[a]] = None
          /\ leaseFile' = [leaseFile EXCEPT ![uid[a]] = a]
          /\ Go(a, "recheck") /\ UNCHANGED tried
       \/ /\ leaseFile[uid[a]] # None
          /\ tried' = [tried EXCEPT ![a] = @ \cup {uid[a]}]
          /\ Go(a, "probe") /\ UNCHANGED leaseFile
       \/ Fail(a) /\ UNCHANGED <<leaseFile, tried>>
    /\ UNCHANGED <<phase, uid, guards, jail, kernelVars, seen>>

\* Mutant of Recheck: the first look at /proc is trusted.
RecheckTrusted(a) ==
    /\ pc[a] = "recheck"
    /\ guards' = [guards EXCEPT ![a] = {"lease"}]
    /\ tried' = [tried EXCEPT ![a] = {}]
    /\ Go(a, "jail")
    /\ UNCHANGED <<phase, uid, leaseFile, jail, kernelVars, seen>>

\* The second look at /proc, after the file is ours.  A failed write or sync
\* returns before the lease value exists, so its file is never removed.  The
\* loop's variables are gone with the lease.
Recheck(a) ==
    /\ pc[a] = "recheck"
    /\ \/ /\ ~UidHasLiveProcess(uid[a])
          /\ guards' = [guards EXCEPT ![a] = {"lease"}]
          /\ tried' = [tried EXCEPT ![a] = {}]
          /\ Go(a, "jail") /\ UNCHANGED leaseFile
       \/ /\ UidHasLiveProcess(uid[a])
          /\ leaseFile' = [leaseFile EXCEPT ![uid[a]] = None]
          /\ tried' = [tried EXCEPT ![a] = @ \cup {uid[a]}]
          /\ Go(a, "probe") /\ UNCHANGED guards
       \/ Fail(a) /\ UNCHANGED <<tried, leaseFile, guards>>
    /\ UNCHANGED <<phase, uid, jail, kernelVars, seen>>

-----------------------------------------------------------------------------
(* Preparation and the direct process. *)

\* The directories exist before the guard that removes them does.
PrepareJail(a) ==
    /\ pc[a] = "jail"
    /\ \/ /\ jail' = [jail EXCEPT ![a] = TRUE]
          /\ guards' = [guards EXCEPT ![a] = @ \cup {"jail"}]
          /\ Go(a, "stage")
       \/ /\ \E made \in BOOLEAN : jail' = [jail EXCEPT ![a] = made]
          /\ Fail(a) /\ UNCHANGED guards
    /\ UNCHANGED <<phase, leaseVars, kernelVars, seen>>

\* Measure every input again, copy it into the jail, open the output files;
\* then the cgroup guard and the deadline.
Stage(a) ==
    /\ pc[a] = "stage"
    /\ \/ /\ guards' = [guards EXCEPT ![a] = @ \cup {"cgroup"}]
          /\ Go(a, "spawn")
       \/ Fail(a) /\ UNCHANGED guards
    /\ UNCHANGED <<phase, leaseVars, jail, kernelVars, seen>>

\* The child runs from here on, also when its identity cannot be opened.
Spawn(a) ==
    /\ pc[a] = "spawn"
    /\ \/ /\ jailer' = [jailer EXCEPT ![a] = "running"]
          /\ phase' = [phase EXCEPT ![a] = "Spawned"]
          /\ Go(a, "wait")
       \/ /\ jailer' = [jailer EXCEPT ![a] = "running"]
          /\ Go(a, "disown") /\ UNCHANGED phase
       \/ Fail(a) /\ UNCHANGED <<jailer, phase>>
    /\ UNCHANGED <<leaseVars, guards, jail, cgroup, vmm, serial, over,
                   expired, seen>>

\* A child without an identity is killed and reaped, whatever it has done by then.
Disown(a) ==
    /\ pc[a] = "disown"
    /\ jailer' = [jailer EXCEPT ![a] = "reaped"]
    /\ Fail(a)
    /\ UNCHANGED <<phase, leaseVars, guards, jail, cgroup, vmm, serial, over,
                   expired, seen>>

\* One iteration of wait_bounded.  Every exit leaves the child reaped: by
\* try_wait, by kill and wait, or by CandidateDirectProcess::drop.
WaitBounded(a) ==
    /\ pc[a] = "wait"
    /\ \/ jailer[a] = "exitOk" /\ ~over[a] /\ Go(a, "populated")
       \/ jailer[a] = "exitBad" /\ Fail(a)
       \/ over[a] /\ Fail(a)
       \/ jailer[a] = "running" /\ expired[a] /\ Fail(a)
    /\ jailer' = [jailer EXCEPT ![a] = "reaped"]
    /\ UNCHANGED <<phase, leaseVars, guards, jail, cgroup, vmm, serial,
                   over, expired, seen>>

\* The VMM must be in its cgroup once the jailer is gone.
CheckPopulated(a) ==
    /\ pc[a] = "populated"
    /\ \/ Populated(a) /\ Go(a, IF a \in CanaryAttempts THEN "canaryWait" ELSE "contain")
       \/ ~Populated(a) /\ Fail(a)
    /\ UNCHANGED <<phase, leaseVars, guards, jail, kernelVars, seen>>

\* The seccomp canary waits for the VMM to be trapped.
CanaryWait(a) ==
    /\ pc[a] = "canaryWait"
    /\ \/ ~Populated(a) /\ Go(a, "canaryClean")
       \/ Populated(a) /\ expired[a] /\ Fail(a)
    /\ UNCHANGED <<phase, leaseVars, guards, jail, kernelVars, seen>>

\* remove_dir_all of the jail; its failure is ignored.
RemoveJail(a) == \E left \in BOOLEAN : jail' = [jail EXCEPT ![a] = @ /\ left]

\* The marker must be exact, then the leaf and the jail are removed.  The
\* canary launch never succeeds: the observed denial is itself an error.
CanaryClean(a) ==
    /\ pc[a] = "canaryClean"
    /\ \/ /\ cgroup' = [cgroup EXCEPT ![a] = FALSE]
          /\ RemoveJail(a)
          /\ guards' = [guards EXCEPT ![a] = {"lease"}]
       \/ UNCHANGED <<cgroup, jail, guards>>
    /\ Fail(a)
    /\ UNCHANGED <<phase, leaseVars, jailer, vmm, serial, over, expired,
                   seen>>

\* cgroup.procs and observe_live_containment, repeated until every thread is
\* under seccomp: one process, of the leased UID, in its own namespaces.
Contain(a) ==
    /\ pc[a] = "contain"
    /\ \/ vmm[a] = "confined" /\ Go(a, "result")
       \/ vmm[a] = "live" /\ expired[a] /\ Fail(a)
       \/ vmm[a] \notin {"live", "confined"} /\ Fail(a)
    /\ UNCHANGED <<phase, leaseVars, guards, jail, kernelVars, seen>>

-----------------------------------------------------------------------------
(* The result loop and the orderly end. *)

\* Output limit, then the parse; the first authenticated result kills the VMM.
Scan(a) ==
    /\ pc[a] = "result"
    /\ \/ /\ over[a]
          /\ KillCgroup(a) /\ Fail(a) /\ UNCHANGED seen
       \/ /\ ~over[a] /\ ~seen[a] /\ ParseCandidateGuestResult(a)
          /\ seen' = [seen EXCEPT ![a] = TRUE]
          /\ KillCgroup(a) /\ Go(a, "events")
       \/ /\ ~over[a] /\ (seen[a] \/ ~ParseCandidateGuestResult(a))
          /\ Go(a, "events") /\ UNCHANGED <<vmm, seen>>
    /\ UNCHANGED <<phase, leaseVars, guards, jail, cgroup, jailer,
                   serial, over, expired>>

\* Mutant of Events: an expired deadline does not end the loop.
EventsPatient(a) ==
    /\ pc[a] = "events"
    /\ \/ ~Populated(a) /\ seen[a] /\ Go(a, "capture")
       \/ ~Populated(a) /\ ~seen[a] /\ Fail(a)
       \/ Populated(a) /\ Go(a, "result")
    /\ UNCHANGED <<phase, leaseVars, guards, jail, kernelVars, seen>>

Events(a) ==
    /\ pc[a] = "events"
    /\ \/ /\ ~Populated(a) /\ seen[a]
          /\ Go(a, "capture") /\ UNCHANGED vmm
       \/ /\ ~Populated(a) /\ ~seen[a]
          /\ Fail(a) /\ UNCHANGED vmm
       \/ /\ Populated(a) /\ expired[a]
          /\ KillCgroup(a) /\ Fail(a)
       \/ /\ Populated(a) /\ ~expired[a]
          /\ Go(a, "result") /\ UNCHANGED vmm
    /\ UNCHANGED <<phase, leaseVars, guards, jail, cgroup, jailer,
                   serial, over, expired, seen>>

\* Mutant of Capture: the result seen before the kill is returned as it was.
CaptureEarlier(a) ==
    /\ pc[a] = "capture"
    /\ phase' = [phase EXCEPT ![a] = "DirectProcessReaped"]
    /\ Go(a, "observe")
    /\ UNCHANGED <<leaseVars, guards, jail, kernelVars, seen>>

\* The serial file is read and parsed again now that nobody can write it.
Capture(a) ==
    /\ pc[a] = "capture"
    /\ \/ /\ ParseCandidateGuestResult(a)
          /\ phase' = [phase EXCEPT ![a] = "DirectProcessReaped"]
          /\ Go(a, "observe")
       \/ ~ParseCandidateGuestResult(a) /\ Fail(a) /\ UNCHANGED phase
    /\ UNCHANGED <<leaseVars, guards, jail, kernelVars, seen>>

\* Limits and emptiness verified, the leaf removed by identity, its guard
\* disarmed, the jail guard dropped.
Observe(a) ==
    /\ pc[a] = "observe"
    /\ \/ /\ ~Populated(a)
          /\ cgroup' = [cgroup EXCEPT ![a] = FALSE]
          /\ RemoveJail(a)
          /\ guards' = [guards EXCEPT ![a] = {"lease"}]
          /\ phase' = [phase EXCEPT ![a] = "DescendantsEmpty"]
          /\ Go(a, "residue")
       \/ Fail(a) /\ UNCHANGED <<phase, cgroup, jail, guards>>
    /\ UNCHANGED <<leaseVars, jailer, vmm, serial, over, expired,
                   seen>>

\* Nothing may be left: a jail that could not be removed is an error.
Residue(a) ==
    /\ pc[a] = "residue"
    /\ \/ /\ ~jail[a] /\ ~UidHasLiveProcess(uid[a])
          /\ phase' = [phase EXCEPT ![a] = "Complete"]
          /\ pc' = [pc EXCEPT ![a] = "unwind"]
          /\ outcome' = [outcome EXCEPT ![a] = "ok"]
       \/ /\ jail[a] \/ UidHasLiveProcess(uid[a])
          /\ Fail(a) /\ UNCHANGED phase
    /\ UNCHANGED <<leaseVars, guards, jail, kernelVars, seen>>

-----------------------------------------------------------------------------
(* Drop guards, in the reverse order of their declaration. *)

\* Mutant of DropCgroup: the guard relies on the kill by UID alone.
DropCgroupNoKill(a) ==
    /\ pc[a] = "unwind" /\ "cgroup" \in guards[a]
    /\ Go(a, "poll")
    /\ UNCHANGED <<phase, leaseVars, guards, jail, kernelVars, seen>>

DropCgroup(a) ==
    /\ pc[a] = "unwind" /\ "cgroup" \in guards[a]
    /\ IF cgroup[a] THEN KillCgroup(a) ELSE UNCHANGED vmm
    /\ Go(a, "poll")
    /\ UNCHANGED <<phase, leaseVars, guards, jail, cgroup, jailer, serial,
                   over, expired, seen>>

\* At most 100 polls for "populated 0": rmdir of a leaf that is still
\* populated fails.  Then every process of the leased UID is killed.
PollCgroup(a) ==
    /\ pc[a] = "poll"
    /\ cgroup' = [cgroup EXCEPT ![a] = @ /\ Populated(a)]
    /\ vmm' = [b \in Attempts |-> IF uid[b] = uid[a] /\ vmm[b] \in Listed
                                  THEN Doom(vmm[b]) ELSE vmm[b]]
    /\ guards' = [guards EXCEPT ![a] = @ \ {"cgroup"}]
    /\ Go(a, "unwind")
    /\ UNCHANGED <<phase, leaseVars, jail, jailer, serial, over, expired,
                   seen>>

DropJail(a) ==
    /\ pc[a] = "unwind" /\ "cgroup" \notin guards[a] /\ "jail" \in guards[a]
    /\ RemoveJail(a)
    /\ guards' = [guards EXCEPT ![a] = @ \ {"jail"}]
    /\ UNCHANGED <<pc, phase, leaseVars, kernelVars, seen, outcome>>

\* Mutant of DropLease: the lease was declared after the other guards.
DropLeaseFirst(a) ==
    /\ pc[a] = "unwind" /\ "lease" \in guards[a]
    /\ leaseFile' = [leaseFile EXCEPT ![uid[a]] = None]
    /\ guards' = [guards EXCEPT ![a] = @ \ {"lease"}]
    /\ UNCHANGED <<pc, phase, tried, uid, jail, kernelVars, seen, outcome>>

\* The lease is dropped last: it was declared first.
DropLease(a) ==
    /\ pc[a] = "unwind" /\ guards[a] = {"lease"}
    /\ leaseFile' = [leaseFile EXCEPT ![uid[a]] = None]
    /\ guards' = [guards EXCEPT ![a] = {}]
    /\ UNCHANGED <<pc, phase, tried, uid, jail, kernelVars, seen, outcome>>

\* The call's locals are gone once it is over.
Forget(a) ==
    /\ tried' = [tried EXCEPT ![a] = {}]
    /\ seen' = [seen EXCEPT ![a] = FALSE]
    /\ expired' = [expired EXCEPT ![a] = FALSE]

Return(a) ==
    /\ pc[a] = "unwind" /\ guards[a] = {}
    /\ Go(a, "done") /\ Forget(a)
    /\ UNCHANGED <<phase, uid, leaseFile, guards, jail, cgroup, jailer, vmm, serial,
                   over>>

-----------------------------------------------------------------------------
(* The kernel, the jailer and the VMM. *)

\* The jailer makes its cgroup, forks the VMM into it and exits.
JailerCgroup(a) ==
    /\ jailer[a] = "running" /\ ~cgroup[a]
    /\ cgroup' = [cgroup EXCEPT ![a] = TRUE]
    /\ UNCHANGED <<pc, phase, leaseVars, guards, jail, jailer, vmm, serial,
                   over, expired, seen, outcome>>

JailerFork(a) ==
    /\ jailer[a] = "running" /\ cgroup[a] /\ vmm[a] = "none"
    /\ vmm' = [vmm EXCEPT ![a] = "root"]
    /\ UNCHANGED <<pc, phase, leaseVars, guards, jail, cgroup, jailer,
                   serial, over, expired, seen, outcome>>

JailerExit(a) ==
    /\ jailer[a] = "running"
    /\ \E code \in {"exitOk", "exitBad"} :
          /\ code = "exitOk" => vmm[a] # "none"
          /\ jailer' = [jailer EXCEPT ![a] = code]
    /\ UNCHANGED <<pc, phase, leaseVars, guards, jail, cgroup, vmm, serial,
                   over, expired, seen, outcome>>

\* root drops to the leased UID, loads its filters, and may exit by itself; a
\* killed process becomes a zombie, and init reaps it.
VmmMove(a) ==
    /\ \E move \in {<<"root", "live">>, <<"live", "confined">>, <<"root", "dead">>,
                    <<"live", "zombie">>, <<"confined", "zombie">>,
                    <<"doomedRoot", "dead">>, <<"doomed", "zombie">>,
                    <<"zombie", "dead">>} :
          /\ vmm[a] = move[1]
          /\ vmm' = [vmm EXCEPT ![a] = move[2]]
    /\ UNCHANGED <<pc, phase, leaseVars, guards, jail, cgroup, jailer,
                   serial, over, expired, seen, outcome>>

\* Only these moves are certain to happen: a killed process dies and is reaped.
VmmDies(a) == vmm[a] \in {"doomedRoot", "doomed", "zombie"} /\ VmmMove(a)

\* The guest writes its result, or something after it that the parser refuses;
\* a write already in flight completes after the kill.  Nobody reads the files
\* while the guards unwind or once the call is over.
VmmWrites(a) ==
    /\ vmm[a] \in {"confined", "doomed"} /\ pc[a] \in Timed
    /\ \/ /\ serial[a] # "ambiguous"
          /\ serial' = [serial EXCEPT ![a] = IF @ = "none" THEN "result" ELSE "ambiguous"]
          /\ UNCHANGED over
       \/ ~over[a] /\ over' = [over EXCEPT ![a] = TRUE] /\ UNCHANGED serial
    /\ UNCHANGED <<pc, phase, leaseVars, guards, jail, cgroup, jailer, vmm,
                   expired, seen, outcome>>

\* CandidateDeadline: monotonic, started before the spawn.
Expire(a) ==
    /\ pc[a] \in Timed /\ ~expired[a]
    /\ expired' = [expired EXCEPT ![a] = TRUE]
    /\ UNCHANGED <<pc, phase, leaseVars, guards, jail, cgroup, jailer, vmm,
                   serial, over, seen, outcome>>

\* A system call of the timed part fails: the error returns at once, and a
\* direct process still owned is killed and reaped by its drop.
IoError(a) ==
    /\ pc[a] \in {"wait", "populated", "canaryWait", "contain", "result", "capture"}
    /\ Fail(a)
    /\ jailer' = [jailer EXCEPT ![a] = "reaped"]
    /\ UNCHANGED <<phase, leaseVars, guards, jail, cgroup, vmm, serial, over,
                   expired, seen>>

\* The launcher itself is killed: no guard runs, its children go on.
Crash(a) ==
    /\ pc[a] # "done"
    /\ pc' = [pc EXCEPT ![a] = "done"]
    /\ outcome' = [outcome EXCEPT ![a] = "crashed"]
    /\ Forget(a)
    /\ UNCHANGED <<phase, uid, leaseFile, guards, jail, cgroup, jailer, vmm, serial,
                   over>>

-----------------------------------------------------------------------------
Launcher(a) ==
    \/ Begin(a) \/ (\E u \in Uids : Probe(a, u)) \/ Exhausted(a) \/ Create(a)
    \/ Recheck(a) \/ PrepareJail(a) \/ Stage(a) \/ Spawn(a) \/ Disown(a) \/ WaitBounded(a)
    \/ CheckPopulated(a) \/ CanaryWait(a) \/ CanaryClean(a) \/ Contain(a)
    \/ Scan(a) \/ Events(a) \/ Capture(a) \/ Observe(a) \/ Residue(a)
    \/ DropCgroup(a) \/ PollCgroup(a) \/ DropJail(a) \/ DropLease(a) \/ Return(a)

Kernel(a) ==
    \/ JailerCgroup(a) \/ JailerFork(a) \/ JailerExit(a) \/ VmmMove(a)
    \/ VmmWrites(a) \/ Expire(a)

Next == \E a \in Attempts : Launcher(a) \/ Kernel(a) \/ IoError(a) \/ Crash(a)

Spec == Init /\ [][Next]_vars

\* The launcher is scheduled, time passes, and a killed process dies; the
\* jailer and the VMM may hang, and no error may be counted on.
FairSpec ==
    /\ Spec
    /\ \A a \in Attempts :
          WF_vars(Launcher(a)) /\ WF_vars(Expire(a)) /\ WF_vars(VmmDies(a))

-----------------------------------------------------------------------------
(* The inductive invariant. *)

\* What the guards and the launcher's position say about its own processes.
OwnState(a) ==
    /\ pc[a] \in Setup => guards[a] = {} /\ jailer[a] = "none" /\ vmm[a] = "none"
    /\ pc[a] \in {"create", "recheck"} => uid[a] \in Uids
    /\ pc[a] = "recheck" => leaseFile[uid[a]] = a
    /\ pc[a] \in Timed \cup {"jail", "stage", "spawn", "disown", "poll"} => "lease" \in guards[a]
    /\ guards[a] # {} => "lease" \in guards[a]
    /\ "lease" \in guards[a] => uid[a] \in Uids /\ leaseFile[uid[a]] = a
    /\ vmm[a] # "none" => uid[a] \in Uids
    /\ pc[a] \notin {"wait", "disown", "done"} => jailer[a] \in {"none", "reaped"}
    /\ pc[a] = "done" /\ outcome[a] # "crashed" =>
          guards[a] = {} /\ jailer[a] \in {"none", "reaped"}
    /\ jailer[a] = "running" \/ vmm[a] \in Running => "cgroup" \in guards[a]
    /\ vmm[a] \in Running => cgroup[a]
    /\ pc[a] \in {"poll", "canaryClean", "capture", "observe"} => vmm[a] \notin Running
    /\ pc[a] \in {"spawn", "disown", "poll"} => "cgroup" \in guards[a]

\* A lease excludes every process of another attempt from its UID.
LeaseShields ==
    \A a, b \in Attempts :
        (a # b /\ "lease" \in guards[a] /\ vmm[b] \in Listed) => uid[b] # uid[a]

\* How far towards success the launch has come, and what that rests on.
Progressed(a) ==
    /\ pc[a] = "contain" => a \notin CanaryAttempts /\ jailer[a] = "reaped"
    /\ pc[a] = "populated" => jailer[a] = "reaped"
    /\ pc[a] \in {"result", "events", "capture", "observe", "residue"} =>
          /\ a \notin CanaryAttempts /\ jailer[a] = "reaped"
          /\ vmm[a] \in {"confined", "doomed", "zombie", "dead"}
    /\ pc[a] \in {"capture", "observe", "residue"} => vmm[a] \in {"zombie", "dead"}
    /\ pc[a] \in {"observe", "residue"} => serial[a] = "result"
    /\ pc[a] = "residue" => ~cgroup[a] /\ guards[a] = {"lease"}
    /\ outcome[a] = "ok" => pc[a] \in {"unwind", "done"} /\ guards[a] \subseteq {"lease"}

\* No two attempts ever have processes under one UID: the isolation of the
\* jails, and the kill by UID in CgroupCleanup, rest on it.  acquire_uid_lease
\* must keep it although leases are dropped while killed processes linger and
\* launchers crash.
UidExclusive ==
    \A a, b \in Attempts :
        (a # b /\ vmm[a] \in Listed /\ vmm[b] \in Listed) => uid[a] # uid[b]

\* The drop guards of a launcher that returned left no process running: the
\* jailer was reaped and the VMM at least killed, wherever the error struck.
NoOrphan ==
    \A a \in Attempts :
        pc[a] = "done" /\ outcome[a] # "crashed" =>
            /\ jailer[a] \in {"none", "reaped"}
            /\ vmm[a] \notin Running

\* A launch that returns Ok saw the confined VMM's single result, and nothing
\* of the attempt is left but its lease guard: no process, no leaf, no jail.
CleanSuccess ==
    \A a \in Attempts :
        outcome[a] = "ok" => /\ phase[a] = "Complete" /\ a \notin CanaryAttempts
                             /\ serial[a] = "result"
                             /\ vmm[a] = "dead" /\ jailer[a] = "reaped"
                             /\ ~cgroup[a] /\ ~jail[a]

\* The lease guard removes the file by path; it is always this attempt's file.
LeaseIsOwn ==
    \A a \in Attempts : "lease" \in guards[a] => leaseFile[uid[a]] = a

\* While one launcher's guards run, no process of another attempt is killed.
NoForeignKill ==
    [][\A a, b \in Attempts :
          (a # b /\ pc[a] \in {"poll", "unwind", "result", "events"} /\ pc[a]' # pc[a])
             => vmm'[b] = vmm[b]]_vars

\* Every launch returns, whatever the jailer and the VMM do.
Returns == \A a \in Attempts : <>(pc[a] = "done")

\* The inductive strengthening that the proofs use.
Inv ==
    /\ TypeOK
    /\ \A a \in Attempts : OwnState(a) /\ Progressed(a)
    /\ LeaseShields
    /\ UidExclusive
    /\ CleanSuccess
=============================================================================
