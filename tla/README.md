# A verification project for Keep

Keep turns a repository goal into a checked proposal. What it may do next
depends on durable records (a hash-chained event log, the *spine*, and what is
folded from it) and on native helpers that measure and run untrusted code. This
project models the code under `src/src/` and `src/native/crates/` that keeps
those records right, and those helpers under control, when several processes
work at once, writes are cut short, processes die, locks are taken over and
answers are lost. TLC checks the models on small instances; TLAPS proves the main
results for every value of the constants. Paths below are relative to the
repository.

Contents: [1 Inventory](#1-inventory), [2 Modules](#2-modules),
[3 Runs](#3-runs), [4 Proofs](#4-proofs),
[5 What the checks found](#5-what-the-checks-found),
[6 Not modelled](#6-not-modelled), [7 Plan](#7-plan).

## 1 Inventory

### Storage and locks (modelled)

| Component | State | Operations | What makes it hard |
|---|---|---|---|
| Logical append lock, `spine/logical_append_lock.ts` | sidecar directory: `owner-s`, `retired-s`, `drained-s`, `floor`; per caller: slot, last owner read | acquire (scan, fence, drain, certify, advance, link), run, release | every file operation may interleave with every other; owners die; the floor is written without synchronisation |
| Filesystem lock, `lock/lock.ts` | promise chain per process (`tails`); one carrier file | queue, create, write owner, read, decide, rename, release | ownership is taken before it is recorded; dead owners are renamed away by path; waits time out |
| Synchronous mutation lock, `spine/sync_file_mutation_lock.ts` | one carrier file | create, write, read, judge, rename, release | the same, but fail-fast and optionally without takeover |
| Event spine, `spine/spine.ts`, `spine/store.ts` | `staging.jsonl`, `staging.cursor`, `chain.jsonl` | `stage`, `seal`, `checkpoint`, recovery, `currentEvents`, `withStableEventView` | block and cursor are two writes; appends are torn; readers read three files |

How they interact: every append to `staging.jsonl` and `chain.jsonl` runs inside
the logical append lock, so an append is atomic against other appends. `seal`,
`checkpoint` and stable views run inside the filesystem lock, under the name
`spine.sealer`. `stage` takes no part in that lock. The mutation lock guards the
read-modify-write stores (sessions, checkpoints, keys, memory).

Properties that make them correct: mutual exclusion that survives deaths;
never judging an owner by time; a carrier removed only by its owner; every
waiter eventually settles; no staged event lost, sealed twice or sealed out of
order; sealed history never rewritten; a stable view complete.

### Users of the spine (modelled)

| Component | State | Operations | What makes it hard |
|---|---|---|---|
| Job journal, `session/project_job_journal.ts` | fold of spine events: latest intent per job, activities, cancellations | load, append, renew, tryDispatch, reclaim, settle, cancel | some events are staged under the sealer lock and some without it; an interrupted seal repeats events; an event the fold throws on stays forever |
| Project runtime, `session/project_runtime.ts` | intents, queue, running set, abort flags, heartbeat | submit, start, finish, cancel, recover, drain | leases against a moving clock; dispatches decided before a heartbeat and recorded after it; restart with unknown effects |
| Multi-repository coordinator, `git/multi_repository_coordinator.ts`, over `git/git_merge_port.ts` | the transaction's events; local and remote branches, the branch checked out | apply: preflight, merge, prepare, push, record, verify, commit, compensate, resume | a push whose answer is lost; a crash between an effect and its record; others push; the next call has only the events |

Properties: a callback starts at most once, on record, within capacity, alone on
its resource, and never when its cancellation came before its dispatch; a finished
job stays finished; a lease never shrinks; what a transaction is recorded as is what
the branches hold, over any number of interrupted calls, unless a compensation has
overtaken the record.

### Native helpers (modelled)

| Component | State | Operations | What makes it hard |
|---|---|---|---|
| PROBER launcher, `native/crates/prober-launcher` | UID lease files, jail, cgroup, jailer and VMM processes, drop guards, lifecycle phase | lease, build, spawn, wait, read the result, kill, clean up | several launchers share the UIDs; the VMM changes identity while it starts; every error path runs the guards in an order that matters; the launcher is killed |
| Patch capture, `native/crates/p2-d2-supervisor`, `linux-abi`, `platform/native_patch_capture.ts` | the walked tree, the rows, the pipe, the promise | inventory, pin, read, recheck, respond; receive, terminate, close | others edit the tree during the walk; the helper hangs or dies in the middle of its answer; the deadline races the exit |

Properties: no UID shared by two attempts, no process left behind, no kill of
another attempt's VMM, an `Ok` only for what was read after the VMM was dead; a
captured directory is one that existed, a response is delivered whole or not at
all, every launch and every capture ends.

### Not modelled yet

| Component | State | Operations | Hard behaviour and the properties to state |
|---|---|---|---|
| Goal work, `session/project_goal_work.ts` | claims of tasks by jobs | claim, accept, select | one job per claimed task across restarts |
| Sessions and registry, `session/project_session*.ts`, `project_registry.ts`, `project_record_store.ts` | persisted records with a revision | compare-and-swap saves | lost updates |
| Project loop, `autonomy/project_loop.ts`, `project_checkpoint_store.ts` | stage, checkpoint chain | run stage, checkpoint, resume | a resumed stage repeats no effect |
| Merge authority and executor, `oversight/` | decision, landing record | decide, land, reconcile | a decision lands at most once and only for its digest |
| Permits, effects, broker, `permit/`, `effect/`, `broker/` | ledger, grants | issue, consume, revoke | single use; revocation against use |
| Scheduler, `scheduler/` | envelopes, saga steps, veto queue | authorise, run, compensate, veto | compensation after a partial failure; a veto before the window closes always wins |
| Witness, `spine/witness_reconcile.ts` | off-host copy of block heads | emit, reconcile | a lagging or rewound witness is told from a tampered chain |

The full list of components, with the reason each omitted one is omitted, is in
`PROJECT.json`. The `hazards` there give the lines at which each difficulty
bites; the properties below answer them.

## 2 Modules

| Module | Models | Used by |
|---|---|---|
| `LogicalAppendLock` | `withLogicalAppendLock` | `MCLogicalAppendLock`, `LogicalAppendLockProofs` |
| `FileSystemLock` | `InProcessLock`, `FileSystemLock` | `MCFileSystemLock`, `FileSystemLockProofs` |
| `SyncFileMutationLock` | `withSyncFileMutationLock` | `MCSyncFileMutationLock`, `SyncFileMutationLockProofs` |
| `EventLog` | what the spine promises: an ordered log with a sealed prefix | `Spine` |
| `Spine` | `Spine` over `FileSpineStore` | `MCSpine`, `SpineProofs` |
| `JobJournal` | the fold of job events and its rules; a journal to which any event may come | `ProjectRuntime`, `ProjectRuntimeProofs` |
| `ProjectRuntime` | several `ProjectRuntime`s on one journal | `MCProjectRuntime`, `ProjectRuntimeProofs` |
| `MultiRepository` | `MultiRepositoryCoordinator` over `GitMergePort` | `MCMultiRepository`, `MultiRepositoryProofs` |
| `ProberLauncher` | `launch_authenticated_fixture_bounded` and the processes it starts | `MCProberLauncher`, `ProberLauncherProofs` |
| `PatchCapture` | `capture_patch_inputs`, its response and `capturePackagedNativePatchInputsV1` | `MCPatchCapture`, `PatchCaptureProofs` |

In the lock and storage modules a process is a record of local variables indexed
by the process and a label `pc`; each action is one file operation (or one run of
synchronous code that touches no shared file), so the interleavings are those of
the file system. A crash removes a process from `alive` and leaves its files. The `map`
in `PROJECT.json` gives the source lines of every definition.

**LogicalAppendLock.** `owner[s]`, `retired`, `drained` and `floor` are the
sidecar files; `slot` and `seen` the local variables. A call's random token and
process identity are one record `[proc, call]`. `Dead` is exact: the code's
`dead` answers only when boot id, pid and start time settle the matter, and
otherwise refuses, which is `GiveUp`. Deadlines and I/O errors of a caller that
holds nothing are also `GiveUp`.

**FileSystemLock.** A gate promise, the tail derived from it and the token of
the owner record are one-to-one with a call and share its identity. Writing the
owner record goes to the descriptor, so it changes the file at the path only if
that file is still this call's. `Expire` is the passing of the acquisition
window, as a step of its own. `Throws` is a failing open, rename, read or unlink:
the call gives up and opens its gate, and leaves the file as it is. Checks of file
kind, mode and ownership refuse on both sides of every race and are left out.

**SyncFileMutationLock.** The option `allowStaleTakeover` is chosen once in
`Init`, because all callers of one store pass the same value. A failing write or
sync removes the file by path or, when that fails too, leaves it, empty or written.

**Spine.** An event is its row number in the staging log, which is sound because
ids are unique and the file only grows. A block is an interval of rows, a flag
for the checkpoint's marker, and the height it was built on, which stands for
the hash of its predecessor: `validateBlock` accepts exactly the blocks built on
the present head. Unterminated bytes after the last newline are "torn" (a
fragment) or "whole" (a record without its newline); repair drops the first and
completes the second, as `prepare` does. `MAX_BLOCK_BYTES` is a number of events
per block; because events differ in size, a block takes any number up to it.
`AppendBlock` is one step because it runs inside the append lock, and refuses a block
before it repairs the tail; `AppendTorn` is the same operation cut short. `Abort` is any exception or death
inside the locked section, including the refusal of an event too large for a
block; the lock is then released, or taken over after the death, and the next
holder sees the files as they are. The switch `ExclusiveSealer` says whether the
sealer lock keeps its contract; `FALSE` is the behaviour `FileSystemLock` shows
after the takeovers of section 5.

`Spine` instantiates `EventLog` with the number of complete rows for the accepted
events and the set of rows in blocks for the sealed ones. `Accept` adds one or
two events: a writer may complete an interrupted writer's record before its own.

**JobJournal.** An event carries what the fold reads of it; `Fold` is one case per
event kind, in the code's order, and poisons the journal where the code throws. (The
code's maps are then partly updated; the load throws, and so does every later one, so
nobody reads them.) `JournalSpec` applies any event at any time, so what is proved of it holds for
writers that repeat, reorder or race.

**ProjectRuntime** extends `JobJournal`. A turn of a runtime (the synchronous code
between two awaits) is one action that puts its events into an outbox; `Flush`
stages them one at a time while the other runtimes run. What the code does under
`spine.sealer` holds the lock until the outbox is empty; `append` and `renew` do
not take it. The owner's last look at the journal (`Execute`) and the start of the
callback (`Invoke`) are two steps, and `starting` is the job in between: another
process may record a cancellation there. `FinishAs` has the settlement that throws. Two
assumptions: the sealer lock is exclusive and passes on when its holder dies, although
a takeover can admit two (`fsl_crash`), and a load sees every staged event, although
an unlocked one can miss an event during a seal (`spine_free_view`); `ProjectRuntime`
shows what the runtimes add to these two contracts. The clock is bounded by `MaxTime`.

**MultiRepository.** A branch is the sequence of its commits since the base, the
spine the sequence of the transaction's events. Staging an event and sealing are
steps of their own, and a crash or an exception may come before, between and
after them; one at the commit receipt is caught, and the call compensates. A merge may
fail before its commit (`MergeFails`) or after it (`MergeBreaks`). Assumed: a `git
push` has had its effect when git returns or dies with Keep, or never will. Because only Keep uses the worktrees and a merge leaves the base
branch checked out, the base a dry run sees is the same for all calls; `Move` is
somebody else's push. The trees, manifests and control-plane appraisals of the
port are failures of the step that makes them.

**ProberLauncher.** A lease is a file named after the UID; the guards are a set
that is dropped in the reverse order of declaration. Any call that can fail may,
including the look at `/proc` for a UID (`Probe`), the identity of a jailer that
already runs (`Disown`) and the removal of a jail (`RemoveJail`). Jailer and VMM are external:
they move between any two observations of the launcher. Assumed of the kernel: a
process with a pending SIGKILL executes no more user code, though a write in
flight may complete; one scan of `/proc` is atomic; the jailer joins the cgroup
before it forks.

**PatchCapture.** A file is an inode with two blocks, read one after the other.
Every change gets its own stamp: the code compares times, and the kernel
distinguishes only changes far enough apart. The response is a sequence of records,
each with the chunks of its data; the frames and bytes they take, the budget computed
for them before the first is written, and the limits checked again at every frame
(count, bytes, encoded frame and text) are those of the code. Lengths of paths and
files are constants, so a file has one length whatever is in it; a record and its
chunks are written in one step, and a failing write, or the failing flush at the end,
leaves the record cut short. Lengths of 2^32 and more do not occur. The SDK's
`Terminate` may come at any time.

## 3 Runs

| Run | Bounds | Shows |
|---|---|---|
| `lal` | 4 processes, 3 generations, 1 call each | exclusion, the floor hint, removal only by the owner; a dead owner never wedges the lock |
| `fsl` | 2 processes, 3 tasks, two of which call twice | one task per process; exclusion until a death or a timeout; every queued call settles |
| `fsl_crash` | 3 processes, 1 call each | violation, section 5 |
| `sfl_safety` | 3 processes, 2 calls each, both options | exclusion, custody of the carrier |
| `spine_safety` | 2 processes, 3 rows, 2 seals, 2 interruptions, up to 2 events per block | the safety properties of the spine and the refinement of `EventLog` |
| `spine_free_view` | 2 processes, 3 rows, 2 seals | violation, section 5 |
| `jobs` | 2 runtimes, a recoverable and an unrecoverable job, of which the first may be cancelled, 1 crash, 1 lease period | callbacks once, on record, within capacity, never when cancelled before the dispatch; leases and final states only move forward |
| `jobs_poison` | the same | violation, section 5 |
| `launcher` | 2 launchers, 2 UIDs of which 1 is reserved, 1 canary | UIDs exclusive, nothing left behind, no foreign kill, every launch returns |
| `capture` | 2 directories, 3 files of 0, 1 and 65,537 bytes, 2 edits, 12 frames, 102,500 bytes | directories as they were at one instant, all or nothing, no orphan, every call settles |
| `repos` | 3 repositories, 4 calls, 1 foreign commit, with and without a remote | the recorded end is true and nothing moves after it, unless the compensation of a commit receipt has overtaken it; prepared before pushed; reverse order |
| `repos_refused` | 2 repositories, 3 calls, no remote | violation, section 5 |

*Why these bounds are enough to be interesting.* Two successive owners must die
for a generation to be skipped through the floor while a third contends, and a
fourth process is needed to hold the lock meanwhile: hence four processes and
three generations. The promise chain misbehaves only if a call finds a tail that
is being removed, hence a task with two calls. In the spine three rows with two
to a block give a drain of two blocks, a checkpoint marker alone in its block
and a marker sharing one; two interruptions allow recovery itself to be
interrupted (the proofs are for any number of seals). A lease of one and a clock of
one already let every lease expire under its owner; one job claims a
resource and the other does not say what it uses, which is what keeps them apart, since
the ceiling of two does not (`CapacityIsHeld` is proved for any number of jobs). Only
the recoverable job is cancelled (`MayCancel`): its cancellation can race a takeover,
and the other's only what the first's does too. Launchers that never meet on
a UID do not interact, so one free UID is the hard case. Two edits suffice to
replace a file and to put it back. Of the captures with the largest file, that of all
files has too many frames, one with the second file too many bytes, and one with the
empty file fits both limits. A saga of three has a middle repository, and
four calls allow a resumed compensation to be cut short and resumed again.
Symmetry is used only in runs without liveness properties and only over processes
that are interchangeable.

*Deadlock* is not checked: calls are bounded, so every behaviour ends with idle
or dead processes, which is where the program rests too.

*Fairness* is weak fairness throughout. `lal`: each live process's own steps; the
code is synchronous and polls in a bounded loop. `fsl`: each task's steps and the
passing of its window; the event loop runs and the clock moves. In both, the
guarded function returns; one that never settles keeps the lock in the code too.
`launcher`: the launcher's steps, the deadline, and the death of a killed VMM;
jailer and VMM may hang, and no error is counted on. `capture`: the SDK's
receiving and closing, its timer, and the death of a killed helper; the helper
may hang. Nothing assumes that a crash, an I/O error or a new call happens.

*Mutants.* Each property is accompanied by a mutated definition that stands for
a plausible mistake in the code (a dropped guard, a by-path write, a missing
recheck) and that TLC must find to violate it; they stand before the definitions
they replace and are named after them.

## 4 Proofs

The proofs hold for any number of processes, calls, generations, rows, seals,
interruptions, runtimes, jobs, launchers, UIDs, repositories and pushes by others, any block
size and any directory tree with any edits of it. The assumptions are the named
`ASSUME`s of the modules: bounds are natural numbers, a block holds at least one
event, the placeholder for "no process" is not a process, there are finitely many jobs
(`JobsAssumption`; the code's map of jobs is finite), every directory of a captured
tree is below its root (`RootedAssumption`), and paths have 1 to 4096 bytes
(`SizeAssumption`; `validate_source_path` has let them pass).

**`LogicalAppendLockProofs`.** `GenerationsSafe` is inductive with `TypeOK`.
`MutualExclusion` alone is not: it needs that a live holder's carrier is at its
slot, that fences stand only over dead owners, and that everything below a slot
or the floor is certified, so that two live holders are at the same slot and
hence the same. Proved: `TypeCorrect`, `GenerationsAreSafe`, `Exclusive`,
`HintSafe`, `OwnerRemoves`.

**`FileSystemLockProofs`.** Two independent facts. `OnePerProcess` is about the
promise chain: each call of `InProcessLock` waits for the tail it found and leaves
its own. `Queue` says that every busy call has an open gate, that the last gate in
the map is that of a busy call, and that there is a ranking of a process's busy calls
in which each waits for the one before it; only the first can be past its gate. The
ranking is needed because two calls waiting for the same gate would both pass, and no
condition on pairs of calls excludes that. `ExclusiveWithoutRecovery` is about the
file: until a process dies or a window expires nobody is about to rename, and the
call that created the file finds its own record in it (`Possession`, with `Owners` for
what has been written). Proved: `TypeCorrect`, `ChainExclusive`, `FileExclusive`.

**`SyncFileMutationLockProofs`.** `OwnerKeepsCarrier` is inductive with `TypeOK`:
as long as nothing can be taken over, the file belongs to the live process that
is past creating it, and nobody is about to rename it. `Exclusion` follows since
tokens of different processes differ.

**`SpineProofs`.** Two layers.

- `TypeOK` with `SnapshotsSafe` is inductive whatever the lock does
  (`TypeCorrect`), and so is that the chain only grows (`HistoryKept`): an
  unlocked sealer can lose events but cannot rewrite history, because
  `validateBlock` refuses a block built on another head.
- Under `ExclusiveSealer`, `SealerSafe` is inductive (`SealerIsSafe`). Its parts:
  `ChainSafe` (the chain is the staging log up to its last row, and the cursor is
  at one end of the last block), `LockSafe` (one process in a protected section),
  `TailSafe` (an unterminated block may be completed, and none is left behind
  `prepareForSeal`) and `PairSafe` (where the block and the cursor stand at each
  label of a seal). The steps are of two kinds, and a lemma each carries the
  invariant over: `OutsideSteps` for steps that leave chain and cursor alone, and
  `InsideSteps` for those of the one process inside a seal. The crux is
  `Snapshot`: with the cursor at the beginning of a non-empty last block, `Matched`
  is exactly that block's length, so recovery moves the cursor to its end and
  never further. From it follow `NothingLost`, `OrderKept` and
  `PairRecoverable`; `ImplementsLog`, the refinement of `EventLog`; and, with
  `ViewSafe` (what a reader under the lock has read is still so),
  `ViewsComplete`.

**`ProjectRuntimeProofs`.** Two layers again.

- About `JournalSpec`, in which any event may come at any time, so also a repeated or a
  late one. The invariant `JournalInv` says that the journal is well formed and that
  claims agree with rows (`Claims`: a job whose callback is on record is not queued and
  has the claimant for owner); without it a dispatch could be repeated by a second
  owner. One lemma per event kind shows that the fold keeps it and makes only a
  `JobStep`; from this `JournalTypeCorrect`, `ClaimsAreExclusive`, `FinalRowsStay`,
  `LeasesOnlyGrow` and `CancelledStayIdle`.
- About the runtimes. `CallbackOnce` is far from inductive: it depends on what every
  runtime believes of every job and on what it has decided but not yet staged. The
  invariant `Inv` has five parts. `Standing` relates where a job is in a runtime (queued,
  admitted, running, finishing, being reclaimed) to the runtime's copy of the row and to
  the journal. `Mail` is about events that are decided and not staged: what they were
  decided on still holds, which for a dispatch is so because its runtime has the lock and
  nobody else can put a callback on record. `Started` says that an invoked callback is on
  record, `Room` that the callbacks on record leave each other room, and `Types` includes
  `JournalInv`. Several parts are claimed only of a journal that is not poisoned: after
  the defect of `jobs_poison` every load throws, so no callback starts, and those that
  run stay on record. A turn of a runtime composes refresh, classification, recovery and draining;
  `TurnOK` is the invariant of the turn in progress, and each of these keeps it. They are
  folds over the jobs, and the installed provers cannot instantiate an induction
  principle. The lemmas on folds take a least counterexample instead (`FoldExists`), for
  which the jobs must be finite. Proved: `RuntimesImplementJournal` (`Spec => JournalSpec`,
  so the first layer holds of the runtimes: `RuntimesKeepJournal`), `TypeCorrect`,
  `OnceOnly`, `CallbacksOnRecord`, `CapacityIsHeld` and `CancelledStayOff`. The last joins
both layers: the fold refuses to dispatch a cancelled job, whoever decided it and when,
and `Inv` with `Starting` (the job about to be invoked is on record as dispatched) says
that only a dispatched job starts. It does not say that no callback starts after a
cancellation: between `Execute` and `Invoke` one may come in, and the job then starts
and is aborted by the next look. `Inv` was
  checked by TLC on the instance of the `jobs` run before it was proved.

**`ProberLauncherProofs`.** The invariant `Inv` has, besides the types, `OwnState`
(what an attempt's position and guards say of its lease and its processes),
`LeaseShields` (no process of another attempt has a leased UID) and `Progressed`
(how dead the VMM is and what the serial file holds at each stage of success).
`NoForeignKill` follows from these as an action property (`KillsAreOwn`).
`UidExclusive` alone is not inductive: between the second look at `/proc` and the
spawn only the lease keeps others out, and a lease outlives its launcher.
Proved: `TypeCorrect`, `UidsAreExclusive`, `LeasesAreOwn`, `NoOrphans`,
`SuccessIsClean`, `KillsAreOwn`.

**`PatchCaptureProofs`.** The invariant has five parts. `WalkInv` is the capture:
which directories are open and at which child (`Stations`, `Walked`), that the
inventory in hand is the directory at the stamp it was taken (`Inventoried`), and that
a block in hand was the file's at the stamp now held (`Held`). `DirectoryAtOneInstant`
needs both ends of it: the second inventory has the stamp of the first, and stamps only
grow, so nothing changed between. `Counted` ties the frames and the bytes sent to the
position in the output loop: with what is still due (`DueFrames`, `DueBytes`) they are
within the limits. The budget counts whole files while the writer sends chunks, so this
rests on what a chunk's encoding can take at most (`ChunkBytesProperties`) and on sums
over the rows left, again by a least counterexample; hence `BudgetSuffices`: for every
length and every limit, what the budget accepted is refused nowhere in the writing, and
only a failing write or a death cuts a response short. `Shared` and `Delivered`
say that the rows received and those under way are the rows written, in order, so that
`AllOrNothing` needs no trust in the channel; `Settled` that the promise settles after
the close and the close after the exit. Proved: `TypeCorrect`, `CaptureIsConsistent`,
`CaptureIsAtomic`, `NoHelperLeft`, `BudgetSuffices`.

**`MultiRepositoryProofs`.** The invariant relates the position of a call, the events
on record and the branches: `Positions` and `Records` (which events exist and at most
how often, what the call has read of them), `Order` (a receipt after its attempt, and
attempts in the order of the repositories), `Reached` (what has been pushed has been
prepared and attempted) and `Backward` (the compensation goes down from the last
repository reached, and what is above is reverted or was never reached). From it
`PreparedFirst` and `ReverseOrder`, whatever fails. `Outcome`, on top of it, says what
a record of the end implies for every branch; `EndIsTrue` and `FinalIsQuiet` follow
(`EndsAsItSays`, `EndedIsQuiet`), with nothing assumed of what fails. The seal of the
commit receipt may throw with the receipt on the spine, and the code then compensates:
the spine has the receipt and a compensation whose cause is uncertain, which is
`Overtaken`. The properties claim nothing of that receipt, and everything of the
terminal record that the compensation ends with. "On record" means staged or queued, because a crash between the staging of
an event and its seal must not lose what it says.

Only model-checked: the liveness properties (`Progress`, `EveryCallSettles`,
`Returns`, `Settles`), which are out of this prover's reach. Every invariant and every
action property of a passing run is a theorem.

## 5 What the checks found

Each is the counterexample of a run; the quotations are in `PROJECT.json`.

- `fsl_crash`: two waiters that have both read a dead owner's record; the slower
  `rename` removes the carrier the faster has just created, and both run.
- `spine_free_view`: `currentEvents()` without the sealer lock reads the chain
  before a seal and the cursor after it, and has an acknowledged event in neither.
- `jobs_poison`: a dispatch is decided under the sealer lock; before it is staged
  another runtime, which takes no lock, stages the job as stopped. The fold throws
  on the dispatch in every later load, for good.
- `repos_refused`: without a push remote the merge commit is the publication, and it
  precedes the record of the attempt. After a crash in between, the next call
  records an effect-free refusal of a change that is published.

Seen in the models without a run of their own:

- `lock.ts` line 132: with everybody alive, a waiter past its window that reads
  `ENOENT` during a release goes on to rename the next owner's carrier (`Expire`,
  `Decide`, `Rename`); hence the condition in `ExclusiveWithoutRecovery`. And line
  122: a carrier that exists but is not yet written is refused at once although the
  comment says it is waited for (`Exists`).
- The mutation lock has the race of `fsl_crash` when takeover is allowed; the code
  says so and offers custody callers the option that `sfl_safety` and `Exclusion`
  show to be safe.
- Coordinator: if the seal of the commit receipt throws, the compensation runs while
  the receipt stays staged (`Overtaken`); a call that comes in before its end is
  recorded finds the receipt and answers "committed" although branches are reverted. A
  compensated transaction whose own merge was prepared and then undone by the port
  leaves its attempt without a terminal. The retry after an effect proved absent
  cannot happen with this port, because the base branch stays checked out and the
  dry run wants the candidate (`Again` always compensates).
- Patch capture: given distinct stamps, the second inventory and the recheck of each
  file are each enough for `DirectoryAtOneInstant`; together they are a defence
  against coarse times.
- Launcher: a lease file whose write fails stays behind, and its UID is lost.

## 6 Not modelled

Of the modelled files: hashes and canonical encodings (blocks are identified by
their height), byte and row capacities of the store, the in-memory store,
`verify` and witness emission, and the validation of file kinds and modes.
Durability is that of completed writes: `fsync` is taken at its word, and a
power loss that reorders unsynchronised writes is not modelled. Interrupted seals
are in `Spine` and in `JournalSpec` (repeated events) but not in `ProjectRuntime`.
`ProjectRuntime` leaves out pausing, archiving, the queue limit, tracked
activities and the loads and locks that break their contracts; `MultiRepository` the plans of other transactions and a git child that outlives Keep; `PatchCapture` the
archive source and directories that are created or renamed under the walk.

Of the repository: the components of status `not_modelled` in `PROJECT.json`. Of
the Rust code, 1.45 million lines in all, 1.42 million are vendored crates
(`native/vendor-*`: bindings, cryptography, tables), which are not this program's
logic. The program's own crates are 26 thousand lines, of which half are codecs and
schema tables (`native/crates/protocol`); the stateful rest is the launcher and the
capture, modelled here. Keep's core is the TypeScript under `src/src/`. No model of
this program can therefore cover a large share of the repository's Rust lines.

## 7 Plan

Every safety property of a passing run is proved; what is left is to model more:
`MergeExecutor` (a decision lands at most once, for its digest only),
`RecordStore` over the contract of `SyncFileMutationLock` (no lost update), `Saga`
and `VetoQueue` of the scheduler, `Witness` over `Spine`.
