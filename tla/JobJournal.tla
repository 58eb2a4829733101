----------------------------- MODULE JobJournal -----------------------------
(***************************************************************************)
(* The project job journal (src/src/session/project_job_journal.ts): the   *)
(* rows that fold() derives from the job events of the spine.  Writers in  *)
(* several processes stage events; nobody can take one back, so a rule of  *)
(* the fold is the last word on what an event does, and an event it throws *)
(* on makes the journal unreadable for everyone, for good.                 *)
(*                                                                         *)
(* A row keeps what the rules read: state, owner, updatedAt and leaseUntil.*)
(* The immutable identity of a job is its name, and commandDigest and      *)
(* exclusiveResource are constants of it.  Of the activities only the      *)
(* callback's own is kept (trackActivity adds others of the same kind).    *)
(***************************************************************************)
EXTENDS Integers

CONSTANTS
  Proc,      \* runtimes; ownerId is the runtime's own name
  Jobs,
  Commands   \* jobs with a commandDigest, which another runtime may take over

ASSUME CommandsAssumption == Commands \subseteq Jobs

Nobody == "nobody"
ASSUME NobodyAssumption == Nobody \notin Proc

VARIABLE journal   \* what fold() makes of the events staged so far

Final == {"stopped", "reconciliation-required", "completed", "failed"}
Live == {"queued", "running"}

Allowed == [s \in Live \cup Final \cup {"none"} |->
  CASE s = "queued" -> {"queued", "running", "stopped", "failed"}
    [] s = "running" -> {"running", "completed", "failed", "reconciliation-required"}
    [] OTHER -> {}]

Row == [state: Live \cup Final \cup {"none"}, owner: Proc \cup {Nobody},
        updated: Nat, lease: Nat]
NoRow == [state |-> "none", owner |-> Nobody, updated |-> 0, lease |-> 0]

Activity == [state: {"none", "running", "settled"}, owner: Proc \cup {Nobody}, at: Nat]
NoActivity == [state |-> "none", owner |-> Nobody, at |-> 0]

Journal == [rows: [Jobs -> Row], acts: [Jobs -> Activity],
            cancelled: SUBSET Jobs, poisoned: BOOLEAN]
EmptyJournal == [rows |-> [j \in Jobs |-> NoRow], acts |-> [j \in Jobs |-> NoActivity],
                 cancelled |-> {}, poisoned |-> FALSE]

\* A decoded event; row holds what it says of the job, owner or activity.
Record == [state: Live \cup Final, owner: Proc, updated: Nat, lease: Nat]
Event == [kind: {"intent", "reclaimed", "dispatch", "settled", "cancel"},
          job: Jobs, prior: Proc, row: Record]
         \cup [kind: {"heartbeat"}, jobs: SUBSET Jobs, row: Record]

Later(m, n) == IF m < n THEN n ELSE m

-----------------------------------------------------------------------------
(* validateTransition, for two rows of one job. *)

\* Mutant of Refused: times and leases are not compared.
RefusedByState(prior, row) ==
  \/ row.owner # prior.owner
  \/ row.state # prior.state /\ row.state \notin Allowed[prior.state]

\* The call throws.
Refused(prior, row) ==
  \/ row.owner # prior.owner
  \/ row.updated < prior.updated
  \/ row.lease < prior.lease
  \/ row.state # prior.state /\ row.state \notin Allowed[prior.state]

\* The call returns true: the row replaces the prior one.
Changes(prior, row) ==
  /\ ~Refused(prior, row)
  /\ row # prior
  /\ row.state = prior.state => prior.state \in Live

-----------------------------------------------------------------------------
(* One event of the fold.  SetRow(s, j, r) is latest.set(j, r). *)

SetRow(s, j, r) == [s EXCEPT !.rows[j] = r]
Poison(s) == [s EXCEPT !.poisoned = TRUE]

\* A refused intent is not thrown on: the job is held for reconciliation.
Conflict(prior, row) ==
  [state |-> "reconciliation-required", owner |-> prior.owner,
   updated |-> Later(prior.updated, row.updated), lease |-> Later(prior.lease, row.lease)]

FoldIntent(s, e) ==
  LET prior == s.rows[e.job] IN
  CASE prior.state = "none" /\ e.row.state = "queued" -> SetRow(s, e.job, e.row)
    [] prior.state # "none" /\ Refused(prior, e.row) ->
         SetRow(s, e.job, Conflict(prior, e.row))
    [] prior.state # "none" /\ Changes(prior, e.row) -> SetRow(s, e.job, e.row)
    [] OTHER -> s

\* Mutant of Reclaimable: a dispatched job can change hands.
ReclaimableRunning(s, j, from, row) ==
  LET prior == s.rows[j] IN
  /\ prior.owner = from /\ prior.state \in Live /\ row.state = "queued"
  /\ j \in Commands
  /\ prior.lease <= row.updated
  /\ Changes([prior EXCEPT !.owner = row.owner, !.state = "queued"], row)

\* What the fold requires of a takeover.
Reclaimable(s, j, from, row) ==
  LET prior == s.rows[j] IN
  /\ prior.owner = from /\ prior.state = "queued" /\ row.state = "queued"
  /\ j \in Commands
  /\ prior.lease <= row.updated
  /\ j \notin s.cancelled
  /\ s.acts[j].state = "none"
  /\ Changes([prior EXCEPT !.owner = row.owner], row)

FoldReclaimed(s, e) ==
  CASE s.rows[e.job] = e.row -> s
    [] s.rows[e.job] # e.row /\ Reclaimable(s, e.job, e.prior, e.row) ->
         SetRow(s, e.job, e.row)
    [] OTHER -> Poison(s)

\* Mutant of Claimable: a cancellation does not keep a job from its dispatch.
ClaimableCancelled(s, j) == s.rows[j].state = "queued"

\* A callback may only be claimed for queued work nobody has cancelled.
Claimable(s, j) == s.rows[j].state = "queued" /\ j \notin s.cancelled

\* Mutant of FoldDispatch: the fold trusts the state the writer saw.
FoldDispatchTrusting(s, e) ==
  [s EXCEPT !.rows[e.job] = e.row,
            !.acts[e.job] = [state |-> "running", owner |-> e.row.owner, at |-> e.row.updated]]

FoldDispatch(s, e) ==
  LET act == [state |-> "running", owner |-> e.row.owner, at |-> e.row.updated]
      known == /\ s.acts[e.job].state # "none"
               /\ s.acts[e.job].owner = act.owner /\ s.acts[e.job].at = act.at
  IN CASE e.row.state = "running" /\ known -> s
       [] /\ e.row.state = "running" /\ ~known
          /\ Claimable(s, e.job) /\ Changes(s.rows[e.job], e.row) ->
            [s EXCEPT !.rows[e.job] = e.row, !.acts[e.job] = act]
       [] OTHER -> Poison(s)

\* The settled record of the callback's activity, which names its start.
FoldSettled(s, e) ==
  LET act == s.acts[e.job] IN
  IF /\ s.rows[e.job].state # "none" /\ s.rows[e.job].owner = e.row.owner
     /\ act.state # "none" /\ act.owner = e.row.owner /\ act.at = e.row.updated
  THEN [s EXCEPT !.acts[e.job].state = "settled"]
  ELSE Poison(s)

FoldCancel(s, e) ==
  IF s.rows[e.job].state = "none" THEN s
  ELSE [s EXCEPT !.cancelled = @ \cup {e.job}]

\* A heartbeat renews the rows of its owner it does not move back in time.
Renewed(prior, e, j) ==
  /\ j \in e.jobs /\ prior.owner = e.row.owner /\ prior.state \in Live
  /\ e.row.updated >= prior.updated /\ e.row.lease >= prior.lease

FoldHeartbeat(s, e) ==
  [s EXCEPT !.rows = [j \in Jobs |->
    IF Renewed(s.rows[j], e, j)
    THEN [s.rows[j] EXCEPT !.updated = e.row.updated, !.lease = e.row.lease]
    ELSE s.rows[j]]]

\* A fold that throws never gets past the event: every later load throws too.
\* (The maps it had already changed are read by nothing that does not load.)
Fold(s, e) ==
  CASE s.poisoned -> s
    [] ~s.poisoned /\ e.kind = "intent" -> FoldIntent(s, e)
    [] ~s.poisoned /\ e.kind = "reclaimed" -> FoldReclaimed(s, e)
    [] ~s.poisoned /\ e.kind = "dispatch" -> FoldDispatch(s, e)
    [] ~s.poisoned /\ e.kind = "settled" -> FoldSettled(s, e)
    [] ~s.poisoned /\ e.kind = "cancel" -> FoldCancel(s, e)
    [] ~s.poisoned /\ e.kind = "heartbeat" -> FoldHeartbeat(s, e)

-----------------------------------------------------------------------------
(* The journal under writers that stage any event at any time, repeated   *)
(* and stale ones included.                                                *)

JournalInit == journal = EmptyJournal

JournalNext == \E e \in Event: journal' = Fold(journal, e)

JournalSpec == JournalInit /\ [][JournalNext]_journal

-----------------------------------------------------------------------------
(* What the fold rules promise whatever the writers do. *)

\* Rows, activities and cancellations are well formed.
JournalTypeOK == journal \in Journal

\* A job with a callback record was claimed by the runtime the record names
\* and still belongs to it: ownership never moves once work may have begun.
ClaimIsExclusive ==
  \A j \in Jobs: journal.acts[j].state # "none" =>
    /\ journal.rows[j].state \notin {"none", "queued"}
    /\ journal.rows[j].owner = journal.acts[j].owner

\* A final row stays final: no late heartbeat, stale intent, repeated
\* dispatch or takeover puts a finished job back on the queue.
FinalStays ==
  [][\A j \in Jobs: journal.rows[j].state \in Final => journal'.rows[j].state \in Final]_journal

\* A lease is never shortened and a row never moves back in time, so a
\* runtime that saw a lease as live is not contradicted by a later event.
LeaseKept(j) ==
  /\ journal'.rows[j].lease >= journal.rows[j].lease
  /\ journal'.rows[j].updated >= journal.rows[j].updated
LeaseNeverShortened == [][\A j \in Jobs: LeaseKept(j)]_journal

\* A job whose cancellation is recorded before its dispatch is never dispatched.
CancelledNotDispatched ==
  [][\A j \in journal.cancelled:
       journal.acts[j].state = "none" => journal'.acts[j].state = "none"]_journal
=============================================================================
