--------------------------- MODULE ProjectRuntime ---------------------------
(***************************************************************************)
(* Project runtimes of several processes on one job journal                *)
(* (src/src/session/project_runtime.ts over project_job_journal.ts).       *)
(*                                                                         *)
(* A runtime runs on one thread: a turn is the synchronous code between    *)
(* two awaits.  It loads the journal, changes its own rows and queues, and *)
(* stages events.  A turn is one action that decides everything, and puts  *)
(* the events into outbox; Flush stages them one by one, and the runtime   *)
(* does nothing else until they are staged, while the others do.           *)
(* tryDispatch, reclaimQueued, settleActivity and requestCancellation      *)
(* decide and stage under the lock spine.sealer; append and renew do not   *)
(* take it.  All runtimes recover commands and nobody pauses dispatch.     *)
(*                                                                         *)
(* Assumed: the lock is exclusive and passes on when its holder dies (the  *)
(* takeover of lock.ts can admit two, see FileSystemLock), and a load sees *)
(* every staged event (an unlocked view can miss one, see Spine).          *)
(***************************************************************************)
EXTENDS JobJournal, Sequences, FiniteSetsExt

CONSTANTS
  Resource,      \* exclusiveResource of each job, NoResource if it has none
  NoResource,
  Home,          \* the runtime each job is submitted to
  Ceiling,       \* aggregateCeiling; every job weighs 1
  Lease,         \* leaseMs
  MaxTime,       \* bound: the clock stops here
  MaxCrashes,    \* bound: runtimes that may die
  MayCancel      \* bound: jobs that somebody may cancel

ASSUME JobsAssumption == IsFiniteSet(Jobs)

ASSUME BoundsAssumption ==
  /\ Ceiling \in Nat \ {0} /\ Lease \in Nat \ {0}
  /\ Home \in [Jobs -> Proc]
  /\ MaxTime \in Nat /\ MaxCrashes \in Nat

VARIABLES
  clock,      \* Date.now() of the host
  lock,       \* holder of spine.sealer
  status,     \* of each runtime: "off", "up" or "dead"
  timer,      \* its heartbeat interval is set
  local,      \* its intents
  sched,      \* where each job is in it
  arg,        \* the time read for a call that waits for the lock
  aborted,    \* jobs whose AbortController has fired
  failed,     \* jobs whose callback, or its settlement, threw
  outbox,     \* events its current turn has still to stage
  used,       \* jobs ever submitted
  starting,   \* the job whose callback its current turn is about to invoke
  starts      \* times the callback of a job was invoked

runtimes == <<status, timer, local, sched, arg, aborted, failed>>
vars == <<journal, clock, lock, runtimes, outbox, used, starting, starts>>

\* "reclaim": waits to take a job over; "claimed": has; "admit": waits to
\* dispatch; "admitted": has; "run": in the callback; "settle": waits to
\* settle the activity; "finish": has.
Tokens == {"admit", "admitted", "run", "settle", "finish"}  \* in this.running
Scheduled == Tokens \cup {"queued"}
Places == Scheduled \cup {"none", "reclaim", "claimed"}

Init ==
  /\ JournalInit
  /\ clock = 0 /\ lock = Nobody
  /\ status = [p \in Proc |-> "off"]
  /\ timer = [p \in Proc |-> FALSE]
  /\ local = [p \in Proc |-> [j \in Jobs |-> NoRow]]
  /\ sched = [p \in Proc |-> [j \in Jobs |-> "none"]]
  /\ arg = [p \in Proc |-> [j \in Jobs |-> 0]]
  /\ aborted = [p \in Proc |-> {}] /\ failed = [p \in Proc |-> {}]
  /\ outbox = [p \in Proc |-> <<>>]
  /\ used = {} /\ starting = [p \in Proc |-> {}] /\ starts = [j \in Jobs |-> 0]

-----------------------------------------------------------------------------
(* A turn t of a runtime: s is the journal as it sees it, own events        *)
(* included; l, sc, at, ab are its local, sched, arg and aborted; out the   *)
(* events it stages; thrown ends it early.                                  *)

Turn(p) == [s |-> journal, l |-> local[p], sc |-> sched[p], at |-> arg[p],
            ab |-> aborted[p], out |-> <<>>, thrown |-> FALSE]

EndTurn(p, t) ==
  /\ local' = [local EXCEPT ![p] = t.l]
  /\ sched' = [sched EXCEPT ![p] = t.sc]
  /\ arg' = [arg EXCEPT ![p] = t.at]
  /\ aborted' = [aborted EXCEPT ![p] = t.ab]
  /\ outbox' = [outbox EXCEPT ![p] = t.out]

Emit(t, e) == [t EXCEPT !.out = Append(@, e), !.s = Fold(@, e)]

EventOf(kind, j, prior, row) == [kind |-> kind, job |-> j, prior |-> prior, row |-> row]
RowOf(state, p, updated, lease) ==
  [state |-> state, owner |-> p, updated |-> updated, lease |-> lease]

\* append() of a row the runtime then keeps; the caller handles its throwing.
Appendable(t, j, row) == ~t.s.poisoned /\ ~Refused(t.s.rows[j], row)
Recorded(t, j, row) ==
  LET kept == [t EXCEPT !.l[j] = row] IN
  IF Changes(t.s.rows[j], row) THEN Emit(kept, EventOf("intent", j, row.owner, row)) ELSE kept

\* transition(): the row is built from the runtime's own copy.
Moved(t, j, state) ==
  [t.l[j] EXCEPT !.state = state, !.updated = clock, !.lease = Later(@, clock + Lease)]

\* uncertain() and markLocallyUncertain(): a hold only this runtime knows of.
Uncertain(t, j) ==
  IF t.l[j].state = "none" THEN t
  ELSE [t EXCEPT !.l[j].state = "reconciliation-required", !.l[j].updated = Later(@, clock)]

\* Work that still counts although its row may be final.
Active(s, j) == s.acts[j].state = "running"

\* What an observer makes of a live row whose lease has run out.
Expired(row) ==
  [row EXCEPT !.state = IF row.state = "queued" THEN "stopped" ELSE "reconciliation-required",
              !.updated = clock, !.lease = Later(@, clock)]

\* The part of refreshJournal() behind the ownership and cancellation tests.
Classify(t, j) ==
  LET obs == t.s.rows[j]
      mine == t.l[j]
      late == obs.state \in Live /\ obs.lease <= clock
      recoverable == obs.state = "queued" /\ j \in Commands /\ j \notin t.s.cancelled
  IN CASE mine.state \in Live /\ t.sc[j] \in Scheduled -> t
       [] OTHER ->
          CASE obs.state \in {"completed", "failed"} /\ ~Active(t.s, j) -> [t EXCEPT !.l[j] = NoRow]
            [] mine.state = "reconciliation-required" /\ obs.state \in Live -> t
            [] OTHER ->
               CASE late /\ recoverable -> [t EXCEPT !.l[j] = obs]
                 [] late /\ ~recoverable ->
                      IF Appendable(t, j, Expired(obs)) THEN Recorded(t, j, Expired(obs)) ELSE t
                 [] ~late /\ (mine.state = "none" \/ obs.updated >= mine.updated) ->
                      [t EXCEPT !.l[j] = obs]
                 [] OTHER -> t

\* One row of refreshJournal().
Observe(t, j) ==
  LET obs == t.s.rows[j]
      mine == t.l[j]
      moved == mine.state # "none" /\ mine.owner # obs.owner
      dropped == [t EXCEPT !.sc[j] = IF @ = "queued" THEN "none" ELSE @]
      stopped == Moved(t, j, "stopped")
  IN CASE t.thrown \/ obs.state = "none" -> t
       [] OTHER ->
          CASE moved -> [dropped EXCEPT !.l[j] = obs]
            [] ~moved /\ j \in t.s.cancelled /\ t.sc[j] = "queued" ->
                 IF Appendable(t, j, stopped) THEN Recorded(dropped, j, stopped)
                 ELSE [Uncertain(dropped, j) EXCEPT !.thrown = TRUE]
            [] ~moved /\ j \in t.s.cancelled /\ t.sc[j] \in {"run", "settle", "finish"} ->
                 Classify([t EXCEPT !.ab = @ \cup {j}], j)
            [] OTHER -> Classify(t, j)

ObserveAll(t) == FoldSet(LAMBDA j, u: Observe(u, j), t, Jobs)

\* refreshJournal(): load() throws once the journal is poisoned.
Refresh(t) ==
  IF t.s.poisoned THEN [t EXCEPT !.thrown = TRUE]
  ELSE ObserveAll(t)

\* runningEntries(): own callbacks, and what others seem to be running.
RunningEntries(t) ==
  {j \in Jobs: \/ t.sc[j] \in Tokens
               \/ /\ t.l[j].state # "none"
                  /\ Active(t.s, j) \/ (t.l[j].state = "running" /\ t.l[j].lease > clock)}

\* concurrencyGovernor() on jobs of weight 1 and one project share.
Fits(n) == n + 1 <= Ceiling

Admit(t, j) ==
  IF t.sc[j] = "queued" /\ Fits(Cardinality(RunningEntries(t)))
  THEN [t EXCEPT !.sc[j] = "admit", !.at[j] = clock] ELSE t

AdmitAll(t) == FoldSet(LAMBDA j, u: Admit(u, j), t, Jobs)

\* drain()
Drain(t) ==
  LET u == Refresh(t) IN
  IF u.thrown THEN u ELSE AdmitAll(u)

\* renewLeases()
Renew(p, t) ==
  LET owned == {j \in Jobs: /\ t.sc[j] \in Scheduled
                            /\ t.l[j].owner = p /\ t.l[j].state \in Live}
      row == RowOf("running", p, clock, clock + Lease)
      kept == [t EXCEPT !.l = [j \in Jobs |->
                IF j \in owned THEN [t.l[j] EXCEPT !.updated = row.updated, !.lease = row.lease]
                               ELSE t.l[j]]]
  IN IF t.thrown \/ owned = {} THEN t
     ELSE Emit(kept, [kind |-> "heartbeat", jobs |-> owned, row |-> row])

\* What recoverQueuedCommands() would try to take over.
Recoverable(t) ==
  IF t.thrown \/ \E j \in Jobs: t.sc[j] \in {"reclaim", "claimed"} THEN {}
  ELSE {j \in Commands: /\ t.l[j].state = "queued" /\ t.l[j].lease <= clock
                        /\ j \notin t.s.cancelled /\ t.sc[j] = "none"}

-----------------------------------------------------------------------------
(* Turns. *)

\* A runtime between two turns.
Ready(p) == status[p] = "up" /\ outbox[p] = <<>> /\ starting[p] = {}

\* The constructor: it classifies what dead runtimes left behind.
BootRow(t, j) ==
  LET obs == t.s.rows[j] IN
  CASE obs.state \in {"none", "completed", "failed"} ->
         IF Active(t.s, j) THEN [t EXCEPT !.l[j] = obs] ELSE t
    [] \/ obs.state \in Final \ {"completed", "failed"}
       \/ obs.state \in Live /\ obs.lease > clock
       \/ obs.state = "queued" /\ j \in Commands -> [t EXCEPT !.l[j] = obs]
    [] OTHER -> Recorded(t, j, Expired(obs))

BootRows(t) == FoldSet(LAMBDA j, u: BootRow(u, j), t, Jobs)

Boot(p) ==
  /\ status[p] = "off" /\ ~journal.poisoned
  /\ status' = [status EXCEPT ![p] = "up"]
  /\ timer' = [timer EXCEPT ![p] = TRUE]
  /\ EndTurn(p, BootRows(Turn(p)))
  /\ UNCHANGED <<journal, clock, lock, failed, used, starting, starts>>

\* enqueueTracked(): the queued row, then a dispatch or a place in the queue.
Submit(p, j) ==
  LET t == Refresh(Turn(p))
      row == RowOf("queued", p, clock, clock + Lease)
      kept == Emit([t EXCEPT !.l[j] = row], EventOf("intent", j, p, row))
  IN /\ Ready(p) /\ j \notin used /\ p = Home[j]
     /\ used' = used \cup {j}
     /\ timer' = [timer EXCEPT ![p] = @ \/ ~t.thrown]
     /\ EndTurn(p, IF t.thrown THEN t
                   ELSE IF Fits(Cardinality(RunningEntries(t)))
                        THEN [kept EXCEPT !.sc[j] = "admit", !.at[j] = clock]
                        ELSE [kept EXCEPT !.sc[j] = "queued"])
     /\ UNCHANGED <<journal, clock, lock, status, failed, starting, starts>>

\* The interval: refresh, renew, drain, and begin to recover one command.
Heartbeat(p) ==
  LET t == Drain(Renew(p, Refresh(Turn(p))))
      r == Refresh(t)
      held == [t EXCEPT !.l = [j \in Jobs |->
                IF t.l[j].owner = p /\ t.l[j].state = "running"
                THEN [t.l[j] EXCEPT !.state = "reconciliation-required"] ELSE t.l[j]]]
  IN /\ Ready(p) /\ timer[p]
     /\ \/ /\ t.thrown
           /\ timer' = [timer EXCEPT ![p] = FALSE]
           /\ EndTurn(p, held)
        \/ /\ ~t.thrown /\ UNCHANGED timer
           /\ \/ Recoverable(r) = {} /\ EndTurn(p, r)
              \/ \E j \in Recoverable(r):
                   EndTurn(p, [r EXCEPT !.sc[j] = "reclaim", !.at[j] = clock])
     /\ UNCHANGED <<journal, clock, lock, status, failed, used, starting, starts>>

\* Mutant of Busy: an expired callback no longer takes room.
BusyLeased(s) == {j \in Jobs: s.rows[j].state = "running" /\ s.rows[j].lease > clock}

\* The jobs a dispatch must leave room for.
Busy(s) == {j \in Jobs: Active(s, j) \/ s.rows[j].state = "running"}
Clash(j, k) ==
  /\ Resource[j] # NoResource \/ Resource[k] # NoResource
  /\ \/ Resource[j] = NoResource \/ Resource[k] = NoResource
     \/ Resource[j] = Resource[k]

\* tryDispatch(), with the time start() read before it waited for the lock.
Dispatch(p, j) ==
  LET now == arg[p][j]
      row == RowOf("running", p, now, now + Lease)
      live == /\ ~journal.poisoned
              /\ Claimable(journal, j) /\ journal.rows[j].owner = p /\ journal.rows[j].lease > now
      room == /\ \A k \in Busy(journal): ~Clash(j, k)
              /\ Fits(Cardinality(Busy(journal)))
      t == Turn(p)
  IN /\ Ready(p) /\ sched[p][j] = "admit" /\ lock = Nobody
     /\ \/ /\ live /\ ~room
           /\ EndTurn(p, [t EXCEPT !.sc[j] = "queued", !.at[j] = 0])
           /\ UNCHANGED lock
        \/ /\ live /\ room /\ ~Refused(journal.rows[j], row)
           /\ EndTurn(p, Emit([t EXCEPT !.sc[j] = "admitted"], EventOf("dispatch", j, p, row)))
           /\ lock' = p
        \/ /\ ~live \/ (room /\ Refused(journal.rows[j], row))
           /\ EndTurn(p, Drain(Uncertain([t EXCEPT !.sc[j] = "none", !.at[j] = 0], j)))
           /\ UNCHANGED lock
     /\ UNCHANGED <<journal, clock, status, timer, failed, used, starting, starts>>

\* Mutant of Execute: the callback is invoked without another look.
ExecuteBlind(p, j) ==
  LET now == arg[p][j] IN
  /\ Ready(p) /\ sched[p][j] = "admitted"
  /\ EndTurn(p, [Turn(p) EXCEPT !.sc[j] = "run", !.at[j] = 0, !.ab = @ \ {j},
                   !.l[j].state = "running", !.l[j].updated = now, !.l[j].lease = now + Lease])
  /\ starting' = [starting EXCEPT ![p] = {j}]
  /\ UNCHANGED <<journal, clock, lock, status, timer, failed, used, starts>>

\* The dispatch is staged: execute() reads the journal once more and gives up
\* when a cancellation has come in.
Execute(p, j) ==
  LET now == arg[p][j]
      t == Refresh([Turn(p) EXCEPT !.sc[j] = "run", !.at[j] = 0, !.ab = @ \ {j},
                      !.l[j].state = "running", !.l[j].updated = now, !.l[j].lease = now + Lease])
      go == ~t.thrown /\ j \notin t.ab
  IN /\ Ready(p) /\ sched[p][j] = "admitted"
     /\ EndTurn(p, IF go THEN t ELSE [t EXCEPT !.sc[j] = "settle"])
     /\ failed' = [failed EXCEPT ![p] = IF go THEN @ \ {j} ELSE @ \cup {j}]
     /\ starting' = [starting EXCEPT ![p] = IF go THEN {j} ELSE {}]
     /\ UNCHANGED <<journal, clock, lock, status, timer, used, starts>>

\* The same turn ends by invoking the callback.  It holds no lock: another
\* process may have staged a cancellation since the journal was read.
Invoke(p, j) ==
  /\ status[p] = "up" /\ outbox[p] = <<>> /\ j \in starting[p]
  /\ starting' = [starting EXCEPT ![p] = {}]
  /\ starts' = [starts EXCEPT ![j] = @ + 1]
  /\ UNCHANGED <<journal, clock, lock, runtimes, outbox, used>>

\* The callback returns or throws.
Return(p, j) ==
  /\ Ready(p) /\ sched[p][j] = "run"
  /\ sched' = [sched EXCEPT ![p][j] = "settle"]
  /\ \/ UNCHANGED failed
     \/ failed' = [failed EXCEPT ![p] = @ \cup {j}]
  /\ UNCHANGED <<journal, clock, lock, status, timer, local, arg, aborted, outbox, used, starting, starts>>

\* settleActivity()
Settle(p, j) ==
  LET act == journal.acts[j]
      known == ~journal.poisoned /\ act.state # "none" /\ act.owner = p
      t == [Turn(p) EXCEPT !.sc[j] = "finish"]
      e == EventOf("settled", j, p, RowOf("running", p, act.at, act.at))
  IN /\ Ready(p) /\ sched[p][j] = "settle" /\ lock = Nobody
     /\ failed' = [failed EXCEPT ![p] = IF known THEN @ ELSE @ \cup {j}]
     /\ IF known /\ act.state = "running"
        THEN EndTurn(p, Emit(t, e)) /\ lock' = p
        ELSE EndTurn(p, t) /\ UNCHANGED lock
     /\ UNCHANGED <<journal, clock, status, timer, used, starting, starts>>

\* finish(), or, for a job that is held, the row that says so; then the token
\* goes and the queue moves.
FinishAs(p, j, held) ==
  LET ok == j \notin failed[p]
      t == IF ok \/ held THEN Turn(p) ELSE Refresh(Turn(p))
      to == CASE held -> "reconciliation-required"
              [] ~held /\ ok -> "completed"
              [] OTHER -> IF Active(t.s, j) THEN "reconciliation-required" ELSE "failed"
      row == Moved(t, j, to)
      ended == IF t.thrown THEN t
               ELSE IF t.l[j].state # "none" /\ Appendable(t, j, row)
                    THEN LET u == Recorded(t, j, row) IN
                         IF to \in {"completed", "failed"} THEN [u EXCEPT !.l[j] = NoRow] ELSE u
                    ELSE Uncertain(t, j)
  IN /\ Ready(p) /\ sched[p][j] = "finish"
     /\ EndTurn(p, Drain([ended EXCEPT !.sc[j] = "none", !.ab = @ \ {j}, !.thrown = FALSE]))
     /\ failed' = [failed EXCEPT ![p] = @ \ {j}]
     /\ UNCHANGED <<journal, clock, lock, status, timer, used, starting, starts>>

\* A job is held after a cancellation, or when what it threw says that its
\* result exists (ProjectFinalizationError).
Finish(p, j) ==
  \/ FinishAs(p, j, j \in aborted[p])
  \/ j \in failed[p] /\ starts[j] > 0 /\ FinishAs(p, j, TRUE)

\* reclaimQueued(), with the time read before the wait for the lock.
Reclaim(p, j) ==
  LET row == RowOf("queued", p, arg[p][j], arg[p][j] + Lease)
      from == journal.rows[j].owner
      t == Turn(p)
  IN /\ Ready(p) /\ sched[p][j] = "reclaim" /\ lock = Nobody
     /\ IF ~journal.poisoned /\ journal.rows[j].state # "none" /\ Reclaimable(journal, j, from, row)
        THEN /\ EndTurn(p, Emit([t EXCEPT !.sc[j] = "claimed"], EventOf("reclaimed", j, from, row)))
             /\ lock' = p
        ELSE EndTurn(p, [t EXCEPT !.sc[j] = "none", !.at[j] = 0]) /\ UNCHANGED lock
     /\ UNCHANGED <<journal, clock, status, timer, failed, used, starting, starts>>

\* The takeover is staged: the command joins the queue.
Claimed(p, j) ==
  LET row == RowOf("queued", p, arg[p][j], arg[p][j] + Lease) IN
  /\ Ready(p) /\ sched[p][j] = "claimed"
  /\ timer' = [timer EXCEPT ![p] = TRUE]
  /\ EndTurn(p, Drain([Turn(p) EXCEPT !.l[j] = row, !.sc[j] = "queued", !.at[j] = 0]))
  /\ UNCHANGED <<journal, clock, lock, status, failed, used, starting, starts>>

\* cancel() on any runtime: requestCancellation() stages the request.  The looks
\* at the journal before the wait for the lock and after it are turns of their own
\* (Status).
Cancel(p, j) ==
  /\ Ready(p) /\ lock = Nobody /\ ~journal.poisoned /\ j \in MayCancel
  /\ journal.rows[j].state \in Live /\ j \notin journal.cancelled
  /\ EndTurn(p, Emit(Turn(p), EventOf("cancel", j, p, RowOf("queued", p, 0, 0))))
  /\ lock' = p
  /\ UNCHANGED <<journal, clock, status, timer, failed, used, starting, starts>>

\* status() and job(): looking at jobs also classifies expired ones.
Status(p) ==
  /\ Ready(p)
  /\ EndTurn(p, Refresh(Turn(p)))
  /\ UNCHANGED <<journal, clock, lock, status, timer, failed, used, starting, starts>>

-----------------------------------------------------------------------------
(* The log, the clock and failures. *)

\* Mutant of Flush: the lock is not released after the last event.
FlushHoldsLock(p) ==
  /\ status[p] = "up" /\ outbox[p] # <<>>
  /\ journal' = Fold(journal, Head(outbox[p]))
  /\ outbox' = [outbox EXCEPT ![p] = Tail(@)]
  /\ UNCHANGED <<clock, lock, runtimes, used, starting, starts>>

\* stage() of the next event of a turn; a locked call ends with its last one.
Flush(p) ==
  LET e == Head(outbox[p]) IN
  /\ status[p] = "up" /\ outbox[p] # <<>>
  /\ journal' = Fold(journal, e)
  /\ outbox' = [outbox EXCEPT ![p] = Tail(@)]
  /\ lock' = IF lock = p /\ Len(outbox[p]) = 1 THEN Nobody ELSE lock
  /\ UNCHANGED <<clock, runtimes, used, starting, starts>>

Tick ==
  /\ clock < MaxTime
  /\ clock' = clock + 1
  /\ UNCHANGED <<journal, lock, runtimes, outbox, used, starting, starts>>

\* A runtime dies, with whatever its turn had not yet staged.
Crash(p) ==
  /\ status[p] = "up"
  /\ Cardinality({q \in Proc: status[q] = "dead"}) < MaxCrashes
  /\ status' = [status EXCEPT ![p] = "dead"]
  /\ timer' = [timer EXCEPT ![p] = FALSE]
  /\ local' = [local EXCEPT ![p] = [j \in Jobs |-> NoRow]]
  /\ sched' = [sched EXCEPT ![p] = [j \in Jobs |-> "none"]]
  /\ arg' = [arg EXCEPT ![p] = [j \in Jobs |-> 0]]
  /\ aborted' = [aborted EXCEPT ![p] = {}]
  /\ failed' = [failed EXCEPT ![p] = {}]
  /\ outbox' = [outbox EXCEPT ![p] = <<>>]
  /\ lock' = IF lock = p THEN Nobody ELSE lock
  /\ starting' = [starting EXCEPT ![p] = {}]
  /\ UNCHANGED <<journal, clock, used, starts>>

Next ==
  \/ \E p \in Proc: Boot(p) \/ Heartbeat(p) \/ Status(p) \/ Flush(p) \/ Crash(p)
  \/ \E p \in Proc, j \in Jobs:
       \/ Submit(p, j) \/ Dispatch(p, j) \/ Execute(p, j) \/ Invoke(p, j) \/ Return(p, j)
       \/ Settle(p, j) \/ Finish(p, j) \/ Reclaim(p, j) \/ Claimed(p, j) \/ Cancel(p, j)
  \/ Tick

Spec == Init /\ [][Next]_vars

-----------------------------------------------------------------------------
(* Properties. *)

Callbacks == {x \in Proc \X Jobs: sched[x[1]][x[2]] = "run"}

\* The journal is well formed, a job a runtime has claimed has a local row, and a
\* runtime that holds the lock is about to stage what it decided under it.
TypeOK ==
  /\ JournalTypeOK
  /\ clock \in 0..MaxTime /\ used \subseteq Jobs
  /\ \A p \in Proc:
       /\ status[p] \in {"off", "up", "dead"}
       /\ \A j \in Jobs: /\ local[p][j] \in Row /\ sched[p][j] \in Places
                         /\ sched[p][j] \in Scheduled \ {"admit"} => local[p][j].state # "none"
       /\ Len(outbox[p]) > 0 => \A i \in DOMAIN outbox[p]: outbox[p][i] \in Event
       /\ lock = p => outbox[p] # <<>>

\* The callback of a job is invoked at most once, over takeovers, dead
\* owners, late heartbeats and cancellations.
CallbackOnce == \A j \in Jobs: starts[j] <= 1

\* Callbacks of all runtimes together stay under the ceiling, and none runs
\* beside one that claims its resource, however late its heartbeats are.
CapacityHeld ==
  /\ Cardinality(Callbacks) <= Ceiling
  /\ \A x, y \in Callbacks: x # y => ~Clash(x[2], y[2])

\* A running callback is on record as its runtime's, unresolved: nobody can
\* take the job over or its capacity while it runs.
CallbackOnRecord ==
  \A x \in Callbacks:
    /\ journal.acts[x[2]].state = "running" /\ journal.acts[x[2]].owner = x[1]
    /\ journal.rows[x[2]].owner = x[1]

\* A job whose cancellation is on record before its dispatch stays undispatched
\* for good and its callback is never invoked, whatever was decided, and by whom,
\* before the request came in.  (A dispatch that is on record already may still
\* start its callback just after a request: the owner's last look is unlocked.)
CancelledNeverRuns ==
  [][\A j \in Jobs:
       j \in journal.cancelled /\ journal.acts[j].state = "none" =>
         /\ j \in journal'.cancelled /\ journal'.acts[j].state = "none"
         /\ starts[j] = 0 /\ starts'[j] = 0]_vars

\* No sequence of events the runtimes stage makes the journal unreadable.
NotPoisoned == ~journal.poisoned
=============================================================================
