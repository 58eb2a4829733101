-------------------------- MODULE MultiRepository --------------------------
(***************************************************************************)
(* MultiRepositoryCoordinator (src/src/git/multi_repository_coordinator.ts)*)
(* over GitMergePort (src/src/git/git_merge_port.ts): one coordinated      *)
(* change of several repositories, applied in order, verified together and *)
(* reverted in reverse order after a failure.  A call may be cut short by  *)
(* a crash or an exception; the next call resumes from the spine.          *)
(*                                                                         *)
(* Calls hold the lock "publication.coordinator", so there is one at a     *)
(* time.  Only Keep uses the worktrees, so the base that a dry run reads   *)
(* is always the same commit: a branch is the sequence of its commits      *)
(* since then, and <<>> is the base itself.  The spine is the sequence of  *)
(* its events: what is staged survives, and every call begins by sealing   *)
(* it.  A push has had its effect when git returns or dies, or never will. *)
(***************************************************************************)
EXTENDS Integers, Sequences, FiniteSets

CONSTANTS
  N,             \* repositories of the plan
  Modes,         \* how they publish: "remote" (pushRemote) or "local"
  MaxCalls,      \* bound on the calls of apply
  MaxMoves       \* bound on the commits others push

ASSUME CountAssumption == N \in Nat \ {0} /\ MaxCalls \in Nat /\ MaxMoves \in Nat
ASSUME ModeAssumption == Modes \subseteq {"remote", "local"}

VARIABLES
  mode,     \* of this deployment
  local,    \* the base branch in each worktree
  head,     \* the branch checked out: "candidate" or "base"
  remote,   \* the base branch of each remote
  merges,   \* merge commits made so far
  log,      \* the spine
  call,     \* local variables of the call in progress
  result,   \* of the last call
  calls,    \* calls so far
  moves     \* commits of others so far

git == <<local, head, remote, merges>>
vars == <<mode, git, log, call, result, calls, moves>>

Repo == 1..N
Merged(r) == [kind |-> "merge", n |-> merges[r]]
Reverted(r) == [kind |-> "revert", n |-> merges[r]]
Elements(s) == {s[i]: i \in DOMAIN s}

\* publicationTarget: the branch others see.
Target(r) == IF mode = "remote" THEN remote[r] ELSE local[r]
Tip(s, c) == s # <<>> /\ s[Len(s)] = c

-----------------------------------------------------------------------------
(* The spine. *)

Event(ev, r, n, how) == [ev |-> ev, repo |-> r, n |-> n, how |-> how]
Events(ev) == {i \in DOMAIN log: log[i].ev = ev}   \* their places on the spine
Sole(ev) == log[CHOOSE i \in Events(ev): TRUE]
Recorded(ev, r) == \E e \in Elements(log): e.ev = ev /\ e.repo = r
Ended == Events("committed") # {} \/ Events("terminal") # {}

\* preparedAttempt: bound to this plan, prepared, and not terminal.
Prepared(r) ==
  LET open == {n \in 1..MaxCalls:
                 /\ {Event("bound", r, n, ""), Event("attempt", r, n, "")} \subseteq Elements(log)
                 /\ \A e \in Elements(log): e.ev = "closed" /\ e.repo = r => e.n # n}
  IN IF open = {} THEN 0 ELSE CHOOSE n \in open: TRUE

\* restoreApplied: one record for each repository of a prefix of the plan.
Applied == {log[i].repo: i \in Events("applied")}
Restorable == /\ Cardinality(Applied) = Cardinality(Events("applied"))
              /\ Applied = 1..Cardinality(Applied)

-----------------------------------------------------------------------------
(* The call. *)

NoCall == [pc |-> "idle", at |-> 0, sealing |-> FALSE, queue |-> <<>>, applied |-> {},
           pending |-> [r \in Repo |-> 0], status |-> ""]

At(l) == ~call.sealing /\ call.pc = l
Goto(c, l, r) == [c EXCEPT !.pc = l, !.at = r]
Stage(c, events) == [c EXCEPT !.sealing = TRUE, !.queue = events]

Keep == UNCHANGED <<mode, result, calls, moves>>

Return(how) ==
  /\ call' = NoCall /\ result' = how
  /\ UNCHANGED <<mode, git, log, calls, moves>>

\* compensate(): the intent is recorded before the first revert.
Compensating(how) ==
  Stage([Goto(call, "revert", Cardinality(call.applied)) EXCEPT !.status = how],
        <<Event("compensating", 0, 0, how)>>)

\* The loop over the plan goes on with the next repository.
Onward(c, l, next) == IF c.at = N THEN Goto(c, next, 1) ELSE Goto(c, l, c.at + 1)

\* spine.stage(), one event at a time, and spine.seal().
StageEvent ==
  /\ call.sealing /\ call.queue # <<>>
  /\ log' = Append(log, Head(call.queue))
  /\ call' = [call EXCEPT !.queue = Tail(@)]
  /\ UNCHANGED git /\ Keep
Seal ==
  /\ call.sealing /\ call.queue = <<>>
  /\ call' = [call EXCEPT !.sealing = FALSE]
  /\ UNCHANGED <<git, log>> /\ Keep

\* stage() or seal() throws where the exception is caught: the port undoes a
\* merge it could not prepare, and a commit that was not sealed is compensated,
\* also when its receipt is already on the spine.
Throw ==
  /\ call.sealing /\ call.pc \in {"push", "commit"}
  /\ LET c == [call EXCEPT !.sealing = FALSE, !.queue = <<>>] IN
       call' = IF call.pc = "push" THEN Goto(c, "undo", c.at) ELSE Compensating("uncertain")
  /\ UNCHANGED <<git, log>> /\ Keep

\* The process dies, or an exception leaves the call.
Crash ==
  /\ call.pc # "idle"
  /\ call' = NoCall /\ result' = "none"
  /\ UNCHANGED <<mode, git, log, calls, moves>>

Apply ==
  /\ call.pc = "idle" /\ calls < MaxCalls
  /\ calls' = calls + 1
  /\ call' = Goto(NoCall, "load", 1) /\ result' = "none"
  /\ UNCHANGED <<mode, git, log, moves>>

\* The records contradict each other.
Malformed ==
  \/ Cardinality(Events("committed")) + Cardinality(Events("terminal")) > 1
  \/ ~Ended /\ \/ Cardinality(Events("plan")) > 1 \/ Cardinality(Events("compensating")) > 1
               \/ ~Restorable
               \/ \E r \in Repo: Cardinality({i \in DOMAIN log: log[i].ev = "compensated"
                                                               /\ log[i].repo = r}) > 1

\* Mutant of Load: a commit on record does not end the call.
LoadForgetsCommit ==
  /\ At("load")
  /\ IF Events("terminal") # {} THEN Return(Sole("terminal").how)
     ELSE /\ call' = [Goto(call, IF Events("plan") = {} THEN "preflight" ELSE "survey", 1) EXCEPT
                       !.applied = Applied]
          /\ UNCHANGED <<git, log>> /\ Keep

\* Mutant of Load: a compensation is resumed at the first repository.
LoadResumesAtFirst ==
  /\ At("load")
  /\ IF Ended THEN Return("uncertain")
     ELSE /\ LET c == [call EXCEPT !.applied = Applied] IN
               call' = IF Events("compensating") # {} /\ Applied # {}
                         THEN [Goto(c, "revert", 1) EXCEPT !.status = "reverted"]
                         ELSE Goto(c, IF Events("plan") = {} THEN "preflight" ELSE "survey", 1)
          /\ UNCHANGED <<git, log>> /\ Keep

\* applyLocked, up to the first step outside the spine.
Load ==
  /\ At("load")
  /\ IF Malformed THEN Return("uncertain")
     ELSE IF Events("committed") # {} THEN Return("committed")
     ELSE IF Events("terminal") # {} THEN Return(Sole("terminal").how)
     ELSE /\ LET c == [call EXCEPT !.applied = Applied] IN
               call' = IF Events("compensating") # {}
                         THEN [Goto(c, "revert", Cardinality(Applied)) EXCEPT
                                 !.status = Sole("compensating").how]
                         ELSE Goto(c, IF Events("plan") = {} THEN "preflight" ELSE "survey", 1)
          /\ UNCHANGED <<git, log>> /\ Keep

-----------------------------------------------------------------------------
(* Preparing the repositories. *)

\* dryRun: the candidate is checked out and the remote is where the base is.
Clean(r) == head[r] = "candidate" /\ (mode = "remote" => remote[r] = local[r])

\* A new plan: every repository is preflighted, then the plan is recorded.
Preflight ==
  /\ At("preflight")
  /\ \/ /\ Clean(call.at)
        /\ LET c == Onward(call, "preflight", "apply") IN
             call' = IF call.at = N THEN Stage(c, <<Event("plan", 0, 0, "")>>) ELSE c
        /\ UNCHANGED <<git, log>> /\ Keep
     \/ Return("refused")

\* A plan on record: what a repository has prepared is left to the loop below.
Survey ==
  /\ At("survey")
  /\ LET r == call.at
         next == Onward(call, "survey", "apply") IN
       \/ /\ r \in call.applied \/ Prepared(r) # 0 \/ Clean(r)
          /\ call' = IF r \in call.applied THEN next
                     ELSE [next EXCEPT !.pending[r] = Prepared(r)]
          /\ UNCHANGED <<git, log>> /\ Keep
       \/ /\ r \notin call.applied /\ Prepared(r) = 0
          /\ IF call.applied = {} /\ Events("bound") = {}
               THEN /\ call' = Stage([call EXCEPT !.pc = "end", !.status = "refused"],
                                     <<Event("terminal", 0, 0, "refused")>>)
                    /\ UNCHANGED <<git, log>> /\ Keep
               ELSE Return("uncertain")

-----------------------------------------------------------------------------
(* Applying the repositories in order: first what an earlier call has left. *)

Current(r) == Tip(local[r], Merged(r)) /\ Tip(Target(r), Merged(r))   \* confirmPublished

\* recordApplied.
RecordApplied ==
  call' = Stage([Onward(call, "apply", "verify") EXCEPT !.applied = @ \cup {call.at}],
                <<Event("applied", call.at, merges[call.at], "")>>)

Confirm ==
  /\ At("apply") /\ call.at \in call.applied
  /\ \/ /\ Current(call.at)
        /\ call' = Onward(call, "apply", "verify")
        /\ UNCHANGED <<git, log>> /\ Keep
     \/ Return("uncertain")

\* observePublication, and reconcileAbsentPublication for an absent effect.
Observe ==
  /\ At("apply") /\ call.at \notin call.applied /\ call.pending[call.at] # 0
  /\ LET r == call.at IN
       \/ /\ Current(r)
          /\ RecordApplied
          /\ UNCHANGED <<git, log>> /\ Keep
       \/ /\ Target(r) = <<>> /\ head[r] = "base"
          /\ local[r] \in {<<>>, <<Merged(r)>>, <<Merged(r), Reverted(r)>>}
          /\ local' = IF local[r] = <<Merged(r)>> THEN [local EXCEPT ![r] = <<>>] ELSE local
          /\ call' = Stage([call EXCEPT !.pc = "again"],
                           <<Event("closed", r, call.pending[r], "reconciled-effect-absent"),
                             Event("absent", r, call.pending[r], "")>>)
          /\ UNCHANGED <<head, remote, merges, log>> /\ Keep
       \/ Return("uncertain")

\* The repository is preflighted anew before its merge is tried again.
Again ==
  /\ At("again")
  /\ call' = IF Clean(call.at) THEN [call EXCEPT !.pc = "apply", !.pending[call.at] = 0]
             ELSE Compensating("reverted")
  /\ UNCHANGED <<git, log>> /\ Keep

-----------------------------------------------------------------------------
(* GitMergePort.merge. *)

Checkout ==
  /\ At("apply") /\ call.at \notin call.applied /\ call.pending[call.at] = 0
  /\ head[call.at] = "candidate"
  /\ head' = [head EXCEPT ![call.at] = "base"]
  /\ call' = [call EXCEPT !.pc = "merge"]
  /\ UNCHANGED <<local, remote, merges, log>> /\ Keep

GitMerge ==
  /\ At("merge")
  /\ LET r == call.at IN
       /\ local[r] = <<>> /\ (mode = "remote" => remote[r] = <<>>)
       /\ merges' = [merges EXCEPT ![r] = @ + 1]
       /\ local' = [local EXCEPT ![r] = <<[kind |-> "merge", n |-> merges[r] + 1]>>]
  /\ call' = [call EXCEPT !.pc = "appraise"]
  /\ UNCHANGED <<head, remote, log>> /\ Keep

\* git makes the merge commit and fails all the same: there is no merge to abort.
MergeBreaks ==
  /\ At("merge")
  /\ LET r == call.at IN
       /\ local[r] = <<>> /\ (mode = "remote" => remote[r] = <<>>)
       /\ merges' = [merges EXCEPT ![r] = @ + 1]
       /\ local' = [local EXCEPT ![r] = <<[kind |-> "merge", n |-> merges[r] + 1]>>]
  /\ call' = Compensating("rollback-failed")
  /\ UNCHANGED <<head, remote, log>> /\ Keep

\* The candidate or the base has moved, or git fails: before the merge commit
\* ("reverted"), in aborting it, or in an exception the port does not catch.
MergeFails(how) ==
  /\ \/ how = "reverted" /\ At("apply") /\ call.at \notin call.applied /\ call.pending[call.at] = 0
     \/ how \in {"reverted", "rollback-failed", "uncertain"} /\ At("merge")
     \/ how = "uncertain" /\ At("appraise")
  /\ call' = Compensating(how)
  /\ UNCHANGED <<git, log>> /\ Keep

\* Mutant of Appraise: the attempt is bound to the plan only when it is applied.
AppraiseUnbound ==
  /\ At("appraise")
  /\ call' = Stage([call EXCEPT !.pc = "push"], <<Event("attempt", call.at, merges[call.at], "")>>)
  /\ UNCHANGED <<git, log>> /\ Keep

\* The merged tree is appraised and the attempt prepared, before any push.
Appraise ==
  /\ At("appraise")
  /\ LET r == call.at IN
       call' \in {Stage([call EXCEPT !.pc = "push"],
                        <<Event("bound", r, merges[r], ""), Event("attempt", r, merges[r], "")>>),
                  [call EXCEPT !.pc = "undo"]}
  /\ UNCHANGED <<git, log>> /\ Keep

\* The push takes effect under its lease; its answer may be lost.
Push ==
  /\ At("push")
  /\ LET r == call.at
         lands == mode = "remote" /\ remote[r] = <<>> IN
       \/ /\ mode = "local" \/ lands
          /\ remote' = IF lands THEN [remote EXCEPT ![r] = <<Merged(r)>>] ELSE remote
          /\ RecordApplied
          /\ UNCHANGED <<local, head, merges, log>> /\ Keep
       \/ /\ lands
          /\ remote' = [remote EXCEPT ![r] = <<Merged(r)>>]
          /\ call' = NoCall /\ result' = "uncertain"
          /\ UNCHANGED <<mode, local, head, merges, log, calls, moves>>
       \/ /\ lands
          /\ call' = [call EXCEPT !.pc = "undo"]
          /\ UNCHANGED <<git, log>> /\ Keep
       \/ /\ mode = "remote"
          /\ Return("uncertain")

\* The port's own compensation of a merge it did not publish.
Undo ==
  /\ At("undo")
  /\ \/ /\ local' = [local EXCEPT ![call.at] = Append(@, Reverted(call.at))]
        /\ call' = Compensating("reverted")
     \/ /\ call' = Compensating("rollback-failed")
        /\ UNCHANGED local
  /\ UNCHANGED <<head, remote, merges, log>> /\ Keep

-----------------------------------------------------------------------------
(* Verification and commit. *)

Verify ==
  /\ At("verify")
  /\ \/ call' = IF call.at < N THEN Goto(call, "verify", call.at + 1)
                ELSE Stage([call EXCEPT !.pc = "commit"],
                           [r \in Repo |-> Event("closed", r, merges[r], "effect-occurred-verified")]
                             \o <<Event("committed", 0, 0, "")>>)
     \/ call' = Compensating("reverted")
  /\ UNCHANGED <<git, log>> /\ Keep

Commit == At("commit") /\ Return("committed")

-----------------------------------------------------------------------------
(* compensate() and GitMergePort.revert. *)

RecordCompensated(ok) ==
  LET r == call.at IN
    call' = Stage(Goto(call, "revert", r - 1),
                  (IF ok THEN <<Event("closed", r, merges[r], "reverted")>> ELSE <<>>)
                    \o <<Event("compensated", r, 0, IF ok THEN "reverted" ELSE "failed")>>)

\* What an earlier call has recorded is not done again.
Skip ==
  /\ At("revert") /\ Recorded("compensated", call.at)
  /\ call' = Goto(call, "revert", call.at - 1)
  /\ UNCHANGED <<git, log>> /\ Keep

Revert ==
  /\ At("revert") /\ call.at > 0 /\ ~Recorded("compensated", call.at)
  /\ LET r == call.at IN
       /\ head[r] = "base" /\ Tip(local[r], Merged(r))
       /\ local' = [local EXCEPT ![r] = Append(@, Reverted(r))]
  /\ IF mode = "remote" THEN call' = [call EXCEPT !.pc = "repush"] ELSE RecordCompensated(TRUE)
  /\ UNCHANGED <<head, remote, merges, log>> /\ Keep

\* reconcileRevertPublication: the revert commit of an earlier call is there.
ReconcileRevert ==
  /\ At("revert") /\ call.at > 0 /\ ~Recorded("compensated", call.at)
  /\ LET r == call.at IN
       /\ head[r] = "base" /\ Tip(local[r], Reverted(r))
       /\ IF mode = "remote" /\ Tip(remote[r], Merged(r))
            THEN call' = [call EXCEPT !.pc = "repush"]
            ELSE RecordCompensated(mode = "remote" => Tip(remote[r], Reverted(r)))
  /\ UNCHANGED <<git, log>> /\ Keep

\* The push of the revert: lost, or landed and then seen or not.
Repush ==
  /\ At("repush")
  /\ LET r == call.at IN
       \/ /\ Tip(remote[r], Merged(r))
          /\ remote' = [remote EXCEPT ![r] = Append(@, Reverted(r))]
          /\ \E seen \in BOOLEAN: RecordCompensated(seen)
       \/ RecordCompensated(FALSE) /\ UNCHANGED remote
  /\ UNCHANGED <<local, head, merges, log>> /\ Keep

\* revert() throws or refuses.
RevertFails ==
  /\ At("revert") /\ call.at > 0 /\ ~Recorded("compensated", call.at)
  /\ RecordCompensated(FALSE)
  /\ UNCHANGED <<git, log>> /\ Keep

\* Mutant of Finish: the results of earlier calls are not consulted.
FinishForgets ==
  /\ At("revert") /\ call.at = 0
  /\ call' = Stage([call EXCEPT !.pc = "end"], <<Event("terminal", 0, 0, call.status)>>)
  /\ UNCHANGED <<git, log>> /\ Keep

\* The terminal record: one failed rollback makes the whole a failed one.
Finish ==
  /\ At("revert") /\ call.at = 0
  /\ LET failed == \E e \in Elements(log): e.ev = "compensated" /\ e.how = "failed"
         status == IF failed THEN "rollback-failed" ELSE call.status IN
       call' = Stage([call EXCEPT !.pc = "end", !.status = status],
                     <<Event("terminal", 0, 0, status)>>)
  /\ UNCHANGED <<git, log>> /\ Keep

End == At("end") /\ Return(call.status)

-----------------------------------------------------------------------------
(* Somebody else pushes to a remote. *)
Move(r) ==
  /\ mode = "remote" /\ moves < MaxMoves
  /\ moves' = moves + 1
  /\ remote' = [remote EXCEPT ![r] = Append(@, [kind |-> "other", n |-> 0])]
  /\ UNCHANGED <<mode, local, head, merges, log, call, result, calls>>

Init ==
  /\ mode \in Modes
  /\ local = [r \in Repo |-> <<>>] /\ remote = [r \in Repo |-> <<>>]
  /\ head = [r \in Repo |-> "candidate"] /\ merges = [r \in Repo |-> 0]
  /\ log = <<>> /\ call = NoCall /\ result = "none"
  /\ calls = 0 /\ moves = 0

Next ==
  \/ Apply \/ Load \/ StageEvent \/ Seal \/ Throw \/ Crash
  \/ Preflight \/ Survey \/ Confirm \/ Observe \/ Again
  \/ Checkout \/ GitMerge \/ MergeBreaks \/ Appraise \/ Push \/ Undo
  \/ \E how \in {"reverted", "uncertain", "rollback-failed"}: MergeFails(how)
  \/ Verify \/ Commit
  \/ Skip \/ Revert \/ ReconcileRevert \/ Repush \/ RevertFails \/ Finish \/ End
  \/ \E r \in Repo: Move(r)

Spec == Init /\ [][Next]_vars

-----------------------------------------------------------------------------
(* Properties. *)

\* The branch that others see has the change and not its reversal.
Carries(r) == Merged(r) \in Elements(Target(r)) /\ Reverted(r) \notin Elements(Target(r))

\* What the coordinator has claimed, in an answer or in a record.
Claims == {result} \cup {log[i].how: i \in Events("terminal")}
            \cup (IF Events("committed") = {} THEN {} ELSE {"committed"})

\* The seal of the commit receipt threw, with the receipt on the spine, and the
\* call went on to compensate what it could not seal.
Overtaken == /\ Events("committed") # {}
             /\ \E i \in Events("compensating"): log[i].how = "uncertain"

\* A change that is called committed is on the published branch of every
\* repository unless a compensation has overtaken the receipt, one called reverted
\* is on that of none, and one called refused on no remote, whichever call of apply
\* has crashed or thrown and wherever.  (Of an overtaken receipt a later call still
\* answers "committed", although the branches are being, or have been, reverted.)
EndIsTrue ==
  /\ "committed" \in Claims /\ ~Overtaken => \A r \in Repo: Carries(r)
  /\ "reverted" \in Claims => \A r \in Repo: ~Carries(r)
  /\ "refused" \in Claims /\ mode = "remote" => \A r \in Repo: ~Carries(r)

\* Once a transaction is recorded as terminal, or as committed and not overtaken by
\* the compensation of that receipt, no step of apply changes a branch.
FinalIsQuiet ==
  [][Events("terminal") # {} \/ (Events("committed") # {} /\ ~Overtaken) =>
       /\ UNCHANGED <<local, merges>>
       /\ \A r \in Repo: \A c \in Elements(remote'[r]):
            c.kind = "other" \/ c \in Elements(remote[r])]_vars

\* A merge that is on a remote is on record as an attempt of this transaction:
\* sealPreparedPublication has returned before the push.
PreparedFirst ==
  \A r \in Repo: mode = "remote" /\ Merged(r) \in Elements(remote[r]) =>
    {Event("bound", r, merges[r], ""), Event("attempt", r, merges[r], "")} \subseteq Elements(log)

\* Completed merges are reverted in reverse order, over all calls: the merge of
\* a repository is reverted only when every later one is accounted for.
ReverseOrder ==
  \A r, s \in Applied:
    r < s /\ Reverted(r) \in Elements(local[r]) => Recorded("compensated", s)

\* An effect-free refusal is one: "a sealed plan with no participant effect
\* terminalizes refusal", and a refused change is on no published branch.
RefusedIsEffectFree == "refused" \in Claims => \A r \in Repo: ~Carries(r)
=============================================================================
