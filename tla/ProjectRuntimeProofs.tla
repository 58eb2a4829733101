------------------------ MODULE ProjectRuntimeProofs ------------------------
(***************************************************************************)
(* First, what the rules of the job journal's fold promise for any jobs,   *)
(* runtimes and events: nothing is assumed of the writers, so the results  *)
(* hold for stale, repeated and reordered events alike.  Then that the     *)
(* runtimes are such writers, and what holds of their callbacks.           *)
(***************************************************************************)
EXTENDS ProjectRuntime, FiniteSetTheorems, FunctionTheorems, SequenceTheorems, TLAPS

-----------------------------------------------------------------------------
(* Types. *)

\* A journal record is its four fields.
LEMMA JournalFields ==
  ASSUME NEW s \in Journal
  PROVE  /\ s.rows \in [Jobs -> Row] /\ s.acts \in [Jobs -> Activity]
         /\ s.cancelled \in SUBSET Jobs /\ s.poisoned \in BOOLEAN
         /\ s = [rows |-> s.rows, acts |-> s.acts,
                 cancelled |-> s.cancelled, poisoned |-> s.poisoned]
BY DEF Journal

\* Setting one row keeps the journal well formed and touches nothing else.
LEMMA SetRowFields ==
  ASSUME NEW s \in Journal, NEW j \in Jobs, NEW r \in Row
  PROVE  /\ SetRow(s, j, r) \in Journal
         /\ SetRow(s, j, r).rows[j] = r
         /\ \A k \in Jobs \ {j}: SetRow(s, j, r).rows[k] = s.rows[k]
         /\ SetRow(s, j, r).acts = s.acts
         /\ SetRow(s, j, r).cancelled = s.cancelled
         /\ SetRow(s, j, r).poisoned = s.poisoned
BY DEF SetRow, Journal

\* A poisoned journal keeps what it had.
LEMMA PoisonFields ==
  ASSUME NEW s \in Journal
  PROVE  /\ Poison(s) \in Journal
         /\ Poison(s).rows = s.rows /\ Poison(s).acts = s.acts
         /\ Poison(s).cancelled = s.cancelled
BY DEF Poison, Journal

\* Event rows are rows.
LEMMA RecordIsRow == Record \subseteq Row
BY DEF Record, Row

\* The later of two times.
LEMMA LaterTime ==
  ASSUME NEW m \in Nat, NEW n \in Nat
  PROVE  Later(m, n) \in Nat /\ Later(m, n) >= m
BY DEF Later

\* A conflict keeps the owner and never moves the row back.
LEMMA ConflictRow ==
  ASSUME NEW a \in Row, NEW b \in Row
  PROVE  /\ Conflict(a, b) \in Row
         /\ Conflict(a, b).state = "reconciliation-required"
         /\ Conflict(a, b).owner = a.owner
         /\ Conflict(a, b).lease >= a.lease /\ Conflict(a, b).updated >= a.updated
<1> a.owner \in Proc \cup {Nobody} /\ a.updated \in Nat /\ a.lease \in Nat
    /\ b.updated \in Nat /\ b.lease \in Nat
  BY DEF Row
<1>1. Conflict(a, b) = [state |-> "reconciliation-required", owner |-> a.owner,
                        updated |-> Later(a.updated, b.updated), lease |-> Later(a.lease, b.lease)]
  BY DEF Conflict
<1>2. Later(a.updated, b.updated) \in Nat /\ Later(a.updated, b.updated) >= a.updated
  BY LaterTime
<1>3. Later(a.lease, b.lease) \in Nat /\ Later(a.lease, b.lease) >= a.lease
  BY LaterTime
<1> QED BY <1>1, <1>2, <1>3 DEF Row, Final

\* validateTransition accepts a change only from a live row of the same
\* owner to an allowed state, and never back in time.
LEMMA ChangesRow ==
  ASSUME NEW a \in Row, NEW b \in Row, a.state # "none", Changes(a, b)
  PROVE  /\ b.owner = a.owner /\ b.lease >= a.lease /\ b.updated >= a.updated
         /\ a.state \in Live
         /\ a.state = "running" => b.state \notin {"none", "queued"}
BY DEF Changes, Refused, Allowed, Row, Live, Final

-----------------------------------------------------------------------------
(* One event.  Step says everything the properties need of s becoming u.  *)

\* The claims of a journal agree with its rows, a job without a row has no
\* time or lease yet, and one with a row has an owner.
Claims(s) == \A j \in Jobs:
  /\ s.acts[j].state # "none" => /\ s.rows[j].state \notin {"none", "queued"}
                                 /\ s.rows[j].owner = s.acts[j].owner
  /\ s.rows[j].state = "none" => s.rows[j] = NoRow
  /\ s.rows[j].state # "none" => s.rows[j].owner \in Proc

\* What a step may do to one job.
JobStep(s, u, j) ==
  /\ s.rows[j].state \in Final => u.rows[j].state \in Final
  /\ u.rows[j].lease >= s.rows[j].lease
  /\ u.rows[j].updated >= s.rows[j].updated
  /\ j \in s.cancelled => (s.acts[j].state = "none" => u.acts[j].state = "none")

Step(s, u) == u \in Journal /\ Claims(u) /\ \A j \in Jobs: JobStep(s, u, j)

\* A step that keeps a job's row and activity is allowed.
LEMMA KeepJob ==
  ASSUME NEW s \in Journal, NEW u \in Journal, NEW j \in Jobs,
         u.rows[j] = s.rows[j], u.acts[j] = s.acts[j]
  PROVE  JobStep(s, u, j)
<1> s.rows[j] \in Row
  BY DEF Journal
<1> QED BY DEF JobStep, Row

\* A step that keeps all rows and activities is allowed.
LEMMA KeepAll ==
  ASSUME NEW s \in Journal, NEW u \in Journal, Claims(s), u.rows = s.rows, u.acts = s.acts
  PROVE  Step(s, u)
BY KeepJob DEF Step, Claims

\* So is one that sets a row, if the row is final whenever the old one was,
\* not earlier, and still fits a claim that was made.
LEMMA ReplaceRow ==
  ASSUME NEW s \in Journal, Claims(s), NEW j \in Jobs, NEW r \in Row,
         s.rows[j].state \in Final => r.state \in Final,
         r.state # "none", r.owner \in Proc, r.lease >= s.rows[j].lease, r.updated >= s.rows[j].updated,
         s.acts[j].state # "none" =>
           r.state # "queued" /\ r.owner = s.rows[j].owner
  PROVE  Step(s, SetRow(s, j, r))
<1> DEFINE u == SetRow(s, j, r)
<1>1. /\ u \in Journal /\ u.rows[j] = r /\ u.acts = s.acts /\ u.cancelled = s.cancelled
      /\ \A k \in Jobs \ {j}: u.rows[k] = s.rows[k]
  BY SetRowFields
<1> HIDE DEF u
<1>2. Claims(u)
  BY <1>1 DEF Claims
<1>3. \A k \in Jobs \ {j}: JobStep(s, u, k)
  BY <1>1, KeepJob
<1>4. JobStep(s, u, j)
  BY <1>1 DEF JobStep
<1>5. Step(s, u)
  BY <1>1, <1>2, <1>3, <1>4 DEF Step
<1> QED BY <1>5 DEF u

\* An intent sets a queued, a held or a changed row, or nothing.
LEMMA IntentStep ==
  ASSUME NEW s \in Journal, Claims(s), NEW e, e.job \in Jobs, e.row \in Record
  PROVE  Step(s, FoldIntent(s, e))
<1> DEFINE a == s.rows[e.job]
<1> DEFINE r == e.row
<1>0. a \in Row /\ r \in Row /\ r.state # "none" /\ r.owner \in Proc
      /\ (a.state # "none" => a.owner \in Proc)
  BY RecordIsRow DEF Journal, Record, Live, Final, Claims
<1>1. CASE a.state = "none" /\ r.state = "queued"
  <2>1. FoldIntent(s, e) = SetRow(s, e.job, r)
    BY <1>1 DEF FoldIntent
  <2>2. a.lease = 0 /\ a.updated = 0 /\ a.state \notin Final /\ s.acts[e.job].state = "none"
    BY <1>1 DEF Claims, NoRow, Final
  <2>3. r.lease >= 0 /\ r.updated >= 0
    BY <1>0 DEF Row
  <2> QED BY <1>0, <2>1, <2>2, <2>3, ReplaceRow
<1>2. CASE a.state # "none" /\ Refused(a, r)
  <2>1. FoldIntent(s, e) = SetRow(s, e.job, Conflict(a, r))
    BY <1>2 DEF FoldIntent, Changes
  <2>2. /\ Conflict(a, r) \in Row /\ Conflict(a, r).state = "reconciliation-required"
        /\ Conflict(a, r).owner = a.owner
        /\ Conflict(a, r).lease >= a.lease /\ Conflict(a, r).updated >= a.updated
    BY <1>0, ConflictRow
  <2>3. Conflict(a, r).state \in Final \ {"none", "queued"} /\ Conflict(a, r).owner \in Proc
    BY <1>0, <1>2, <2>2 DEF Final
  <2> QED BY <2>1, <2>2, <2>3, ReplaceRow
<1>3. CASE a.state # "none" /\ ~Refused(a, r) /\ Changes(a, r)
  <2>1. FoldIntent(s, e) = SetRow(s, e.job, r)
    BY <1>3 DEF FoldIntent
  <2>2. /\ r.owner = a.owner /\ r.lease >= a.lease /\ r.updated >= a.updated
        /\ a.state \in Live
        /\ a.state = "running" => r.state \notin {"none", "queued"}
    BY <1>0, <1>3, ChangesRow
  <2>3. a.state \notin Final
    BY <2>2 DEF Live, Final
  <2>4. s.acts[e.job].state # "none" => r.state # "queued"
    BY <2>2 DEF Claims, Live
  <2> QED BY <1>0, <2>1, <2>2, <2>3, <2>4, ReplaceRow
<1>4. CASE ~(a.state = "none" /\ r.state = "queued") /\ ~(a.state # "none" /\ Refused(a, r))
           /\ ~(a.state # "none" /\ Changes(a, r))
  <2>1. FoldIntent(s, e) = s
    BY <1>4 DEF FoldIntent
  <2> QED BY <2>1, KeepAll
<1> QED BY <1>1, <1>2, <1>3, <1>4

\* A takeover moves a row nobody has claimed, or poisons the journal.
LEMMA ReclaimedStep ==
  ASSUME NEW s \in Journal, Claims(s), NEW e, e.job \in Jobs, e.row \in Record
  PROVE  Step(s, FoldReclaimed(s, e))
<1> DEFINE a == s.rows[e.job]
<1> DEFINE r == e.row
<1>0. a \in Row /\ r \in Row /\ r.owner \in Proc
  BY RecordIsRow DEF Journal, Record
<1>1. CASE a = r
  <2>1. FoldReclaimed(s, e) = s
    BY <1>1 DEF FoldReclaimed
  <2> QED BY <2>1, KeepAll
<1>2. CASE a # r /\ Reclaimable(s, e.job, e.prior, r)
  <2> DEFINE b == [a EXCEPT !.owner = r.owner]
  <2>1. FoldReclaimed(s, e) = SetRow(s, e.job, r)
    BY <1>2 DEF FoldReclaimed
  <2>2. /\ a.state = "queued" /\ r.state = "queued" /\ s.acts[e.job].state = "none"
        /\ Changes(b, r)
    BY <1>2 DEF Reclaimable
  <2>3. b \in Row /\ b.state = a.state /\ b.lease = a.lease /\ b.updated = a.updated
    BY <1>0 DEF Row
  <2>4. r.lease >= a.lease /\ r.updated >= a.updated
    BY <1>0, <2>2, <2>3, ChangesRow
  <2>5. a.state \notin Final
    BY <2>2 DEF Final
  <2> QED BY <1>0, <2>1, <2>2, <2>4, <2>5, ReplaceRow
<1>3. CASE a # r /\ ~Reclaimable(s, e.job, e.prior, r)
  <2>1. FoldReclaimed(s, e) = Poison(s)
    BY <1>3 DEF FoldReclaimed
  <2> QED BY <2>1, PoisonFields, KeepAll
<1> QED BY <1>1, <1>2, <1>3

\* A dispatch claims a queued job that is not cancelled, repeats a claim, or
\* poisons the journal.
LEMMA DispatchStep ==
  ASSUME NEW s \in Journal, Claims(s), NEW e, e.job \in Jobs, e.row \in Record
  PROVE  Step(s, FoldDispatch(s, e))
<1> DEFINE a == s.rows[e.job]
<1> DEFINE r == e.row
<1> DEFINE act == [state |-> "running", owner |-> r.owner, at |-> r.updated]
<1> DEFINE known == /\ s.acts[e.job].state # "none"
                    /\ s.acts[e.job].owner = act.owner /\ s.acts[e.job].at = act.at
<1> DEFINE u == [s EXCEPT !.rows[e.job] = r, !.acts[e.job] = act]
<1>0. a \in Row /\ r \in Row /\ r.owner \in Proc /\ act \in Activity
  BY RecordIsRow DEF Journal, Record, Activity
<1>1. CASE r.state = "running" /\ known
  <2>1. FoldDispatch(s, e) = s
    BY <1>1 DEF FoldDispatch
  <2> QED BY <2>1, KeepAll
<1>2. CASE r.state = "running" /\ ~known /\ Claimable(s, e.job) /\ Changes(a, r)
  <2>1. FoldDispatch(s, e) = u
    BY <1>2 DEF FoldDispatch
  <2>2. a.state = "queued" /\ e.job \notin s.cancelled
    BY <1>2 DEF Claimable
  <2>3. r.lease >= a.lease /\ r.updated >= a.updated
    BY <1>0, <1>2, <2>2, ChangesRow
  <2>4. /\ u \in Journal /\ u.rows[e.job] = r /\ u.acts[e.job] = act
        /\ \A k \in Jobs \ {e.job}: u.rows[k] = s.rows[k] /\ u.acts[k] = s.acts[k]
    BY <1>0 DEF Journal
  <2> HIDE DEF u
  <2>5. \A k \in Jobs \ {e.job}: JobStep(s, u, k)
    BY <2>4, KeepJob
  <2>6. JobStep(s, u, e.job)
    BY <2>2, <2>3, <2>4 DEF JobStep, Final
  <2>7. Claims(u)
    BY <1>0, <1>2, <2>4 DEF Claims
  <2> QED BY <2>1, <2>4, <2>5, <2>6, <2>7 DEF Step
<1>3. CASE /\ ~(r.state = "running" /\ known)
           /\ ~(r.state = "running" /\ ~known /\ Claimable(s, e.job) /\ Changes(a, r))
  <2>1. FoldDispatch(s, e) = Poison(s)
    BY <1>3 DEF FoldDispatch
  <2> QED BY <2>1, PoisonFields, KeepAll
<1> QED BY <1>1, <1>2, <1>3

\* A settlement changes the activity's state only.
LEMMA SettledStep ==
  ASSUME NEW s \in Journal, Claims(s), NEW e, e.job \in Jobs, e.row \in Record
  PROVE  Step(s, FoldSettled(s, e))
<1> DEFINE act == s.acts[e.job]
<1> DEFINE ok == /\ s.rows[e.job].state # "none" /\ s.rows[e.job].owner = e.row.owner
                 /\ act.state # "none" /\ act.owner = e.row.owner /\ act.at = e.row.updated
<1> DEFINE u == [s EXCEPT !.acts[e.job].state = "settled"]
<1>1. CASE ok
  <2>1. FoldSettled(s, e) = u
    BY <1>1 DEF FoldSettled
  <2>2. act \in Activity /\ [act EXCEPT !.state = "settled"] \in Activity
    BY DEF Journal, Activity
  <2>3. /\ u \in Journal /\ u.rows = s.rows
        /\ u.acts[e.job].state = "settled" /\ u.acts[e.job].owner = act.owner
        /\ \A k \in Jobs \ {e.job}: u.acts[k] = s.acts[k]
    BY <2>2 DEF Journal, Activity
  <2> HIDE DEF u
  <2>4. \A k \in Jobs \ {e.job}: JobStep(s, u, k)
    BY <2>3, KeepJob
  <2>5. JobStep(s, u, e.job)
    <3>1. s.rows[e.job] \in Row
      BY DEF Journal
    <3> QED BY <1>1, <2>3, <3>1 DEF JobStep, Row
  <2>6. Claims(u)
    BY <1>1, <2>3 DEF Claims
  <2> QED BY <2>1, <2>3, <2>4, <2>5, <2>6 DEF Step
<1>2. CASE ~ok
  <2>1. FoldSettled(s, e) = Poison(s)
    BY <1>2 DEF FoldSettled
  <2> QED BY <2>1, PoisonFields, KeepAll
<1> QED BY <1>1, <1>2

\* A cancellation is only noted.
LEMMA CancelStep ==
  ASSUME NEW s \in Journal, Claims(s), NEW e, e.job \in Jobs
  PROVE  Step(s, FoldCancel(s, e))
<1> DEFINE u == [s EXCEPT !.cancelled = @ \cup {e.job}]
<1>1. u \in Journal /\ u.rows = s.rows /\ u.acts = s.acts
  BY DEF Journal
<1>2. Step(s, u) /\ Step(s, s)
  BY <1>1, KeepAll
<1> QED BY <1>2 DEF FoldCancel

\* A heartbeat moves times and leases of live rows forward.
LEMMA HeartbeatStep ==
  ASSUME NEW s \in Journal, Claims(s), NEW e, e.row \in Record
  PROVE  Step(s, FoldHeartbeat(s, e))
<1> DEFINE new(j) == IF Renewed(s.rows[j], e, j)
      THEN [s.rows[j] EXCEPT !.updated = e.row.updated, !.lease = e.row.lease]
      ELSE s.rows[j]
<1> DEFINE u == [s EXCEPT !.rows = [j \in Jobs |-> new(j)]]
<1>1. FoldHeartbeat(s, e) = u
  BY DEF FoldHeartbeat
<1>2. ASSUME NEW j \in Jobs
      PROVE  /\ s.rows[j] \in Row /\ new(j) \in Row
             /\ new(j).state = s.rows[j].state /\ new(j).owner = s.rows[j].owner
             /\ new(j).lease >= s.rows[j].lease /\ new(j).updated >= s.rows[j].updated
             /\ s.rows[j].state \notin Live => new(j) = s.rows[j]
  <2>1. s.rows[j] \in Row /\ e.row.updated \in Nat /\ e.row.lease \in Nat
    BY DEF Journal, Record
  <2>2. CASE Renewed(s.rows[j], e, j)
    <3>1. new(j) = [s.rows[j] EXCEPT !.updated = e.row.updated, !.lease = e.row.lease]
      BY <2>2
    <3> HIDE DEF new
    <3> QED BY <2>1, <2>2, <3>1 DEF Renewed, Row, Live
  <2>3. CASE ~Renewed(s.rows[j], e, j)
    <3>1. new(j) = s.rows[j]
      BY <2>3
    <3> HIDE DEF new
    <3> QED BY <2>1, <3>1 DEF Row
  <2> QED BY <2>2, <2>3
<1> HIDE DEF new
<1>3. [j \in Jobs |-> new(j)] \in [Jobs -> Row]
  BY <1>2
<1>4. u \in Journal /\ u.acts = s.acts /\ \A j \in Jobs: u.rows[j] = new(j)
  BY <1>3 DEF Journal
<1> HIDE DEF u
<1>5. ASSUME NEW j \in Jobs PROVE JobStep(s, u, j)
  <2>1. u.rows[j] = new(j) /\ u.acts[j] = s.acts[j]
    BY <1>4
  <2>2. new(j).lease >= s.rows[j].lease /\ new(j).updated >= s.rows[j].updated
        /\ new(j).state = s.rows[j].state /\ new(j).owner = s.rows[j].owner
    BY <1>2
  <2> QED BY <2>1, <2>2 DEF JobStep
<1>6. Claims(u)
  <2>1. ASSUME NEW j \in Jobs
        PROVE  /\ u.rows[j].state = s.rows[j].state /\ u.rows[j].owner = s.rows[j].owner
               /\ u.acts[j] = s.acts[j]
               /\ s.rows[j].state = "none" => u.rows[j] = s.rows[j]
    BY <1>2, <1>4 DEF Live
  <2> QED BY <2>1 DEF Claims
<1> QED BY <1>1, <1>4, <1>5, <1>6 DEF Step

\* So every event of the fold is such a step.
LEMMA FoldStep ==
  ASSUME NEW s \in Journal, Claims(s), NEW e \in Event
  PROVE  Step(s, Fold(s, e))
<1>0. s.poisoned => Step(s, s)
  BY KeepAll
<1>1. e.row \in Record /\ (e.kind # "heartbeat" => e.job \in Jobs)
  BY DEF Event
<1>2. e.kind \in {"intent", "reclaimed", "dispatch", "settled", "cancel", "heartbeat"}
  BY DEF Event
<1>3. CASE s.poisoned
  BY <1>0, <1>3 DEF Fold
<1>4. CASE ~s.poisoned
  <2>1. CASE e.kind = "intent"
    BY <1>1, <1>4, <2>1, IntentStep DEF Fold
  <2>2. CASE e.kind = "reclaimed"
    BY <1>1, <1>4, <2>2, ReclaimedStep DEF Fold
  <2>3. CASE e.kind = "dispatch"
    BY <1>1, <1>4, <2>3, DispatchStep DEF Fold
  <2>4. CASE e.kind = "settled"
    BY <1>1, <1>4, <2>4, SettledStep DEF Fold
  <2>5. CASE e.kind = "cancel"
    BY <1>1, <1>4, <2>5, CancelStep DEF Fold
  <2>6. CASE e.kind = "heartbeat"
    BY <1>1, <1>4, <2>6, HeartbeatStep DEF Fold
  <2> QED BY <1>2, <2>1, <2>2, <2>3, <2>4, <2>5, <2>6
<1> QED BY <1>3, <1>4

-----------------------------------------------------------------------------
(* The properties. *)

\* The inductive invariant.
JournalInv == journal \in Journal /\ Claims(journal)

\* A step of the journal keeps the invariant and is a Step.
LEMMA JournalStep ==
  ASSUME JournalInv, [JournalNext]_journal
  PROVE  JournalInv' /\ \A j \in Jobs: JobStep(journal, journal', j)
<1>1. CASE JournalNext
  <2>1. PICK e \in Event: journal' = Fold(journal, e)
    BY <1>1 DEF JournalNext
  <2>2. Step(journal, journal')
    BY <2>1, FoldStep DEF JournalInv
  <2> QED BY <2>2 DEF Step, JournalInv, Claims
<1>2. CASE UNCHANGED journal
  <2>1. Step(journal, journal')
    BY <1>2, KeepAll DEF JournalInv
  <2> QED BY <2>1 DEF Step, JournalInv, Claims
<1> QED BY <1>1, <1>2

\* The empty journal satisfies it.
LEMMA JournalStart == JournalInit => JournalInv
<1> SUFFICES ASSUME JournalInit PROVE JournalInv
  OBVIOUS
<1>1. NoRow \in Row /\ NoActivity \in Activity
  BY DEF NoRow, Row, NoActivity, Activity
<1>2. EmptyJournal \in Journal
  BY <1>1 DEF EmptyJournal, Journal
<1>3. Claims(EmptyJournal)
  BY DEF EmptyJournal, Claims, NoActivity, NoRow
<1> QED BY <1>2, <1>3 DEF JournalInit, JournalInv

\* The invariant holds for ever, whatever is staged.
THEOREM JournalInvariance == JournalSpec => []JournalInv
<1>1. JournalInv /\ [JournalNext]_journal => JournalInv'
  BY JournalStep
<1> QED BY <1>1, JournalStart, PTL DEF JournalSpec

\* The fold of any events is a well-formed journal.
THEOREM JournalTypeCorrect == JournalSpec => []JournalTypeOK
<1>1. JournalInv => JournalTypeOK
  BY DEF JournalInv, JournalTypeOK
<1> QED BY <1>1, JournalInvariance, PTL

\* Once a callback is on record its job never changes hands and is never
\* queued again: no event lets a second runtime claim it.
THEOREM ClaimsAreExclusive == JournalSpec => []ClaimIsExclusive
<1>1. JournalInv => ClaimIsExclusive
  BY DEF JournalInv, Claims, ClaimIsExclusive
<1> QED BY <1>1, JournalInvariance, PTL

\* No event reopens a finished job.
THEOREM FinalRowsStay == JournalSpec => FinalStays
<1>1. JournalInv /\ [JournalNext]_journal =>
        [\A j \in Jobs: journal.rows[j].state \in Final => journal'.rows[j].state \in Final]_journal
  BY JournalStep DEF JobStep
<1> QED BY <1>1, JournalInvariance, PTL DEF JournalSpec, FinalStays

\* No event shortens a lease or moves a row back in time.
THEOREM LeasesOnlyGrow == JournalSpec => LeaseNeverShortened
<1>1. JournalInv /\ [JournalNext]_journal =>
        [\A j \in Jobs: LeaseKept(j)]_journal
  BY JournalStep DEF JobStep, LeaseKept
<1> QED BY <1>1, JournalInvariance, PTL DEF JournalSpec, LeaseNeverShortened

\* No event dispatches a job whose cancellation came first.
THEOREM CancelledStayIdle == JournalSpec => CancelledNotDispatched
<1>1. JournalInv /\ [JournalNext]_journal =>
        [\A j \in journal.cancelled:
           journal.acts[j].state = "none" => journal'.acts[j].state = "none"]_journal
  <2> SUFFICES ASSUME JournalInv, [JournalNext]_journal, NEW j \in journal.cancelled,
                      journal.acts[j].state = "none"
               PROVE  journal'.acts[j].state = "none"
    OBVIOUS
  <2>1. j \in Jobs
    BY DEF JournalInv, Journal
  <2> QED BY <2>1, JournalStep DEF JobStep
<1> QED BY <1>1, JournalInvariance, PTL DEF JournalSpec, CancelledNotDispatched

-----------------------------------------------------------------------------
(* What one event does, in more detail. *)

Ended == {"completed", "failed"}

\* Activities begin with a dispatch on a job that has none and end with a
\* settlement by their owner.  Rows get an owner with the first intent, and
\* another with a takeover; only an intent ends a job.
Effect(s, u, e) ==
  /\ s.poisoned => u = s
  /\ s.cancelled \subseteq u.cancelled
  /\ e.kind \in {"intent", "heartbeat", "cancel", "reclaimed"} => u.acts = s.acts
  /\ e.kind \in {"intent", "heartbeat", "cancel"} => u.poisoned = s.poisoned
  /\ e.kind = "dispatch" /\ ~u.poisoned /\ s.acts[e.job].state = "none" =>
       u.acts[e.job].state = "running" /\ u.acts[e.job].owner = e.row.owner
  /\ \A j \in Jobs: u.acts[j] # s.acts[j] =>
       /\ e.kind \in {"dispatch", "settled"} /\ j = e.job
       /\ e.kind = "dispatch" => /\ s.acts[j].state = "none"
                                 /\ u.acts[j].state = "running" /\ u.acts[j].owner = e.row.owner
       /\ e.kind = "settled" => /\ s.acts[j].state # "none" /\ s.acts[j].owner = e.row.owner
                                /\ u.acts[j].state = "settled" /\ u.acts[j].owner = s.acts[j].owner
  /\ \A j \in Jobs: u.rows[j].owner # s.rows[j].owner =>
       /\ e.kind \in {"intent", "reclaimed"} /\ j = e.job /\ u.rows[j].owner = e.row.owner
       /\ e.kind = "intent" => s.rows[j].owner = Nobody
  /\ \A j \in Jobs: u.rows[j].state \in Ended =>
       \/ s.rows[j].state \in Ended /\ s.rows[j].owner = u.rows[j].owner
       \/ e.kind = "intent" /\ j = e.job /\ u.rows[j] = e.row
  /\ \A j \in Jobs: u.rows[j].state # "none" =>
       s.rows[j].state # "none" \/ (e.kind = "intent" /\ j = e.job)

\* Nothing, and poisoning.
LEMMA EffectNone ==
  ASSUME NEW s \in Journal, NEW u \in Journal, NEW e, ~s.poisoned,
         u.rows = s.rows, u.acts = s.acts, s.cancelled \subseteq u.cancelled,
         e.kind \in {"intent", "heartbeat", "cancel"} => u.poisoned = s.poisoned,
         e.kind = "dispatch" => u.poisoned \/ s.acts[e.job].state # "none"
  PROVE  Effect(s, u, e)
BY DEF Effect

\* One row.
LEMMA EffectRow ==
  ASSUME NEW s \in Journal, ~s.poisoned, NEW e, e.job \in Jobs, NEW r \in Row,
         e.kind \in {"intent", "reclaimed"},
         r.state # "none",
         r.owner # s.rows[e.job].owner =>
           r.owner = e.row.owner /\ (e.kind = "intent" => s.rows[e.job].owner = Nobody),
         r.state \in Ended => e.kind = "intent" /\ r = e.row,
         e.kind = "reclaimed" => s.rows[e.job].state # "none"
  PROVE  Effect(s, SetRow(s, e.job, r), e)
<1> DEFINE u == SetRow(s, e.job, r)
<1>1. /\ u \in Journal /\ u.rows[e.job] = r /\ u.acts = s.acts /\ u.cancelled = s.cancelled
      /\ u.poisoned = s.poisoned
      /\ \A k \in Jobs \ {e.job}: u.rows[k] = s.rows[k]
  BY SetRowFields
<1> HIDE DEF u
<1>2. Effect(s, u, e)
  BY <1>1 DEF Effect
<1> QED BY <1>2 DEF u

LEMMA IntentEffect ==
  ASSUME NEW s \in Journal, Claims(s), ~s.poisoned,
         NEW e, e.kind = "intent", e.job \in Jobs, e.row \in Record
  PROVE  Effect(s, FoldIntent(s, e), e)
<1> DEFINE a == s.rows[e.job]
<1> DEFINE r == e.row
<1>0. a \in Row /\ r \in Row /\ r.state # "none" /\ (a.state = "none" => a.owner = Nobody)
  BY RecordIsRow DEF Journal, Record, Live, Final, Claims, NoRow
<1>1. CASE a.state = "none" /\ r.state = "queued"
  <2>1. FoldIntent(s, e) = SetRow(s, e.job, r)
    BY <1>1 DEF FoldIntent
  <2>2. Effect(s, SetRow(s, e.job, r), e)
    BY <1>0, <1>1, EffectRow DEF Ended
  <2> QED BY <2>1, <2>2
<1>2. CASE a.state # "none" /\ Refused(a, r)
  <2>1. FoldIntent(s, e) = SetRow(s, e.job, Conflict(a, r))
    BY <1>2 DEF FoldIntent, Changes
  <2>2. PICK c \in Row: c = Conflict(a, r) /\ c.state = "reconciliation-required" /\ c.owner = a.owner
    BY <1>0, ConflictRow
  <2>3. Effect(s, SetRow(s, e.job, c), e)
    BY <2>2, EffectRow DEF Ended
  <2> QED BY <2>1, <2>2, <2>3
<1>3. CASE a.state # "none" /\ ~Refused(a, r) /\ Changes(a, r)
  <2>1. FoldIntent(s, e) = SetRow(s, e.job, r)
    BY <1>3 DEF FoldIntent
  <2>2. r.owner = a.owner
    BY <1>0, <1>3, ChangesRow
  <2>3. Effect(s, SetRow(s, e.job, r), e)
    BY <1>0, <2>2, EffectRow
  <2> QED BY <2>1, <2>3
<1>4. CASE ~(a.state = "none" /\ r.state = "queued") /\ ~(a.state # "none" /\ Refused(a, r))
           /\ ~(a.state # "none" /\ Changes(a, r))
  <2>1. FoldIntent(s, e) = s
    BY <1>4 DEF FoldIntent
  <2> QED BY <2>1, EffectNone
<1> QED BY <1>1, <1>2, <1>3, <1>4

LEMMA ReclaimedEffect ==
  ASSUME NEW s \in Journal, Claims(s), ~s.poisoned,
         NEW e, e.kind = "reclaimed", e.job \in Jobs, e.row \in Record
  PROVE  Effect(s, FoldReclaimed(s, e), e)
<1> DEFINE a == s.rows[e.job]
<1> DEFINE r == e.row
<1>0. a \in Row /\ r \in Row /\ r.state # "none"
  BY RecordIsRow DEF Journal, Record, Live, Final
<1>1. CASE a = r
  <2>1. FoldReclaimed(s, e) = s
    BY <1>1 DEF FoldReclaimed
  <2> QED BY <2>1, EffectNone
<1>2. CASE a # r /\ Reclaimable(s, e.job, e.prior, r)
  <2>1. FoldReclaimed(s, e) = SetRow(s, e.job, r)
    BY <1>2 DEF FoldReclaimed
  <2>2. a.state = "queued" /\ r.state = "queued"
    BY <1>2 DEF Reclaimable
  <2>3. Effect(s, SetRow(s, e.job, r), e)
    BY <1>0, <2>2, EffectRow DEF Ended
  <2> QED BY <2>1, <2>3
<1>3. CASE a # r /\ ~Reclaimable(s, e.job, e.prior, r)
  <2>1. FoldReclaimed(s, e) = Poison(s)
    BY <1>3 DEF FoldReclaimed
  <2> QED BY <2>1, PoisonFields, EffectNone
<1> QED BY <1>1, <1>2, <1>3

LEMMA DispatchEffect ==
  ASSUME NEW s \in Journal, Claims(s), ~s.poisoned,
         NEW e, e.kind = "dispatch", e.job \in Jobs, e.row \in Record
  PROVE  Effect(s, FoldDispatch(s, e), e)
<1> DEFINE a == s.rows[e.job]
<1> DEFINE r == e.row
<1> DEFINE act == [state |-> "running", owner |-> r.owner, at |-> r.updated]
<1> DEFINE known == /\ s.acts[e.job].state # "none"
                    /\ s.acts[e.job].owner = act.owner /\ s.acts[e.job].at = act.at
<1> DEFINE u == [s EXCEPT !.rows[e.job] = r, !.acts[e.job] = act]
<1>0. a \in Row /\ r \in Row /\ act \in Activity
  BY RecordIsRow DEF Journal, Record, Activity
<1>1. CASE r.state = "running" /\ known
  <2>1. FoldDispatch(s, e) = s
    BY <1>1 DEF FoldDispatch
  <2> QED BY <1>1, <2>1, EffectNone
<1>2. CASE r.state = "running" /\ ~known /\ Claimable(s, e.job) /\ Changes(a, r)
  <2>1. FoldDispatch(s, e) = u
    BY <1>2 DEF FoldDispatch
  <2>2. a.state = "queued" /\ s.acts[e.job].state = "none"
    BY <1>2 DEF Claimable, Claims
  <2>3. r.owner = a.owner
    BY <1>0, <1>2, <2>2, ChangesRow
  <2>4. /\ u \in Journal /\ u.rows[e.job] = r /\ u.acts[e.job] = act
        /\ u.cancelled = s.cancelled /\ u.poisoned = s.poisoned
        /\ \A k \in Jobs \ {e.job}: u.rows[k] = s.rows[k] /\ u.acts[k] = s.acts[k]
    BY <1>0 DEF Journal
  <2> HIDE DEF u
  <2>5. Effect(s, u, e)
    BY <1>2, <2>2, <2>3, <2>4 DEF Effect, Ended
  <2> QED BY <2>1, <2>5
<1>3. CASE /\ ~(r.state = "running" /\ known)
           /\ ~(r.state = "running" /\ ~known /\ Claimable(s, e.job) /\ Changes(a, r))
  <2>1. FoldDispatch(s, e) = Poison(s)
    BY <1>3 DEF FoldDispatch
  <2>2. Poison(s).poisoned
    BY DEF Poison, Journal
  <2> QED BY <2>1, <2>2, PoisonFields, EffectNone
<1> QED BY <1>1, <1>2, <1>3

LEMMA SettledEffect ==
  ASSUME NEW s \in Journal, Claims(s), ~s.poisoned,
         NEW e, e.kind = "settled", e.job \in Jobs, e.row \in Record
  PROVE  Effect(s, FoldSettled(s, e), e)
<1> DEFINE act == s.acts[e.job]
<1> DEFINE ok == /\ s.rows[e.job].state # "none" /\ s.rows[e.job].owner = e.row.owner
                 /\ act.state # "none" /\ act.owner = e.row.owner /\ act.at = e.row.updated
<1> DEFINE u == [s EXCEPT !.acts[e.job].state = "settled"]
<1>1. CASE ok
  <2>1. FoldSettled(s, e) = u
    BY <1>1 DEF FoldSettled
  <2>2. act \in Activity /\ [act EXCEPT !.state = "settled"] \in Activity
    BY DEF Journal, Activity
  <2>3. /\ u \in Journal /\ u.rows = s.rows /\ u.cancelled = s.cancelled
        /\ u.acts[e.job].state = "settled" /\ u.acts[e.job].owner = act.owner
        /\ \A k \in Jobs \ {e.job}: u.acts[k] = s.acts[k]
    BY <2>2 DEF Journal, Activity
  <2> HIDE DEF u
  <2>5. Effect(s, u, e)
    BY <1>1, <2>3 DEF Effect
  <2> QED BY <2>1, <2>5
<1>2. CASE ~ok
  <2>1. FoldSettled(s, e) = Poison(s)
    BY <1>2 DEF FoldSettled
  <2> QED BY <2>1, PoisonFields, EffectNone
<1> QED BY <1>1, <1>2

LEMMA CancelEffect ==
  ASSUME NEW s \in Journal, ~s.poisoned, NEW e, e.kind = "cancel", e.job \in Jobs
  PROVE  Effect(s, FoldCancel(s, e), e)
<1> DEFINE u == [s EXCEPT !.cancelled = @ \cup {e.job}]
<1>1. u \in Journal /\ u.rows = s.rows /\ u.acts = s.acts /\ u.poisoned = s.poisoned
      /\ s.cancelled \subseteq u.cancelled
  BY DEF Journal
<1>2. Effect(s, u, e) /\ Effect(s, s, e)
  BY <1>1, EffectNone
<1> QED BY <1>2 DEF FoldCancel

LEMMA HeartbeatEffect ==
  ASSUME NEW s \in Journal, ~s.poisoned, NEW e, e.kind = "heartbeat", e.row \in Record
  PROVE  Effect(s, FoldHeartbeat(s, e), e)
<1> DEFINE new(j) == IF Renewed(s.rows[j], e, j)
      THEN [s.rows[j] EXCEPT !.updated = e.row.updated, !.lease = e.row.lease]
      ELSE s.rows[j]
<1> DEFINE u == [s EXCEPT !.rows = [j \in Jobs |-> new(j)]]
<1>1. FoldHeartbeat(s, e) = u
  BY DEF FoldHeartbeat
<1>2. ASSUME NEW j \in Jobs
      PROVE  new(j).state = s.rows[j].state /\ new(j).owner = s.rows[j].owner
  <2>1. s.rows[j] \in Row
    BY DEF Journal
  <2> QED BY <2>1 DEF Row
<1> HIDE DEF new
<1>3. /\ u.acts = s.acts /\ u.cancelled = s.cancelled /\ u.poisoned = s.poisoned
      /\ \A j \in Jobs: u.rows[j] = new(j)
  BY DEF Journal
<1> HIDE DEF u
<1>4. \A j \in Jobs: u.rows[j].state = s.rows[j].state /\ u.rows[j].owner = s.rows[j].owner
  BY <1>2, <1>3
<1>5. Effect(s, u, e)
  BY <1>3, <1>4 DEF Effect
<1> QED BY <1>1, <1>5

\* Every event of the fold has these effects.
LEMMA FoldEffect ==
  ASSUME NEW s \in Journal, Claims(s), NEW e \in Event
  PROVE  Effect(s, Fold(s, e), e)
<1>1. e.row \in Record /\ (e.kind # "heartbeat" => e.job \in Jobs)
  BY DEF Event
<1>2. e.kind \in {"intent", "reclaimed", "dispatch", "settled", "cancel", "heartbeat"}
  BY DEF Event
<1>3. CASE s.poisoned
  <2>1. Fold(s, e) = s
    BY <1>3 DEF Fold
  <2> QED BY <1>3, <2>1 DEF Effect
<1>4. CASE ~s.poisoned
  <2>1. CASE e.kind = "intent"
    BY <1>1, <1>4, <2>1, IntentEffect DEF Fold
  <2>2. CASE e.kind = "reclaimed"
    BY <1>1, <1>4, <2>2, ReclaimedEffect DEF Fold
  <2>3. CASE e.kind = "dispatch"
    BY <1>1, <1>4, <2>3, DispatchEffect DEF Fold
  <2>4. CASE e.kind = "settled"
    BY <1>1, <1>4, <2>4, SettledEffect DEF Fold
  <2>5. CASE e.kind = "cancel"
    BY <1>1, <1>4, <2>5, CancelEffect DEF Fold
  <2>6. CASE e.kind = "heartbeat"
    BY <1>1, <1>4, <2>6, HeartbeatEffect DEF Fold
  <2> QED BY <1>2, <2>1, <2>2, <2>3, <2>4, <2>5, <2>6
<1> QED BY <1>3, <1>4

-----------------------------------------------------------------------------
(* Folds over the jobs. *)

\* What iter computes.
Computes(h, S, base, f) ==
  h = [s \in SUBSET S |-> IF s = {} THEN base
        ELSE f[<<CHOOSE x \in s: TRUE, h[s \ {CHOOSE x \in s: TRUE}]>>]]

LEMMA FoldExists ==
  ASSUME NEW S, IsFiniteSet(S), NEW T, NEW base \in T, NEW f \in [S \X T -> T]
  PROVE  \E h \in [SUBSET S -> T]: Computes(h, S, base, f)
<1> DEFINE c(s) == CHOOSE x \in s: TRUE
<1> DEFINE Up(n) == {s \in SUBSET S: Cardinality(s) <= n}
<1> DEFINE Good(n, h) == \A s \in Up(n): h[s] = IF s = {} THEN base ELSE f[<<c(s), h[s \ {c(s)}]>>]
<1> DEFINE Bad == {n \in Nat: ~\E h \in [SUBSET S -> T]: Good(n, h)}
<1>0. \A s \in SUBSET S: IsFiniteSet(s) /\ Cardinality(s) \in Nat
  BY FS_Subset, FS_CardinalityType
<1>1. \A s \in SUBSET S: s # {} => c(s) \in s /\ s \ {c(s)} \in SUBSET S
        /\ Cardinality(s \ {c(s)}) = Cardinality(s) - 1
  <2> SUFFICES ASSUME NEW s \in SUBSET S, s # {}
               PROVE  c(s) \in s /\ s \ {c(s)} \in SUBSET S /\ Cardinality(s \ {c(s)}) = Cardinality(s) - 1
    OBVIOUS
  <2>1. c(s) \in s
    OBVIOUS
  <2> HIDE DEF c
  <2> QED BY <1>0, <2>1, FS_RemoveElement
<1> HIDE DEF c
<1>2. Bad = {}
  <2> SUFFICES ASSUME Bad # {} PROVE FALSE
    OBVIOUS
  <2>1. PICK n \in Bad: \A m \in Bad: ~(<<m, n>> \in OpToRel(<, Nat))
    <3> HIDE DEF Bad
    <3>1. Bad \subseteq Nat
      BY DEF Bad
    <3> QED BY <3>1, NatLessThanWellFounded, WFMin
  <2>2. n \in Nat /\ \A m \in Nat: m < n => m \notin Bad
    BY <2>1 DEF OpToRel
  <2>3. CASE n = 0
    <3> DEFINE h == [s \in SUBSET S |-> base]
    <3>1. Up(0) = {{}}
      BY <1>0, FS_EmptySet
    <3>2. Good(0, h)
      BY <3>1
    <3> QED BY <2>1, <2>3, <3>2
  <2>4. CASE n > 0
    <3>1. n - 1 \in Nat /\ n - 1 \notin Bad
      <4> HIDE DEF Bad
      <4> QED BY <2>2, <2>4
    <3>2. PICK g \in [SUBSET S -> T]: Good(n - 1, g)
      BY <3>1
    <3> DEFINE h == [s \in SUBSET S |-> IF s = {} THEN base ELSE f[<<c(s), g[s \ {c(s)}]>>]]
    <3>3. h \in [SUBSET S -> T]
      BY <1>1
    <3>4. \A s \in Up(n - 1): h[s] = g[s]
      BY <3>2
    <3>5. \A s \in Up(n): s # {} => s \ {c(s)} \in Up(n - 1)
      <4> SUFFICES ASSUME NEW s \in Up(n), s # {} PROVE s \ {c(s)} \in Up(n - 1)
        OBVIOUS
      <4>1. /\ s \in SUBSET S /\ Cardinality(s) <= n /\ Cardinality(s) \in Nat
            /\ s \ {c(s)} \in SUBSET S /\ Cardinality(s \ {c(s)}) = Cardinality(s) - 1
        BY <1>0, <1>1
      <4>2. Cardinality(s) - 1 <= n - 1
        BY <2>2, <4>1
      <4> QED BY <4>1, <4>2
    <3>6. Good(n, h)
      <4> SUFFICES ASSUME NEW s \in Up(n)
                   PROVE  h[s] = IF s = {} THEN base ELSE f[<<c(s), h[s \ {c(s)}]>>]
        OBVIOUS
      <4>1. CASE s = {}
        BY <4>1
      <4>2. CASE s # {}
        <5>1. s \ {c(s)} \in Up(n - 1)
          BY <3>5, <4>2
        <5>2. h[s \ {c(s)}] = g[s \ {c(s)}]
          BY <3>4, <5>1
        <5>3. h[s] = f[<<c(s), g[s \ {c(s)}]>>]
          BY <4>2
        <5> QED BY <4>2, <5>2, <5>3
      <4> QED BY <4>1, <4>2
    <3> QED BY <2>1, <3>3, <3>6
  <2> QED BY <2>2, <2>3, <2>4
<1> DEFINE N == Cardinality(S)
<1>3. N \in Nat /\ Up(N) = SUBSET S
  BY <1>0, FS_Subset, FS_CardinalityType
<1>4. PICK h \in [SUBSET S -> T]: Good(N, h)
  BY <1>2, <1>3
<1>5. \A s \in SUBSET S: h[s] = IF s = {} THEN base ELSE f[<<c(s), h[s \ {c(s)}]>>]
  BY <1>3, <1>4
<1>6. Computes(h, S, base, f)
  BY <1>5 DEF Computes, c
<1> QED BY <1>6

\* A property that one element establishes and none destroys holds at the end.
LEMMA FoldDone ==
  ASSUME NEW S, IsFiniteSet(S), NEW T, NEW base \in T, NEW f \in [S \X T -> T],
         NEW h \in [SUBSET S -> T], Computes(h, S, base, f),
         NEW D \in SUBSET T, NEW k \in S,
         \A u \in T: f[<<k, u>>] \in D,
         \A u \in D, j \in S: f[<<j, u>>] \in D
  PROVE  h[S] \in D
<1> DEFINE c(s) == CHOOSE x \in s: TRUE
<1> DEFINE Bad == {s \in SUBSET S: k \in s /\ h[s] \notin D}
<1> SUFFICES ASSUME h[S] \notin D PROVE FALSE
  OBVIOUS
<1>1. Bad # {} /\ Bad \in SUBSET FiniteSubsetsOf(S)
  BY FS_FiniteSubsetsOfFinite
<1>2. PICK s \in Bad: \A r \in Bad: <<r, s>> \notin StrictSubsetOrdering(S)
  <2> HIDE DEF Bad
  <2> QED BY <1>1, FS_StrictSubsetOrderingWellFounded, WFMin
<1>3. s \in SUBSET S /\ k \in s /\ h[s] \notin D
  OBVIOUS
<1>4. c(s) \in s
  BY <1>3
<1>5. h[s] = f[<<c(s), h[s \ {c(s)}]>>]
  BY <1>3 DEF Computes
<1> HIDE DEF c
<1>6. CASE c(s) = k
  BY <1>3, <1>5, <1>6
<1>7. CASE c(s) # k
  <2> DEFINE r == s \ {c(s)}
  <2>1. r \in SUBSET S /\ k \in r /\ <<r, s>> \in StrictSubsetOrdering(S)
    BY <1>3, <1>4, <1>7 DEF StrictSubsetOrdering
  <2>2. h[r] \in D
    BY <1>2, <2>1
  <2> QED BY <1>3, <1>4, <1>5, <2>2
<1> QED BY <1>6, <1>7

\* The fold of refreshJournal over a set of turns that it does not leave.
LEMMA ObserveFold ==
  ASSUME NEW T, NEW t \in T, NEW f \in [Jobs \X T -> T],
         \A u \in T, j \in Jobs: f[<<j, u>>] = Observe(u, j)
  PROVE  \E h \in [SUBSET Jobs -> T]:
           Computes(h, Jobs, t, f) /\ h[Jobs] = ObserveAll(t)
<1> DEFINE c(s) == CHOOSE x \in s: TRUE
<1> DEFINE Rec(h) == h = [s \in SUBSET Jobs |-> IF s = {} THEN t ELSE Observe(h[s \ {c(s)}], c(s))]
<1> DEFINE iter == CHOOSE h: Rec(h)
<1>1. ObserveAll(t) = iter[Jobs]
  BY DEF ObserveAll, FoldSet, MapThenFoldSet
<1>2. PICK h \in [SUBSET Jobs -> T]: Computes(h, Jobs, t, f)
  BY FoldExists, JobsAssumption
<1>3. \A s \in SUBSET Jobs: s # {} => c(s) \in s
  OBVIOUS
<1>4. h = [s \in SUBSET Jobs |-> IF s = {} THEN t ELSE f[<<c(s), h[s \ {c(s)}]>>]]
  BY <1>2 DEF Computes
<1> HIDE DEF c
<1>5. Rec(h)
  <2>1. \A s \in SUBSET Jobs: h[s] = IF s = {} THEN t ELSE Observe(h[s \ {c(s)}], c(s))
    BY <1>3, <1>4
  <2> QED BY <2>1
<1> HIDE DEF Rec
<1>6. Rec(iter)
  BY <1>5
<1> HIDE DEF iter
<1>7. \A s \in SUBSET Jobs: iter[s] = IF s = {} THEN t ELSE Observe(iter[s \ {c(s)}], c(s))
  BY <1>6 DEF Rec
<1>8. \A s \in SUBSET Jobs: h[s] = IF s = {} THEN t ELSE Observe(h[s \ {c(s)}], c(s))
  BY <1>5 DEF Rec
<1> DEFINE Bad == {s \in SUBSET Jobs: iter[s] # h[s]}
<1>9. Bad = {}
  <2> SUFFICES ASSUME Bad # {} PROVE FALSE
    OBVIOUS
  <2>1. Bad \in SUBSET FiniteSubsetsOf(Jobs)
    BY FS_FiniteSubsetsOfFinite, JobsAssumption
  <2>2. PICK s \in Bad: \A r \in Bad: <<r, s>> \notin StrictSubsetOrdering(Jobs)
    <3> HIDE DEF Bad
    <3> QED BY <2>1, FS_StrictSubsetOrderingWellFounded, WFMin
  <2>3. CASE s = {}
    BY <1>7, <1>8, <2>3
  <2>4. CASE s # {}
    <3>1. s \ {c(s)} \in SUBSET Jobs /\ <<s \ {c(s)}, s>> \in StrictSubsetOrdering(Jobs)
      BY <1>3, <2>4 DEF StrictSubsetOrdering
    <3>2. iter[s \ {c(s)}] = h[s \ {c(s)}]
      BY <2>2, <3>1
    <3> QED BY <1>7, <1>8, <2>4, <3>2
  <2> QED BY <2>3, <2>4
<1>10. iter[Jobs] = h[Jobs]
  BY <1>9
<1> QED BY <1>1, <1>2, <1>10

\* The fold of drain over a set of turns that it does not leave.
LEMMA AdmitFold ==
  ASSUME NEW T, NEW t \in T, NEW f \in [Jobs \X T -> T],
         \A u \in T, j \in Jobs: f[<<j, u>>] = Admit(u, j)
  PROVE  \E h \in [SUBSET Jobs -> T]:
           Computes(h, Jobs, t, f) /\ h[Jobs] = AdmitAll(t)
<1> DEFINE c(s) == CHOOSE x \in s: TRUE
<1> DEFINE Rec(h) == h = [s \in SUBSET Jobs |-> IF s = {} THEN t ELSE Admit(h[s \ {c(s)}], c(s))]
<1> DEFINE iter == CHOOSE h: Rec(h)
<1>1. AdmitAll(t) = iter[Jobs]
  BY DEF AdmitAll, FoldSet, MapThenFoldSet
<1>2. PICK h \in [SUBSET Jobs -> T]: Computes(h, Jobs, t, f)
  BY FoldExists, JobsAssumption
<1>3. \A s \in SUBSET Jobs: s # {} => c(s) \in s
  OBVIOUS
<1>4. h = [s \in SUBSET Jobs |-> IF s = {} THEN t ELSE f[<<c(s), h[s \ {c(s)}]>>]]
  BY <1>2 DEF Computes
<1> HIDE DEF c
<1>5. Rec(h)
  <2>1. \A s \in SUBSET Jobs: h[s] = IF s = {} THEN t ELSE Admit(h[s \ {c(s)}], c(s))
    BY <1>3, <1>4
  <2> QED BY <2>1
<1> HIDE DEF Rec
<1>6. Rec(iter)
  BY <1>5
<1> HIDE DEF iter
<1>7. \A s \in SUBSET Jobs: iter[s] = IF s = {} THEN t ELSE Admit(iter[s \ {c(s)}], c(s))
  BY <1>6 DEF Rec
<1>8. \A s \in SUBSET Jobs: h[s] = IF s = {} THEN t ELSE Admit(h[s \ {c(s)}], c(s))
  BY <1>5 DEF Rec
<1> DEFINE Bad == {s \in SUBSET Jobs: iter[s] # h[s]}
<1>9. Bad = {}
  <2> SUFFICES ASSUME Bad # {} PROVE FALSE
    OBVIOUS
  <2>1. Bad \in SUBSET FiniteSubsetsOf(Jobs)
    BY FS_FiniteSubsetsOfFinite, JobsAssumption
  <2>2. PICK s \in Bad: \A r \in Bad: <<r, s>> \notin StrictSubsetOrdering(Jobs)
    <3> HIDE DEF Bad
    <3> QED BY <2>1, FS_StrictSubsetOrderingWellFounded, WFMin
  <2>3. CASE s = {}
    BY <1>7, <1>8, <2>3
  <2>4. CASE s # {}
    <3>1. s \ {c(s)} \in SUBSET Jobs /\ <<s \ {c(s)}, s>> \in StrictSubsetOrdering(Jobs)
      BY <1>3, <2>4 DEF StrictSubsetOrdering
    <3>2. iter[s \ {c(s)}] = h[s \ {c(s)}]
      BY <2>2, <3>1
    <3> QED BY <1>7, <1>8, <2>4, <3>2
  <2> QED BY <2>3, <2>4
<1>10. iter[Jobs] = h[Jobs]
  BY <1>9
<1> QED BY <1>1, <1>2, <1>10

\* The fold of the constructor over a set of turns that it does not leave.
LEMMA BootFold ==
  ASSUME NEW T, NEW t \in T, NEW f \in [Jobs \X T -> T],
         \A u \in T, j \in Jobs: f[<<j, u>>] = BootRow(u, j)
  PROVE  \E h \in [SUBSET Jobs -> T]:
           Computes(h, Jobs, t, f) /\ h[Jobs] = BootRows(t)
<1> DEFINE c(s) == CHOOSE x \in s: TRUE
<1> DEFINE Rec(h) == h = [s \in SUBSET Jobs |-> IF s = {} THEN t ELSE BootRow(h[s \ {c(s)}], c(s))]
<1> DEFINE iter == CHOOSE h: Rec(h)
<1>1. BootRows(t) = iter[Jobs]
  BY DEF BootRows, FoldSet, MapThenFoldSet
<1>2. PICK h \in [SUBSET Jobs -> T]: Computes(h, Jobs, t, f)
  BY FoldExists, JobsAssumption
<1>3. \A s \in SUBSET Jobs: s # {} => c(s) \in s
  OBVIOUS
<1>4. h = [s \in SUBSET Jobs |-> IF s = {} THEN t ELSE f[<<c(s), h[s \ {c(s)}]>>]]
  BY <1>2 DEF Computes
<1> HIDE DEF c
<1>5. Rec(h)
  <2>1. \A s \in SUBSET Jobs: h[s] = IF s = {} THEN t ELSE BootRow(h[s \ {c(s)}], c(s))
    BY <1>3, <1>4
  <2> QED BY <2>1
<1> HIDE DEF Rec
<1>6. Rec(iter)
  BY <1>5
<1> HIDE DEF iter
<1>7. \A s \in SUBSET Jobs: iter[s] = IF s = {} THEN t ELSE BootRow(iter[s \ {c(s)}], c(s))
  BY <1>6 DEF Rec
<1>8. \A s \in SUBSET Jobs: h[s] = IF s = {} THEN t ELSE BootRow(h[s \ {c(s)}], c(s))
  BY <1>5 DEF Rec
<1> DEFINE Bad == {s \in SUBSET Jobs: iter[s] # h[s]}
<1>9. Bad = {}
  <2> SUFFICES ASSUME Bad # {} PROVE FALSE
    OBVIOUS
  <2>1. Bad \in SUBSET FiniteSubsetsOf(Jobs)
    BY FS_FiniteSubsetsOfFinite, JobsAssumption
  <2>2. PICK s \in Bad: \A r \in Bad: <<r, s>> \notin StrictSubsetOrdering(Jobs)
    <3> HIDE DEF Bad
    <3> QED BY <2>1, FS_StrictSubsetOrderingWellFounded, WFMin
  <2>3. CASE s = {}
    BY <1>7, <1>8, <2>3
  <2>4. CASE s # {}
    <3>1. s \ {c(s)} \in SUBSET Jobs /\ <<s \ {c(s)}, s>> \in StrictSubsetOrdering(Jobs)
      BY <1>3, <2>4 DEF StrictSubsetOrdering
    <3>2. iter[s \ {c(s)}] = h[s \ {c(s)}]
      BY <2>2, <3>1
    <3> QED BY <1>7, <1>8, <2>4, <3>2
  <2> QED BY <2>3, <2>4
<1>10. iter[Jobs] = h[Jobs]
  BY <1>9
<1> QED BY <1>1, <1>2, <1>10

-----------------------------------------------------------------------------
(* The invariant. *)

Past == {"admitted", "run", "settle", "finish"}
Stored == Record \cup {NoRow}

\* Callbacks on record that have not settled.
Running(s) == {k \in Jobs: s.acts[k].state = "running"}

\* Where the owner of the journal's row is owner: what a runtime says of a job
\* it has scheduled.  A job that waits for the lock may have been taken over.
Placed(p, place, row, owner) ==
  /\ place \in Scheduled \ {"admit"} => row.state # "none" /\ row.owner = p
  /\ place = "admit" => \/ row.state # "none" /\ row.owner = p
                        \/ owner \notin {p, Nobody}

\* A runtime is through with the jobs it has ended.
Through(p, row, place) ==
  row.state \in Ended /\ row.owner = p => place \in {"none", "reclaim"}

\* A dispatch that is decided is on record, and not settled before "settle".
OnRecord(p, act, place) ==
  /\ act.state # "none" /\ act.owner = p
  /\ place # "finish" => act.state = "running"

Pending(p, j) ==
  \E i \in DOMAIN outbox[p]: outbox[p][i].kind = "dispatch" /\ outbox[p][i].job = j

Types ==
  /\ JournalInv
  /\ clock \in 0..MaxTime /\ lock \in Proc \cup {Nobody}
  /\ status \in [Proc -> {"off", "up", "dead"}] /\ timer \in [Proc -> BOOLEAN]
  /\ local \in [Proc -> [Jobs -> Stored]] /\ sched \in [Proc -> [Jobs -> Places]]
  /\ arg \in [Proc -> [Jobs -> Nat]]
  /\ aborted \in [Proc -> SUBSET Jobs] /\ failed \in [Proc -> SUBSET Jobs]
  /\ outbox \in [Proc -> Seq(Event)]
  /\ used \in SUBSET Jobs /\ starts \in [Jobs -> Nat]

\* A runtime, its rows and the journal.
Stands(p, j) ==
  /\ Placed(p, sched[p][j], local[p][j], journal.rows[j].owner)
  /\ Through(p, journal.rows[j], sched[p][j])
  /\ sched[p][j] = "run" => OnRecord(p, journal.acts[j], "run")
  /\ ~journal.poisoned /\ sched[p][j] \in Past /\ ~Pending(p, j) =>
       OnRecord(p, journal.acts[j], sched[p][j])

Standing == \A p \in Proc, j \in Jobs: Stands(p, j)

\* An event that is decided but not staged: what it was decided on still holds.
Outgoing(p, e) ==
  /\ e.kind = "intent" =>
       /\ e.job \in used
       /\ e.row.state \in Ended => e.row.owner = p /\ sched[p][e.job] \in {"none", "reclaim"}
  /\ e.kind = "reclaimed" => sched[p][e.job] = "claimed" /\ e.row.owner = p
                             /\ e.row.state = "queued"
  /\ e.kind = "settled" => sched[p][e.job] = "finish" /\ e.row.owner = p
  /\ e.kind = "dispatch" =>
       /\ lock = p /\ Len(outbox[p]) = 1
       /\ sched[p][e.job] = "admitted" /\ e.row.owner = p
       /\ ~journal.poisoned =>
            /\ journal.acts[e.job].state = "none"
            /\ \A k \in Running(journal): ~Clash(e.job, k)
            /\ Cardinality(Running(journal)) + 1 <= Ceiling

MailOf(p) ==
  /\ \A i \in DOMAIN outbox[p]: Outgoing(p, outbox[p][i])
  /\ lock = p => outbox[p] # <<>>
  /\ status[p] = "off" => outbox[p] = <<>> /\ \A j \in Jobs: sched[p][j] = "none"

Mail == \A p \in Proc: MailOf(p)

\* A callback that was invoked is on record.
Started == \A j \in Jobs:
  /\ journal.rows[j].state # "none" => j \in used
  /\ starts[j] <= 1
  /\ starts[j] = 1 => journal.acts[j].state # "none"
  /\ ~journal.poisoned => \A p \in Proc: sched[p][j] = "admitted" => starts[j] = 0

\* Callbacks on record leave each other room.
Room ==
  /\ Cardinality(Running(journal)) <= Ceiling
  /\ \A j, k \in Running(journal): j # k => ~Clash(j, k)

Inv == Types /\ Standing /\ Mail /\ Started /\ Room

\* A callback about to be invoked is the one its runtime has in "run".
Starting ==
  /\ starting \in [Proc -> SUBSET Jobs]
  /\ \A p \in Proc, j \in Jobs:
       j \in starting[p] => status[p] = "up" /\ sched[p][j] = "run" /\ starts[j] = 0

-----------------------------------------------------------------------------
(* Turns.  What holds of a runtime between turns holds at every point of   *)
(* one, for the journal as the turn sees it and as it is.                  *)

Turns == [s: Journal, l: [Jobs -> Stored], sc: [Jobs -> Places], at: [Jobs -> Nat],
          ab: SUBSET Jobs, out: Seq(Event), thrown: BOOLEAN]

Sound(p, j, s, row, place) ==
  /\ Placed(p, place, row, journal.rows[j].owner)
  /\ Through(p, journal.rows[j], place) /\ Through(p, s.rows[j], place)
  /\ place = "run" => OnRecord(p, journal.acts[j], "run")
  /\ ~journal.poisoned /\ place \in Past => OnRecord(p, journal.acts[j], place)
  /\ ~journal.poisoned /\ place = "admitted" => starts[j] = 0
  /\ s.rows[j].owner = journal.rows[j].owner
  /\ s.rows[j].state # "none" => j \in used

Announced(p, e, sc) ==
  /\ e.kind \in {"intent", "heartbeat", "cancel"}
  /\ e.kind = "intent" =>
       /\ e.job \in used
       /\ e.row.state \in Ended => e.row.owner = p /\ sc[e.job] \in {"none", "reclaim"}

TurnOK(p, t) ==
  /\ t \in Turns /\ Claims(t.s)
  /\ t.s.acts = journal.acts /\ t.s.poisoned = journal.poisoned
  /\ journal.cancelled \subseteq t.s.cancelled
  /\ \A j \in Jobs: Sound(p, j, t.s, t.l[j], t.sc[j])
  /\ \A i \in DOMAIN t.out: Announced(p, t.out[i], t.sc)

\* Fields of a turn.
LEMMA TurnFields ==
  ASSUME NEW t \in Turns
  PROVE  /\ t.s \in Journal /\ t.l \in [Jobs -> Stored] /\ t.sc \in [Jobs -> Places]
         /\ t.at \in [Jobs -> Nat] /\ t.ab \in SUBSET Jobs /\ t.out \in Seq(Event)
         /\ t.thrown \in BOOLEAN
BY DEF Turns

\* A turn that changes one job's row and place.
LEMMA OneJob ==
  ASSUME NEW p \in Proc, NEW t, TurnOK(p, t), NEW u \in Turns, NEW j \in Jobs,
         u.s = t.s, u.out = t.out,
         \A k \in Jobs \ {j}: u.l[k] = t.l[k] /\ u.sc[k] = t.sc[k],
         Sound(p, j, t.s, u.l[j], u.sc[j]),
         t.sc[j] \in {"none", "reclaim"} => u.sc[j] \in {"none", "reclaim"}
  PROVE  TurnOK(p, u)
<1>1. \A k \in Jobs: Sound(p, k, u.s, u.l[k], u.sc[k])
  BY DEF TurnOK
<1>2. \A i \in DOMAIN u.out: Announced(p, u.out[i], u.sc)
  <2> SUFFICES ASSUME NEW i \in DOMAIN u.out PROVE Announced(p, u.out[i], u.sc)
    OBVIOUS
  <2>1. t.out \in Seq(Event) /\ t.out[i] \in Event /\ Announced(p, t.out[i], t.sc)
    BY DEF TurnOK, Turns
  <2>2. t.out[i].kind = "intent" => t.out[i].job \in Jobs
    BY <2>1 DEF Event
  <2> QED BY <2>1, <2>2 DEF Announced
<1> QED BY <1>1, <1>2 DEF TurnOK

\* Rows that are not "none" are records of some owner.
LEMMA StoredRow ==
  ASSUME NEW s \in Journal, Claims(s), NEW j \in Jobs
  PROVE  /\ s.rows[j] \in Stored /\ s.rows[j] \in Row
         /\ s.rows[j].state # "none" => s.rows[j] \in Record /\ s.rows[j].owner \in Proc
         /\ s.rows[j].owner # Nobody => s.rows[j].state # "none"
<1>1. s.rows[j] \in Row
  BY DEF Journal
<1>2. CASE s.rows[j].state = "none"
  BY <1>1, <1>2 DEF Claims, Stored, NoRow
<1>3. CASE s.rows[j].state # "none"
  BY <1>1, <1>3 DEF Claims, Stored, Row, Record
<1> QED BY <1>2, <1>3

\* An event that only informs: the turn sees its effect and goes on.
LEMMA EmitOK ==
  ASSUME NEW p \in Proc, NEW t, TurnOK(p, t), NEW e \in Event, Announced(p, e, t.sc),
         e.kind = "intent" => t.s.rows[e.job].state # "none"
  PROVE  LET u == Emit(t, e) IN
           /\ TurnOK(p, u)
           /\ u.l = t.l /\ u.sc = t.sc /\ u.at = t.at /\ u.ab = t.ab /\ u.thrown = t.thrown
           /\ u.out # <<>>
           /\ \A j \in Jobs: t.s.rows[j].state # "none" => u.s.rows[j].state # "none"
<1>0. /\ t \in Turns /\ t.s \in Journal /\ Claims(t.s) /\ t.out \in Seq(Event)
  BY DEF TurnOK, Turns
<1>1. PICK v: v = Fold(t.s, e)
  OBVIOUS
<1>2. v \in Journal /\ Claims(v) /\ Effect(t.s, v, e) /\ \A j \in Jobs: JobStep(t.s, v, j)
  BY <1>0, <1>1, FoldStep, FoldEffect DEF Step
<1>3. PICK o \in Seq(Event): o = Append(t.out, e)
  <2>1. Append(t.out, e) \in Seq(Event)
    BY <1>0
  <2> QED BY <2>1
<1>4. PICK u: u = Emit(t, e)
  OBVIOUS
<1>5. u = [t EXCEPT !.out = o, !.s = v]
  BY <1>1, <1>3, <1>4 DEF Emit
<1>6. /\ u \in Turns /\ u.s = v /\ u.out = o /\ u.l = t.l /\ u.sc = t.sc /\ u.at = t.at
      /\ u.ab = t.ab /\ u.thrown = t.thrown
  BY <1>0, <1>2, <1>5 DEF Turns
<1>7. /\ v.acts = t.s.acts /\ v.poisoned = t.s.poisoned /\ t.s.cancelled \subseteq v.cancelled
  BY <1>2 DEF Effect, Announced
<1>8. ASSUME NEW j \in Jobs
      PROVE  /\ Sound(p, j, v, t.l[j], t.sc[j])
             /\ t.s.rows[j].state # "none" => v.rows[j].state # "none"
  <2>1. Sound(p, j, t.s, t.l[j], t.sc[j])
    BY DEF TurnOK
  <2>2. e.kind = "intent" => t.s.rows[e.job].owner \in Proc /\ e.job \in Jobs
    BY <1>0 DEF Event, Claims
  <2>3. v.rows[j].owner = t.s.rows[j].owner
    BY <1>2, <2>2, NobodyAssumption DEF Effect, Announced
  <2>4. v.rows[j].state # "none" => t.s.rows[j].state # "none"
    BY <1>2 DEF Effect
  <2>5. v.rows[j].state \in Ended =>
          \/ t.s.rows[j].state \in Ended /\ t.s.rows[j].owner = v.rows[j].owner
          \/ e.kind = "intent" /\ j = e.job /\ v.rows[j] = e.row
    BY <1>2 DEF Effect
  <2>6. Through(p, v.rows[j], t.sc[j])
    BY <2>1, <2>5 DEF Sound, Through, Announced
  <2>7. t.s.rows[j].state # "none" => v.rows[j].state # "none"
    <3>1. t.s.rows[j].state # "none" => t.s.rows[j].owner \in Proc
      BY <1>0 DEF Claims
    <3>2. v.rows[j].state = "none" => v.rows[j].owner = Nobody
      BY <1>2 DEF Claims, NoRow
    <3> QED BY <2>3, <3>1, <3>2, NobodyAssumption
  <2> QED BY <2>1, <2>3, <2>4, <2>6, <2>7 DEF Sound
<1>9. \A i \in DOMAIN o: Announced(p, o[i], t.sc)
  <2> SUFFICES ASSUME NEW i \in DOMAIN o PROVE Announced(p, o[i], t.sc)
    OBVIOUS
  <2>1. CASE i \in DOMAIN t.out
    <3>1. o[i] = t.out[i]
      BY <1>0, <1>3, <2>1
    <3> QED BY <2>1, <3>1 DEF TurnOK
  <2>2. CASE i \notin DOMAIN t.out
    <3>1. o[i] = e
      BY <1>0, <1>3, <2>2
    <3> QED BY <3>1
  <2> QED BY <2>1, <2>2
<1>10. TurnOK(p, u)
  BY <1>2, <1>6, <1>7, <1>8, <1>9 DEF TurnOK
<1>11. o # <<>>
  BY <1>0, <1>3
<1> QED BY <1>4, <1>6, <1>8, <1>10, <1>11

\* Setting a row of the turn's own.
LEMMA SetLocal ==
  ASSUME NEW p \in Proc, NEW t, TurnOK(p, t), NEW j \in Jobs, NEW row \in Stored,
         Placed(p, t.sc[j], row, journal.rows[j].owner)
  PROVE  LET u == [t EXCEPT !.l[j] = row] IN
           /\ TurnOK(p, u) /\ u.l[j] = row
           /\ u.s = t.s /\ u.sc = t.sc /\ u.at = t.at /\ u.ab = t.ab /\ u.thrown = t.thrown
           /\ u.out = t.out
<1>1. PICK u: u = [t EXCEPT !.l[j] = row]
  OBVIOUS
<1>2. t \in Turns
  BY DEF TurnOK
<1>3. /\ u \in Turns /\ u.l[j] = row /\ \A k \in Jobs \ {j}: u.l[k] = t.l[k]
      /\ u.s = t.s /\ u.sc = t.sc /\ u.at = t.at /\ u.ab = t.ab /\ u.thrown = t.thrown
      /\ u.out = t.out
  BY <1>1, <1>2 DEF Turns
<1>4. Sound(p, j, t.s, row, t.sc[j])
  BY DEF TurnOK, Sound
<1>5. TurnOK(p, u)
  BY <1>3, <1>4, OneJob
<1> QED BY <1>1, <1>3, <1>5

\* append() of a row.
LEMMA RecordedOK ==
  ASSUME NEW p \in Proc, NEW t, TurnOK(p, t), NEW j \in Jobs, NEW row \in Record,
         t.s.rows[j].state # "none", Placed(p, t.sc[j], row, journal.rows[j].owner),
         row.state \in Ended => row.owner = p /\ t.sc[j] \in {"none", "reclaim"}
  PROVE  LET u == Recorded(t, j, row) IN
           /\ TurnOK(p, u) /\ u.l[j] = row
           /\ u.sc = t.sc /\ u.at = t.at /\ u.ab = t.ab /\ u.thrown = t.thrown
           /\ t.out # <<>> => u.out # <<>>
<1>0. row \in Stored
  BY DEF Stored
<1>1. PICK k: k = [t EXCEPT !.l[j] = row]
  OBVIOUS
<1>2. /\ TurnOK(p, k) /\ k.l[j] = row
      /\ k.s = t.s /\ k.sc = t.sc /\ k.at = t.at /\ k.ab = t.ab /\ k.thrown = t.thrown
      /\ k.out = t.out
  BY <1>0, <1>1, SetLocal
<1>3. CASE Changes(t.s.rows[j], row)
  <2>1. PICK e: e = EventOf("intent", j, row.owner, row)
    OBVIOUS
  <2>2. e \in Event /\ e.kind = "intent" /\ e.job = j /\ e.row = row
    BY <2>1 DEF EventOf, Event, Record
  <2>3. j \in used
    BY DEF TurnOK, Sound
  <2>4. Announced(p, e, k.sc)
    BY <1>2, <2>2, <2>3 DEF Announced
  <2>5. PICK u: u = Emit(k, e)
    OBVIOUS
  <2>6. /\ TurnOK(p, u) /\ u.l = k.l /\ u.sc = k.sc /\ u.at = k.at /\ u.ab = k.ab
        /\ u.thrown = k.thrown /\ u.out # <<>>
    BY <1>2, <2>2, <2>4, <2>5, EmitOK
  <2>7. Recorded(t, j, row) = u
    BY <1>1, <1>3, <2>1, <2>5 DEF Recorded
  <2> QED BY <1>2, <2>6, <2>7
<1>4. CASE ~Changes(t.s.rows[j], row)
  <2>1. Recorded(t, j, row) = k
    BY <1>1, <1>4 DEF Recorded
  <2> QED BY <1>2, <2>1
<1> QED BY <1>3, <1>4

\* The row an observer gives to expired work.
LEMMA ExpiredRow ==
  ASSUME NEW row \in Record, clock \in Nat
  PROVE  Expired(row) \in Record /\ Expired(row).owner = row.owner
         /\ Expired(row).state \notin Ended \cup {"none"}
<1>1. Later(row.lease, clock) \in Nat
  BY LaterTime DEF Record
<1>2. PICK w: w = (IF row.state = "queued" THEN "stopped" ELSE "reconciliation-required")
  OBVIOUS
<1>3. w \in Final \ (Ended \cup {"none"})
  BY <1>2 DEF Final, Ended
<1>4. Expired(row) = [row EXCEPT !.state = w, !.updated = clock, !.lease = Later(@, clock)]
  BY <1>2 DEF Expired
<1> QED BY <1>1, <1>3, <1>4 DEF Record

\* The row of transition().
LEMMA MovedRow ==
  ASSUME NEW t \in Turns, NEW j \in Jobs, NEW w \in Final, t.l[j].state # "none", clock \in Nat
  PROVE  LET row == Moved(t, j, w) IN row \in Record /\ row.owner = t.l[j].owner /\ row.state = w
<1>1. PICK r \in Record: r = t.l[j]
  BY DEF Turns, Stored, NoRow
<1>2. clock + Lease \in Nat
  BY BoundsAssumption
<1>3. Later(r.lease, clock + Lease) \in Nat
  BY <1>2, LaterTime DEF Record
<1>4. Moved(t, j, w) = [r EXCEPT !.state = w, !.updated = clock, !.lease = Later(@, clock + Lease)]
  BY <1>1 DEF Moved
<1> QED BY <1>1, <1>3, <1>4 DEF Record

\* uncertain() keeps the owner.
LEMMA UncertainOK ==
  ASSUME NEW p \in Proc, NEW t, TurnOK(p, t), NEW j \in Jobs, clock \in Nat
  PROVE  LET u == Uncertain(t, j) IN
           /\ TurnOK(p, u) /\ u.sc = t.sc /\ u.at = t.at /\ u.ab = t.ab /\ u.thrown = t.thrown
           /\ t.out # <<>> => u.out # <<>>
<1>1. CASE t.l[j].state = "none"
  BY <1>1 DEF Uncertain
<1>2. CASE t.l[j].state # "none"
  <2>0. t \in Turns
    BY DEF TurnOK
  <2>1. PICK r \in Record: r = t.l[j]
    BY <1>2, <2>0 DEF Turns, Stored, NoRow
  <2>2. Later(r.updated, clock) \in Nat
    BY LaterTime DEF Record
  <2>3. PICK q: q = [r EXCEPT !.state = "reconciliation-required", !.updated = Later(@, clock)]
    OBVIOUS
  <2>4. q \in Record /\ q.owner = r.owner /\ q.state # "none"
    BY <2>2, <2>3 DEF Record, Final
  <2>5. q \in Stored
    BY <2>4 DEF Stored
  <2>6. Uncertain(t, j) = [t EXCEPT !.l[j] = q]
    BY <1>2, <2>0, <2>1, <2>3 DEF Uncertain, Turns, Record
  <2>7. Placed(p, t.sc[j], t.l[j], journal.rows[j].owner)
    BY DEF TurnOK, Sound
  <2>8. Placed(p, t.sc[j], q, journal.rows[j].owner)
    BY <2>1, <2>4, <2>7 DEF Placed
  <2> QED BY <2>5, <2>6, <2>8, SetLocal
<1> QED BY <1>1, <1>2

\* refreshJournal() behind the tests of ownership and cancellation.
LEMMA ClassifyOK ==
  ASSUME NEW p \in Proc, NEW t, TurnOK(p, t), NEW j \in Jobs, clock \in Nat,
         t.s.rows[j].state # "none",
         t.l[j].state # "none" => t.l[j].owner = t.s.rows[j].owner
  PROVE  LET u == Classify(t, j) IN
           /\ TurnOK(p, u) /\ u.sc = t.sc /\ u.at = t.at /\ u.ab = t.ab /\ u.thrown = t.thrown
           /\ t.out # <<>> => u.out # <<>>
<1>0. t \in Turns /\ t.s \in Journal /\ Claims(t.s) /\ Sound(p, j, t.s, t.l[j], t.sc[j])
  BY DEF TurnOK, Turns
<1>1. PICK obs \in Record: obs = t.s.rows[j] /\ obs \in Stored /\ obs.owner \in Proc
  BY <1>0, StoredRow
<1>2. obs.owner = journal.rows[j].owner /\ obs.state # "none"
  BY <1>0, <1>1 DEF Sound
<1> DEFINE mine == t.l[j]
<1> DEFINE late == obs.state \in Live /\ obs.lease <= clock
<1> DEFINE recoverable == obs.state = "queued" /\ j \in Commands /\ j \notin t.s.cancelled
<1> DEFINE u == Classify(t, j)
<1>3. PICK x \in Record: x = Expired(obs) /\ x.owner = obs.owner /\ x.state \notin Ended \cup {"none"}
  BY ExpiredRow
<1>4. Placed(p, t.sc[j], obs, journal.rows[j].owner)
  BY <1>0, <1>1, <1>2 DEF Sound, Placed
<1>5. Placed(p, t.sc[j], x, journal.rows[j].owner)
  BY <1>3, <1>4, <1>2 DEF Placed
<1>6. obs.state \in Ended => Placed(p, t.sc[j], NoRow, journal.rows[j].owner)
  <2>1. obs.state \in Ended /\ obs.owner = p => t.sc[j] \in {"none", "reclaim"}
    BY <1>0, <1>1 DEF Sound, Through
  <2>2. t.sc[j] \in Scheduled \ {"admit"} => obs.owner = p
    BY <1>0, <1>1 DEF Sound, Placed
  <2>3. t.sc[j] = "admit" => obs.owner = p \/ journal.rows[j].owner \notin {p, Nobody}
    BY <1>0, <1>1 DEF Sound, Placed
  <2> QED BY <2>1, <2>2, <2>3 DEF Placed, Scheduled, Tokens
<1>7. NoRow \in Stored
  BY DEF Stored
<1>8. \/ u = t
      \/ obs.state \in Ended /\ u = [t EXCEPT !.l[j] = NoRow]
      \/ u = [t EXCEPT !.l[j] = obs]
      \/ u = Recorded(t, j, x)
  <2> DEFINE busy == mine.state \in Live /\ t.sc[j] \in Scheduled
  <2> DEFINE gone == obs.state \in {"completed", "failed"} /\ ~Active(t.s, j)
  <2> DEFINE held == mine.state = "reconciliation-required" /\ obs.state \in Live
  <2> DEFINE fresh == ~late /\ (mine.state = "none" \/ obs.updated >= mine.updated)
  <2>0. ~(gone /\ held) /\ obs = t.s.rows[j] /\ x = Expired(t.s.rows[j])
    BY <1>1, <1>3 DEF Live
  <2> HIDE DEF gone, held, fresh, busy, late, recoverable
  <2> DEFINE app == IF Appendable(t, j, x) THEN Recorded(t, j, x) ELSE t
  <2> DEFINE last == CASE late /\ recoverable -> [t EXCEPT !.l[j] = obs]
                       [] late /\ ~recoverable -> app
                       [] fresh -> [t EXCEPT !.l[j] = obs]
                       [] OTHER -> t
  <2> DEFINE mid == CASE gone -> [t EXCEPT !.l[j] = NoRow]
                      [] held -> t
                      [] OTHER -> last
  <2>1. u = CASE busy -> t [] OTHER -> mid
    BY <2>0 DEF Classify, gone, held, fresh, busy, late, recoverable
  <2>2. app = t \/ app = Recorded(t, j, x)
    OBVIOUS
  <2> HIDE DEF app, u
  <2>3. last \in {t, app, [t EXCEPT !.l[j] = obs]}
    BY DEF fresh
  <2> HIDE DEF last
  <2>4. mid \in {t, last} \/ (gone /\ mid = [t EXCEPT !.l[j] = NoRow])
    BY <2>0
  <2> HIDE DEF mid
  <2>5. u = t \/ u = mid
    BY <2>1
  <2>6. gone => obs.state \in Ended
    BY DEF gone, Ended
  <2> QED BY <2>2, <2>3, <2>4, <2>5, <2>6
<1>9. CASE u = t
  BY <1>9
<1>10. CASE obs.state \in Ended /\ u = [t EXCEPT !.l[j] = NoRow]
  BY <1>6, <1>7, <1>10, SetLocal
<1>11. CASE u = [t EXCEPT !.l[j] = obs]
  BY <1>1, <1>4, <1>11, SetLocal
<1>12. CASE u = Recorded(t, j, x)
  BY <1>3, <1>5, <1>12, RecordedOK
<1> QED BY <1>8, <1>9, <1>10, <1>11, <1>12

\* What the parts of a turn leave alone: only jobs in the queue change their
\* place, no abort or event is taken back, and a turn that threw stays so.
Frame(t, u) ==
  /\ \A k \in Jobs: t.sc[k] # "queued" => u.sc[k] = t.sc[k]
  /\ t.ab \subseteq u.ab
  /\ t.thrown => u.thrown
  /\ t.out # <<>> => u.out # <<>>

LEMMA FrameChain ==
  ASSUME NEW t, NEW u, NEW v, Frame(t, u), Frame(u, v)
  PROVE  Frame(t, v)
BY DEF Frame

\* A job leaves the queue of the runtime.
LEMMA DropOK ==
  ASSUME NEW p \in Proc, NEW t, TurnOK(p, t), NEW j \in Jobs
  PROVE  LET u == [t EXCEPT !.sc[j] = IF @ = "queued" THEN "none" ELSE @] IN
           /\ TurnOK(p, u) /\ u.s = t.s /\ u.l = t.l /\ u.at = t.at /\ u.ab = t.ab
           /\ u.thrown = t.thrown /\ u.out = t.out
           /\ u.sc[j] = (IF t.sc[j] = "queued" THEN "none" ELSE t.sc[j])
           /\ \A k \in Jobs \ {j}: u.sc[k] = t.sc[k]
<1>0. t \in Turns /\ Sound(p, j, t.s, t.l[j], t.sc[j])
  BY DEF TurnOK
<1>1. PICK w \in Places: w = (IF t.sc[j] = "queued" THEN "none" ELSE t.sc[j])
  BY <1>0 DEF Turns, Places
<1>2. PICK u: u = [t EXCEPT !.sc[j] = w]
  OBVIOUS
<1>3. u = [t EXCEPT !.sc[j] = IF @ = "queued" THEN "none" ELSE @]
  BY <1>0, <1>1, <1>2 DEF Turns
<1>4. /\ u \in Turns /\ u.s = t.s /\ u.l = t.l /\ u.at = t.at /\ u.ab = t.ab
      /\ u.thrown = t.thrown /\ u.out = t.out /\ u.sc[j] = w
      /\ \A k \in Jobs \ {j}: u.sc[k] = t.sc[k]
  BY <1>0, <1>2 DEF Turns
<1>5. Sound(p, j, t.s, t.l[j], w)
  <2>1. CASE t.sc[j] # "queued"
    BY <1>0, <1>1, <2>1
  <2>2. CASE t.sc[j] = "queued"
    BY <1>0, <1>1, <2>2 DEF Sound, Placed, Through, Past, Scheduled, Tokens
  <2> QED BY <2>1, <2>2
<1>6. TurnOK(p, u)
  BY <1>1, <1>4, <1>5, OneJob
<1> QED BY <1>1, <1>3, <1>4, <1>6

\* One row of refreshJournal(): a callback about to run hears of a request to
\* cancel its job.
LEMMA ObserveOK ==
  ASSUME NEW p \in Proc, NEW t, TurnOK(p, t), NEW j \in Jobs, clock \in Nat, ~journal.poisoned
  PROVE  LET u == Observe(t, j) IN
           /\ TurnOK(p, u) /\ Frame(t, u)
           /\ t.sc[j] = "run" /\ j \in journal.cancelled => u.thrown \/ j \in u.ab
<1>0. t \in Turns /\ t.s \in Journal /\ Claims(t.s) /\ Sound(p, j, t.s, t.l[j], t.sc[j])
      /\ t.sc \in [Jobs -> Places] /\ journal.cancelled \subseteq t.s.cancelled
      /\ t.s.acts = journal.acts
  BY DEF TurnOK, Turns
<1>1. PICK obs \in Stored: obs = t.s.rows[j] /\ obs.owner = journal.rows[j].owner
        /\ (obs.state # "none" => obs \in Record /\ obs.owner \in Proc)
  BY <1>0, StoredRow DEF Sound
<1>2. t.sc[j] \in Past => obs.state # "none" /\ obs.owner = p /\ t.l[j].owner = p
  BY <1>0, <1>1 DEF Sound, OnRecord, Claims, Placed, Past, Scheduled, Tokens
<1> DEFINE mine == t.l[j]
<1> DEFINE moved == mine.state # "none" /\ mine.owner # obs.owner
<1> DEFINE dropped == [t EXCEPT !.sc[j] = IF @ = "queued" THEN "none" ELSE @]
<1>3. PICK d: d = dropped
  OBVIOUS
<1>4. /\ TurnOK(p, d) /\ d.s = t.s /\ d.l = t.l /\ d.at = t.at /\ d.ab = t.ab
      /\ d.thrown = t.thrown /\ d.out = t.out
      /\ d.sc[j] = (IF t.sc[j] = "queued" THEN "none" ELSE t.sc[j])
      /\ \A k \in Jobs \ {j}: d.sc[k] = t.sc[k]
  BY <1>3, DropOK
<1>5. Frame(t, d)
  BY <1>4 DEF Frame
<1>6. CASE t.thrown \/ obs.state = "none"
  <2>1. Observe(t, j) = t
    BY <1>1, <1>6 DEF Observe
  <2>2. t.sc[j] = "run" => t.thrown
    BY <1>2, <1>6 DEF Past
  <2> QED BY <2>1, <2>2 DEF Frame
<1>7. CASE ~t.thrown /\ obs.state # "none" /\ moved
  <2>1. Observe(t, j) = [d EXCEPT !.l[j] = obs]
    BY <1>1, <1>3, <1>7 DEF Observe
  <2>2. t.sc[j] \notin Past
    BY <1>2, <1>7
  <2>3. Placed(p, d.sc[j], obs, journal.rows[j].owner)
    <3>1. t.sc[j] = "admit" => obs.owner \notin {p, Nobody}
      BY <1>0, <1>1, <1>7, NobodyAssumption DEF Sound, Placed
    <3>2. d.sc[j] # "queued" /\ d.sc[j] \notin Past /\ (d.sc[j] = "admit" => t.sc[j] = "admit")
      BY <1>4, <2>2 DEF Past
    <3> QED BY <1>1, <3>1, <3>2 DEF Placed, Scheduled, Tokens, Past
  <2>4. PICK u: u = [d EXCEPT !.l[j] = obs]
    OBVIOUS
  <2>5. TurnOK(p, u) /\ u.sc = d.sc /\ u.ab = d.ab /\ u.thrown = d.thrown /\ u.out = d.out
    BY <1>4, <2>3, <2>4, SetLocal
  <2>6. Frame(t, u) /\ t.sc[j] # "run"
    BY <1>5, <2>2, <2>5 DEF Frame, Past
  <2> QED BY <2>1, <2>4, <2>5, <2>6
<1>8. CASE ~t.thrown /\ obs.state # "none" /\ ~moved /\ j \in t.s.cancelled /\ t.sc[j] = "queued"
  <2>1. mine.state # "none"
    BY <1>0, <1>8 DEF Sound, Placed, Scheduled
  <2>2. PICK x \in Record: x = Moved(t, j, "stopped") /\ x.owner = mine.owner /\ x.state = "stopped"
    <3>1. PICK w \in Final: w = "stopped"
      BY DEF Final
    <3> QED BY <1>0, <2>1, <3>1, MovedRow
  <2>3. d.sc[j] = "none" /\ Placed(p, d.sc[j], x, journal.rows[j].owner)
    BY <1>4, <1>8 DEF Placed, Scheduled, Tokens
  <2>4. CASE Appendable(t, j, x)
    <3>1. Observe(t, j) = Recorded(d, j, x)
      BY <1>1, <1>3, <1>8, <2>2, <2>4 DEF Observe
    <3>2. PICK u: u = Recorded(d, j, x)
      OBVIOUS
    <3>3. x.state \notin Ended /\ d.s.rows[j].state # "none"
      BY <1>1, <1>4, <1>8, <2>2 DEF Ended
    <3>4. /\ TurnOK(p, u) /\ u.sc = d.sc /\ u.ab = d.ab /\ u.thrown = d.thrown
          /\ d.out # <<>> => u.out # <<>>
      BY <1>4, <2>3, <3>2, <3>3, RecordedOK
    <3> QED BY <1>5, <1>8, <3>1, <3>2, <3>4 DEF Frame
  <2>5. CASE ~Appendable(t, j, x)
    <3>1. Observe(t, j) = [Uncertain(d, j) EXCEPT !.thrown = TRUE]
      BY <1>1, <1>3, <1>8, <2>2, <2>5 DEF Observe
    <3>2. PICK v: v = Uncertain(d, j)
      OBVIOUS
    <3>3. TurnOK(p, v) /\ v.sc = d.sc /\ v.ab = d.ab /\ (d.out # <<>> => v.out # <<>>)
      BY <1>4, <3>2, UncertainOK
    <3>4. PICK u: u = [v EXCEPT !.thrown = TRUE]
      OBVIOUS
    <3>5. /\ u \in Turns /\ u.s = v.s /\ u.l = v.l /\ u.sc = v.sc /\ u.ab = v.ab /\ u.out = v.out
          /\ u.thrown
      BY <3>3, <3>4 DEF TurnOK, Turns
    <3>6. TurnOK(p, u)
      BY <3>3, <3>5 DEF TurnOK
    <3> QED BY <1>5, <1>8, <3>1, <3>2, <3>3, <3>4, <3>5, <3>6 DEF Frame
  <2> QED BY <2>4, <2>5
<1>9. CASE /\ ~t.thrown /\ obs.state # "none" /\ ~moved /\ j \in t.s.cancelled
           /\ t.sc[j] \in {"run", "settle", "finish"}
  <2>1. PICK v: v = [t EXCEPT !.ab = @ \cup {j}]
    OBVIOUS
  <2>2. Observe(t, j) = Classify(v, j)
    BY <1>1, <1>9, <2>1 DEF Observe
  <2>3. /\ v \in Turns /\ v.s = t.s /\ v.l = t.l /\ v.sc = t.sc /\ v.out = t.out
        /\ v.ab = t.ab \cup {j} /\ v.thrown = t.thrown
    BY <1>0, <2>1 DEF Turns
  <2>4. TurnOK(p, v)
    BY <2>3 DEF TurnOK
  <2>5. PICK u: u = Classify(v, j)
    OBVIOUS
  <2>6. /\ TurnOK(p, u) /\ u.sc = v.sc /\ u.ab = v.ab /\ u.thrown = v.thrown
        /\ v.out # <<>> => u.out # <<>>
    BY <1>1, <1>9, <2>3, <2>4, <2>5, ClassifyOK
  <2> QED BY <2>2, <2>3, <2>5, <2>6 DEF Frame
<1>10. CASE /\ ~t.thrown /\ obs.state # "none" /\ ~moved
            /\ ~(j \in t.s.cancelled /\ t.sc[j] = "queued")
            /\ ~(j \in t.s.cancelled /\ t.sc[j] \in {"run", "settle", "finish"})
  <2>1. Observe(t, j) = Classify(t, j)
    BY <1>1, <1>10 DEF Observe
  <2>2. PICK u: u = Classify(t, j)
    OBVIOUS
  <2>3. /\ TurnOK(p, u) /\ u.sc = t.sc /\ u.ab = t.ab /\ u.thrown = t.thrown
        /\ t.out # <<>> => u.out # <<>>
    BY <1>1, <1>10, <2>2, ClassifyOK
  <2>4. ~(t.sc[j] = "run" /\ j \in journal.cancelled)
    BY <1>0, <1>10
  <2> QED BY <2>1, <2>2, <2>3, <2>4 DEF Frame
<1> QED BY <1>6, <1>7, <1>8, <1>9, <1>10

\* All rows of refreshJournal().
LEMMA ObserveAllOK ==
  ASSUME NEW p \in Proc, NEW t, TurnOK(p, t), clock \in Nat, ~journal.poisoned
  PROVE  LET u == ObserveAll(t) IN
           /\ TurnOK(p, u) /\ Frame(t, u)
           /\ \A j \in Jobs: t.sc[j] = "run" /\ j \in journal.cancelled => u.thrown \/ j \in u.ab
<1>1. PICK T: T = {u \in Turns: TurnOK(p, u) /\ Frame(t, u)}
  OBVIOUS
<1>2. t \in T
  BY <1>1 DEF TurnOK, Frame
<1>3. \A u \in T, j \in Jobs: Observe(u, j) \in T
  <2> SUFFICES ASSUME NEW u \in T, NEW j \in Jobs PROVE Observe(u, j) \in T
    OBVIOUS
  <2>1. TurnOK(p, u) /\ Frame(t, u)
    BY <1>1
  <2>2. PICK v: v = Observe(u, j)
    OBVIOUS
  <2>3. TurnOK(p, v) /\ Frame(u, v)
    BY <2>1, <2>2, ObserveOK
  <2>4. v \in Turns /\ Frame(t, v)
    BY <2>1, <2>3, FrameChain DEF TurnOK
  <2> QED BY <1>1, <2>2, <2>3, <2>4
<1>4. PICK f \in [Jobs \X T -> T]: \A u \in T, j \in Jobs: f[<<j, u>>] = Observe(u, j)
  <2>1. PICK g: g = [x \in Jobs \X T |-> Observe(x[2], x[1])]
    OBVIOUS
  <2>2. g \in [Jobs \X T -> T]
    BY <1>3, <2>1
  <2>3. \A u \in T, j \in Jobs: g[<<j, u>>] = Observe(u, j)
    BY <2>1
  <2> QED BY <2>2, <2>3
<1>5. PICK h \in [SUBSET Jobs -> T]: Computes(h, Jobs, t, f) /\ h[Jobs] = ObserveAll(t)
  BY <1>2, <1>4, ObserveFold
<1>6. TurnOK(p, h[Jobs]) /\ Frame(t, h[Jobs])
  BY <1>1, <1>5
<1>7. ASSUME NEW j \in Jobs, t.sc[j] = "run", j \in journal.cancelled
      PROVE  h[Jobs].thrown \/ j \in h[Jobs].ab
  <2>1. PICK D \in SUBSET T: D = {u \in T: u.thrown \/ j \in u.ab}
    OBVIOUS
  <2>2. \A u \in T: f[<<j, u>>] \in D
    <3> SUFFICES ASSUME NEW u \in T PROVE f[<<j, u>>] \in D
      OBVIOUS
    <3>1. TurnOK(p, u) /\ u.sc[j] = "run"
      BY <1>1, <1>7 DEF Frame
    <3>2. PICK v \in T: v = f[<<j, u>>] /\ v = Observe(u, j)
      BY <1>4
    <3>3. v.thrown \/ j \in v.ab
      BY <1>7, <3>1, <3>2, ObserveOK
    <3> QED BY <2>1, <3>2, <3>3
  <2>3. \A u \in D, k \in Jobs: f[<<k, u>>] \in D
    <3> SUFFICES ASSUME NEW u \in D, NEW k \in Jobs PROVE f[<<k, u>>] \in D
      OBVIOUS
    <3>1. u \in T /\ TurnOK(p, u) /\ (u.thrown \/ j \in u.ab)
      BY <1>1, <2>1
    <3>2. PICK v \in T: v = f[<<k, u>>] /\ v = Observe(u, k)
      BY <1>4, <3>1
    <3>3. Frame(u, v)
      BY <3>1, <3>2, ObserveOK
    <3> QED BY <2>1, <3>1, <3>2, <3>3 DEF Frame
  <2>4. h[Jobs] \in D
    BY <1>2, <1>5, <2>2, <2>3, FoldDone, JobsAssumption
  <2> QED BY <2>1, <2>4
<1> QED BY <1>5, <1>6, <1>7

\* A turn that throws.
LEMMA ThrownOK ==
  ASSUME NEW p \in Proc, NEW t, TurnOK(p, t), NEW b \in BOOLEAN
  PROVE  LET u == [t EXCEPT !.thrown = b] IN
           /\ TurnOK(p, u) /\ u.s = t.s /\ u.l = t.l /\ u.sc = t.sc /\ u.at = t.at
           /\ u.ab = t.ab /\ u.out = t.out /\ u.thrown = b
<1>1. PICK u: u = [t EXCEPT !.thrown = b]
  OBVIOUS
<1>2. /\ u \in Turns /\ u.s = t.s /\ u.l = t.l /\ u.sc = t.sc /\ u.at = t.at
      /\ u.ab = t.ab /\ u.out = t.out /\ u.thrown = b
  BY <1>1 DEF TurnOK, Turns
<1>3. TurnOK(p, u)
  BY <1>2 DEF TurnOK
<1> QED BY <1>1, <1>2, <1>3

\* refreshJournal()
LEMMA RefreshOK ==
  ASSUME NEW p \in Proc, NEW t, TurnOK(p, t), clock \in Nat
  PROVE  LET u == Refresh(t) IN
           /\ TurnOK(p, u) /\ Frame(t, u)
           /\ journal.poisoned => u.thrown
           /\ \A j \in Jobs: t.sc[j] = "run" /\ j \in journal.cancelled => u.thrown \/ j \in u.ab
<1>0. t.s.poisoned = journal.poisoned
  BY DEF TurnOK
<1>1. CASE journal.poisoned
  <2>1. PICK u: u = [t EXCEPT !.thrown = TRUE]
    OBVIOUS
  <2>2. TurnOK(p, u) /\ u.sc = t.sc /\ u.ab = t.ab /\ u.thrown /\ u.out = t.out
    BY <2>1, ThrownOK
  <2>3. Refresh(t) = u
    BY <1>0, <1>1, <2>1 DEF Refresh
  <2> QED BY <2>2, <2>3 DEF Frame
<1>2. CASE ~journal.poisoned
  <2>1. Refresh(t) = ObserveAll(t)
    BY <1>0, <1>2 DEF Refresh
  <2> QED BY <1>2, <2>1, ObserveAllOK
<1> QED BY <1>1, <1>2

\* A queued job goes to wait for the lock.
LEMMA AdmitOK ==
  ASSUME NEW p \in Proc, NEW t, TurnOK(p, t), NEW j \in Jobs, clock \in Nat
  PROVE  TurnOK(p, Admit(t, j)) /\ Frame(t, Admit(t, j))
<1>0. t \in Turns /\ Sound(p, j, t.s, t.l[j], t.sc[j])
  BY DEF TurnOK
<1>1. PICK u: u = [t EXCEPT !.sc[j] = "admit", !.at[j] = clock]
  OBVIOUS
<1>2. Admit(t, j) = t \/ (t.sc[j] = "queued" /\ Admit(t, j) = u)
  BY <1>1 DEF Admit
<1>3. CASE t.sc[j] = "queued"
  <2>1. PICK w \in Places: w = "admit"
    BY DEF Places, Scheduled, Tokens
  <2>2. /\ u \in Turns /\ u.s = t.s /\ u.l = t.l /\ u.ab = t.ab /\ u.thrown = t.thrown
        /\ u.out = t.out /\ u.sc[j] = "admit" /\ \A k \in Jobs \ {j}: u.sc[k] = t.sc[k]
    BY <1>0, <1>1, <2>1 DEF Turns
  <2>3. Sound(p, j, t.s, t.l[j], "admit")
    BY <1>0, <1>3 DEF Sound, Placed, Through, Past, Scheduled, Tokens
  <2>4. TurnOK(p, u)
    BY <1>3, <2>2, <2>3, OneJob
  <2>5. Frame(t, u)
    BY <1>3, <2>2 DEF Frame
  <2> QED BY <1>2, <2>4, <2>5 DEF Frame
<1> QED BY <1>2, <1>3 DEF Frame

LEMMA AdmitAllOK ==
  ASSUME NEW p \in Proc, NEW t, TurnOK(p, t), clock \in Nat
  PROVE  TurnOK(p, AdmitAll(t)) /\ Frame(t, AdmitAll(t))
<1>1. PICK T: T = {u \in Turns: TurnOK(p, u) /\ Frame(t, u)}
  OBVIOUS
<1>2. t \in T
  BY <1>1 DEF TurnOK, Frame
<1>3. \A u \in T, j \in Jobs: Admit(u, j) \in T
  <2> SUFFICES ASSUME NEW u \in T, NEW j \in Jobs PROVE Admit(u, j) \in T
    OBVIOUS
  <2>1. TurnOK(p, u) /\ Frame(t, u)
    BY <1>1
  <2>2. PICK v: v = Admit(u, j)
    OBVIOUS
  <2>3. TurnOK(p, v) /\ Frame(u, v)
    BY <2>1, <2>2, AdmitOK
  <2>4. v \in Turns /\ Frame(t, v)
    BY <2>1, <2>3, FrameChain DEF TurnOK
  <2> QED BY <1>1, <2>2, <2>3, <2>4
<1>4. PICK f \in [Jobs \X T -> T]: \A u \in T, j \in Jobs: f[<<j, u>>] = Admit(u, j)
  <2>1. PICK g: g = [x \in Jobs \X T |-> Admit(x[2], x[1])]
    OBVIOUS
  <2>2. g \in [Jobs \X T -> T]
    BY <1>3, <2>1
  <2>3. \A u \in T, j \in Jobs: g[<<j, u>>] = Admit(u, j)
    BY <2>1
  <2> QED BY <2>2, <2>3
<1>5. PICK h \in [SUBSET Jobs -> T]: Computes(h, Jobs, t, f) /\ h[Jobs] = AdmitAll(t)
  BY <1>2, <1>4, AdmitFold
<1> QED BY <1>1, <1>5

\* drain()
LEMMA DrainOK ==
  ASSUME NEW p \in Proc, NEW t, TurnOK(p, t), clock \in Nat
  PROVE  TurnOK(p, Drain(t)) /\ Frame(t, Drain(t))
<1>1. PICK u: u = Refresh(t)
  OBVIOUS
<1>2. TurnOK(p, u) /\ Frame(t, u)
  BY <1>1, RefreshOK
<1>3. PICK v: v = AdmitAll(u)
  OBVIOUS
<1>4. TurnOK(p, v) /\ Frame(u, v)
  BY <1>2, <1>3, AdmitAllOK
<1>5. Frame(t, v)
  BY <1>2, <1>4, FrameChain
<1>6. Drain(t) = u \/ Drain(t) = v
  BY <1>1, <1>3 DEF Drain
<1> QED BY <1>2, <1>4, <1>5, <1>6

\* renewLeases()
LEMMA RenewOK ==
  ASSUME NEW p \in Proc, NEW t, TurnOK(p, t), clock \in Nat
  PROVE  TurnOK(p, Renew(p, t)) /\ Frame(t, Renew(p, t))
<1>0. t \in Turns /\ t.l \in [Jobs -> Stored]
  BY DEF TurnOK, Turns
<1> DEFINE owned == {j \in Jobs: /\ t.sc[j] \in Scheduled
                                 /\ t.l[j].owner = p /\ t.l[j].state \in Live}
<1> DEFINE row == RowOf("running", p, clock, clock + Lease)
<1> DEFINE new(j) == IF j \in owned
                     THEN [t.l[j] EXCEPT !.updated = row.updated, !.lease = row.lease] ELSE t.l[j]
<1> DEFINE kept == [t EXCEPT !.l = [j \in Jobs |-> new(j)]]
<1> DEFINE e == [kind |-> "heartbeat", jobs |-> owned, row |-> row]
<1>1. row \in Record /\ row.updated \in Nat /\ row.lease \in Nat
  BY BoundsAssumption DEF RowOf, Record, Live
<1>2. e \in Event /\ e.kind = "heartbeat"
  BY <1>1 DEF Event
<1>3. ASSUME NEW j \in Jobs
      PROVE  new(j) \in Stored /\ new(j).state = t.l[j].state /\ new(j).owner = t.l[j].owner
  <2>1. CASE j \in owned
    <3>1. t.l[j] \in Record
      BY <1>0, <2>1 DEF Stored, NoRow, Live
    <3>2. new(j) = [t.l[j] EXCEPT !.updated = row.updated, !.lease = row.lease]
      BY <2>1
    <3> HIDE DEF new, owned, row
    <3> QED BY <1>1, <3>1, <3>2 DEF Record, Stored
  <2>2. CASE j \notin owned
    BY <1>0, <2>2
  <2> QED BY <2>1, <2>2
<1>4. Renew(p, t) = t \/ Renew(p, t) = Emit(kept, e)
  BY DEF Renew
<1>5. PICK m: m = e
  OBVIOUS
<1>6. PICK q: q = [j \in Jobs |-> new(j)]
  OBVIOUS
<1> HIDE DEF new, owned, row, e
<1>7. q \in [Jobs -> Stored] /\ \A j \in Jobs: q[j].state = t.l[j].state /\ q[j].owner = t.l[j].owner
  BY <1>3, <1>6
<1>8. PICK k: k = [t EXCEPT !.l = q]
  OBVIOUS
<1>9. /\ k \in Turns /\ k.s = t.s /\ k.l = q /\ k.sc = t.sc /\ k.at = t.at /\ k.ab = t.ab
      /\ k.out = t.out /\ k.thrown = t.thrown
  BY <1>0, <1>7, <1>8 DEF Turns
<1>10. TurnOK(p, k)
  BY <1>7, <1>9 DEF TurnOK, Sound, Placed
<1>11. PICK u: u = Emit(k, m)
  OBVIOUS
<1>12. Announced(p, m, k.sc) /\ m \in Event /\ m.kind = "heartbeat"
  BY <1>2, <1>5 DEF Announced
<1>13. TurnOK(p, u) /\ u.sc = k.sc /\ u.ab = k.ab /\ u.thrown = k.thrown /\ u.out # <<>>
  BY <1>10, <1>11, <1>12, EmitOK
<1>14. Renew(p, t) = t \/ Renew(p, t) = u
  BY <1>4, <1>5, <1>6, <1>8, <1>11
<1> QED BY <1>9, <1>13, <1>14 DEF Frame

\* The constructor looks at one row.
LEMMA BootRowOK ==
  ASSUME NEW p \in Proc, NEW t, TurnOK(p, t), NEW j \in Jobs, clock \in Nat, t.sc[j] = "none"
  PROVE  TurnOK(p, BootRow(t, j)) /\ BootRow(t, j).sc = t.sc
<1>0. t \in Turns /\ t.s \in Journal /\ Claims(t.s)
  BY DEF TurnOK, Turns
<1>1. PICK obs \in Stored: obs = t.s.rows[j] /\ (obs.state # "none" => obs \in Record)
  BY <1>0, StoredRow
<1>2. \A r: Placed(p, t.sc[j], r, journal.rows[j].owner)
  BY DEF Placed, Scheduled, Tokens
<1>3. PICK v: v = [t EXCEPT !.l[j] = obs]
  OBVIOUS
<1>4. TurnOK(p, v) /\ v.sc = t.sc
  BY <1>2, <1>3, SetLocal
<1>5. CASE obs.state = "none"
  <2>1. BootRow(t, j) = t \/ BootRow(t, j) = v
    BY <1>1, <1>3, <1>5 DEF BootRow
  <2> QED BY <1>4, <2>1
<1>6. CASE obs.state # "none"
  <2>1. PICK x \in Record: x = Expired(obs) /\ x.state \notin Ended
    BY <1>1, <1>6, ExpiredRow
  <2>2. PICK u: u = Recorded(t, j, x)
    OBVIOUS
  <2>3. TurnOK(p, u) /\ u.sc = t.sc
    BY <1>1, <1>2, <1>6, <2>1, <2>2, RecordedOK
  <2> DEFINE A == obs.state \in {"none", "completed", "failed"}
  <2> DEFINE B == \/ obs.state \in Final \ {"completed", "failed"}
                  \/ obs.state \in Live /\ obs.lease > clock
                  \/ obs.state = "queued" /\ j \in Commands
  <2> DEFINE a == IF Active(t.s, j) THEN v ELSE t
  <2>4. ~(A /\ B)
    BY DEF Live, Final
  <2>5. obs = t.s.rows[j] /\ x = Expired(t.s.rows[j])
    BY <1>1, <2>1
  <2>6. BootRow(t, j) = CASE A -> a [] B -> v [] OTHER -> u
    BY <1>3, <2>2, <2>5 DEF BootRow
  <2> HIDE DEF A, B
  <2>7. BootRow(t, j) \in {t, v, u}
    BY <2>4, <2>6
  <2> QED BY <1>4, <2>3, <2>7
<1> QED BY <1>5, <1>6

LEMMA BootRowsOK ==
  ASSUME NEW p \in Proc, NEW t, TurnOK(p, t), clock \in Nat, \A j \in Jobs: t.sc[j] = "none"
  PROVE  TurnOK(p, BootRows(t))
<1>1. PICK T: T = {u \in Turns: TurnOK(p, u) /\ u.sc = t.sc}
  OBVIOUS
<1>2. t \in T
  BY <1>1 DEF TurnOK
<1>3. \A u \in T, j \in Jobs: BootRow(u, j) \in T
  <2> SUFFICES ASSUME NEW u \in T, NEW j \in Jobs PROVE BootRow(u, j) \in T
    OBVIOUS
  <2>1. TurnOK(p, u) /\ u.sc = t.sc /\ u.sc[j] = "none"
    BY <1>1
  <2>2. PICK v: v = BootRow(u, j)
    OBVIOUS
  <2>3. TurnOK(p, v) /\ v.sc = u.sc
    BY <2>1, <2>2, BootRowOK
  <2>4. v \in Turns
    BY <2>3 DEF TurnOK
  <2> QED BY <1>1, <2>1, <2>2, <2>3, <2>4
<1>4. PICK f \in [Jobs \X T -> T]: \A u \in T, j \in Jobs: f[<<j, u>>] = BootRow(u, j)
  <2>1. PICK g: g = [x \in Jobs \X T |-> BootRow(x[2], x[1])]
    OBVIOUS
  <2>2. g \in [Jobs \X T -> T]
    BY <1>3, <2>1
  <2>3. \A u \in T, j \in Jobs: g[<<j, u>>] = BootRow(u, j)
    BY <2>1
  <2> QED BY <2>2, <2>3
<1>5. PICK h \in [SUBSET Jobs -> T]: Computes(h, Jobs, t, f) /\ h[Jobs] = BootRows(t)
  BY <1>2, <1>4, BootFold
<1> QED BY <1>1, <1>5

\* A runtime with nothing to stage begins its turn in order.
LEMMA TurnBegins ==
  ASSUME Inv, NEW p \in Proc, outbox[p] = <<>>
  PROVE  /\ TurnOK(p, Turn(p)) /\ clock \in Nat
         /\ Turn(p).s = journal /\ Turn(p).l = local[p] /\ Turn(p).sc = sched[p]
         /\ Turn(p).at = arg[p] /\ Turn(p).ab = aborted[p]
         /\ Turn(p).out = <<>> /\ Turn(p).thrown = FALSE
<1>0. clock \in Nat
  BY BoundsAssumption DEF Inv, Types
<1>1. PICK t: t = Turn(p)
  OBVIOUS
<1>2. /\ t.s = journal /\ t.l = local[p] /\ t.sc = sched[p] /\ t.at = arg[p]
      /\ t.ab = aborted[p] /\ t.out = <<>> /\ t.thrown = FALSE
  BY <1>1 DEF Turn
<1>3. t \in Turns
  <2>1. <<>> \in Seq(Event)
    OBVIOUS
  <2>2. /\ journal \in Journal /\ local[p] \in [Jobs -> Stored] /\ sched[p] \in [Jobs -> Places]
        /\ arg[p] \in [Jobs -> Nat] /\ aborted[p] \in SUBSET Jobs
    BY DEF Inv, Types, JournalInv
  <2> QED BY <1>1, <2>1, <2>2 DEF Turn, Turns
<1>4. Claims(journal)
  BY DEF Inv, Types, JournalInv
<1>5. ASSUME NEW j \in Jobs PROVE Sound(p, j, journal, local[p][j], sched[p][j])
  <2>1. ~Pending(p, j)
    BY DEF Pending
  <2>2. Stands(p, j)
    BY DEF Inv, Standing
  <2>3. /\ journal.rows[j].state # "none" => j \in used
        /\ ~journal.poisoned /\ sched[p][j] = "admitted" => starts[j] = 0
    BY DEF Inv, Started
  <2> QED BY <2>1, <2>2, <2>3 DEF Stands, Sound
<1>6. TurnOK(p, t)
  BY <1>2, <1>3, <1>4, <1>5 DEF TurnOK
<1> QED BY <1>0, <1>1, <1>2, <1>6

-----------------------------------------------------------------------------
(* The end of a turn. *)

\* What is left of TurnOK for the runtime, with U the jobs submitted.
Closes(p, t, U) ==
  /\ t \in Turns
  /\ \A j \in Jobs:
       /\ Placed(p, t.sc[j], t.l[j], journal.rows[j].owner)
       /\ Through(p, journal.rows[j], t.sc[j])
       /\ t.sc[j] = "run" => OnRecord(p, journal.acts[j], "run")
       /\ ~journal.poisoned /\ t.sc[j] \in Past => OnRecord(p, journal.acts[j], t.sc[j])
       /\ ~journal.poisoned /\ t.sc[j] = "admitted" => starts[j] = 0
  /\ \A i \in DOMAIN t.out:
       /\ t.out[i].kind \in {"intent", "heartbeat", "cancel"}
       /\ t.out[i].kind = "intent" =>
            /\ t.out[i].job \in U
            /\ t.out[i].row.state \in Ended =>
                 t.out[i].row.owner = p /\ t.sc[t.out[i].job] \in {"none", "reclaim"}

LEMMA TurnCloses ==
  ASSUME NEW p \in Proc, NEW t, TurnOK(p, t)
  PROVE  Closes(p, t, used)
BY DEF TurnOK, Closes, Sound, Announced

\* What the turn of p leaves alone of the others.
Aside(p) ==
  /\ UNCHANGED <<journal, clock>>
  /\ lock' = lock \/ (lock = Nobody /\ lock' = p) \/ (lock = p /\ lock' = Nobody)
  /\ used \subseteq used' /\ used' \in SUBSET Jobs
  /\ \A q \in Proc \ {p}:
       /\ status'[q] = status[q] /\ local'[q] = local[q] /\ sched'[q] = sched[q]
       /\ outbox'[q] = outbox[q]

LEMMA OthersStand ==
  ASSUME Inv, NEW p \in Proc, Aside(p), NEW q \in Proc, q # p
  PROVE  (\A j \in Jobs: Stands(q, j)') /\ MailOf(q)'
<1>1. /\ journal' = journal /\ sched'[q] = sched[q] /\ local'[q] = local[q] /\ outbox'[q] = outbox[q]
      /\ status'[q] = status[q] /\ used \subseteq used'
      /\ lock' = lock \/ (lock = Nobody /\ lock' = p) \/ (lock = p /\ lock' = Nobody)
  BY DEF Aside
<1>2. q # Nobody
  BY NobodyAssumption
<1>3. ASSUME NEW j \in Jobs PROVE Stands(q, j)'
  <2>1. Stands(q, j)
    BY DEF Inv, Standing
  <2>2. Pending(q, j)' <=> Pending(q, j)
    BY <1>1 DEF Pending
  <2> QED BY <1>1, <2>1, <2>2 DEF Stands
<1>4. MailOf(q)
  BY DEF Inv, Mail
<1>5. ASSUME NEW i \in DOMAIN outbox'[q] PROVE Outgoing(q, outbox[q][i])'
  <2>1. Outgoing(q, outbox[q][i])
    BY <1>1, <1>4 DEF MailOf
  <2>2. PICK e: e = outbox[q][i]
    OBVIOUS
  <2>3. e = outbox'[q][i] /\ Outgoing(q, e)
    BY <1>1, <2>1, <2>2
  <2>4. e.kind = "dispatch" => lock' = q
    BY <1>1, <1>2, <2>3 DEF Outgoing
  <2>5. Outgoing(q, e)'
    BY <1>1, <2>3, <2>4 DEF Outgoing, Running
  <2> QED BY <2>3, <2>5 DEF Outgoing, Running
<1>6. lock' = q => outbox'[q] # <<>>
  BY <1>1, <1>2, <1>4 DEF MailOf
<1>7. status'[q] = "off" => outbox'[q] = <<>> /\ \A j \in Jobs: sched'[q][j] = "none"
  BY <1>1, <1>4 DEF MailOf
<1> QED BY <1>3, <1>5, <1>6, <1>7 DEF MailOf

\* The variables after a turn.
LEMMA EndTypes ==
  ASSUME Inv, NEW p \in Proc, NEW t \in Turns, EndTurn(p, t), Aside(p),
         status' \in [Proc -> {"off", "up", "dead"}],
         timer' \in [Proc -> BOOLEAN], failed' \in [Proc -> SUBSET Jobs],
         starts' \in [Jobs -> Nat]
  PROVE  /\ Types' /\ journal' = journal
         /\ local'[p] = t.l /\ sched'[p] = t.sc /\ outbox'[p] = t.out
<1>0. /\ t \in Turns /\ t.l \in [Jobs -> Stored] /\ t.sc \in [Jobs -> Places]
      /\ t.at \in [Jobs -> Nat] /\ t.ab \in SUBSET Jobs /\ t.out \in Seq(Event)
  BY DEF Turns
<1>1. /\ local \in [Proc -> [Jobs -> Stored]] /\ sched \in [Proc -> [Jobs -> Places]]
      /\ arg \in [Proc -> [Jobs -> Nat]] /\ aborted \in [Proc -> SUBSET Jobs]
      /\ outbox \in [Proc -> Seq(Event)] /\ lock \in Proc \cup {Nobody}
      /\ JournalInv /\ clock \in 0..MaxTime
  BY DEF Inv, Types
<1>2. /\ local' = [local EXCEPT ![p] = t.l] /\ sched' = [sched EXCEPT ![p] = t.sc]
      /\ arg' = [arg EXCEPT ![p] = t.at] /\ aborted' = [aborted EXCEPT ![p] = t.ab]
      /\ outbox' = [outbox EXCEPT ![p] = t.out]
  BY DEF EndTurn
<1>3. local' \in [Proc -> [Jobs -> Stored]] /\ local'[p] = t.l
  BY <1>0, <1>1, <1>2
<1>4. sched' \in [Proc -> [Jobs -> Places]] /\ sched'[p] = t.sc
  BY <1>0, <1>1, <1>2
<1>5. arg' \in [Proc -> [Jobs -> Nat]]
  BY <1>0, <1>1, <1>2
<1>6. aborted' \in [Proc -> SUBSET Jobs]
  BY <1>0, <1>1, <1>2
<1>7. outbox' \in [Proc -> Seq(Event)] /\ outbox'[p] = t.out
  BY <1>0, <1>1, <1>2
<1>8. /\ journal' = journal /\ clock' = clock /\ lock' \in {lock, p, Nobody}
      /\ used' \in SUBSET Jobs
  BY DEF Aside
<1>9. JournalInv'
  BY <1>1, <1>8 DEF JournalInv, Claims
<1>10. Types'
  BY <1>1, <1>3, <1>4, <1>5, <1>6, <1>7, <1>8, <1>9 DEF Types
<1> QED BY <1>3, <1>4, <1>7, <1>8, <1>10

\* A turn that closes in order, whatever it counted as started.
LEMMA EndKeeps ==
  ASSUME Inv, NEW p \in Proc, NEW t, NEW U, Closes(p, t, U), used' = U, EndTurn(p, t), Aside(p),
         lock' = p => t.out # <<>>,
         status' \in [Proc -> {"off", "up", "dead"}], status'[p] # "off",
         timer' \in [Proc -> BOOLEAN], failed' \in [Proc -> SUBSET Jobs],
         starts' \in [Jobs -> Nat]
  PROVE  Types' /\ Standing' /\ Mail' /\ Room'
<1>0. /\ t \in Turns /\ Types' /\ journal' = journal
      /\ local'[p] = t.l /\ sched'[p] = t.sc /\ outbox'[p] = t.out
  <2>1. t \in Turns
    BY DEF Closes
  <2> QED BY <2>1, EndTypes
<1>11. ASSUME NEW j \in Jobs PROVE Stands(p, j)'
  BY <1>0 DEF Closes, Stands
<1>12. Standing'
  BY <1>11, OthersStand DEF Standing
<1>13. MailOf(p)'
  <2>1. ASSUME NEW i \in DOMAIN outbox'[p] PROVE Outgoing(p, outbox[p][i])'
    <3>1. PICK e: e = outbox'[p][i]
      OBVIOUS
    <3>2. /\ e.kind \in {"intent", "heartbeat", "cancel"}
          /\ e.kind = "intent" =>
               /\ e.job \in used'
               /\ e.row.state \in Ended => e.row.owner = p /\ sched'[p][e.job] \in {"none", "reclaim"}
      BY <1>0, <3>1 DEF Closes
    <3> QED BY <3>1, <3>2 DEF Outgoing
  <2> QED BY <1>0, <2>1 DEF MailOf
<1>14. Mail'
  BY <1>13, OthersStand DEF Mail
<1>15. Room'
  BY <1>0 DEF Inv, Room, Running
<1> QED BY <1>0, <1>12, <1>14, <1>15

\* One that starts no callback.
LEMMA EndOK ==
  ASSUME Inv, NEW p \in Proc, NEW t, NEW U, Closes(p, t, U), used' = U, EndTurn(p, t), Aside(p),
         lock' = p => t.out # <<>>,
         status' \in [Proc -> {"off", "up", "dead"}], status'[p] # "off",
         timer' \in [Proc -> BOOLEAN], failed' \in [Proc -> SUBSET Jobs], starts' = starts
  PROVE  Inv'
<1>1. starts' \in [Jobs -> Nat] /\ sched \in [Proc -> [Jobs -> Places]]
  BY DEF Inv, Types
<1>2. Types' /\ Standing' /\ Mail' /\ Room'
  BY <1>1, EndKeeps
<1>3. /\ journal' = journal /\ used \subseteq used' /\ sched'[p] = t.sc
      /\ \A q \in Proc \ {p}: sched'[q] = sched[q]
  BY <1>1 DEF Aside, EndTurn
<1>4. ASSUME NEW j \in Jobs, ~journal.poisoned, NEW q \in Proc, sched'[q][j] = "admitted"
      PROVE  starts[j] = 0
  BY <1>3, <1>4 DEF Closes, Inv, Started
<1>5. Started'
  BY <1>3, <1>4 DEF Inv, Started
<1> QED BY <1>2, <1>5 DEF Inv

\* EndTurn changes the runtime's own variables only.
LEMMA EndAside ==
  ASSUME Inv, NEW p \in Proc, NEW t, EndTurn(p, t),
         NEW q \in Proc, q # p
  PROVE  local'[q] = local[q] /\ sched'[q] = sched[q] /\ outbox'[q] = outbox[q]
BY DEF EndTurn, Inv, Types

\* A turn of an idle runtime that takes no lock.
LEMMA PlainEnd ==
  ASSUME Inv, NEW p \in Proc, Ready(p), NEW t, TurnOK(p, t), EndTurn(p, t),
         UNCHANGED <<journal, clock, lock, status, used, starts>>,
         timer' \in [Proc -> BOOLEAN], failed' \in [Proc -> SUBSET Jobs]
  PROVE  Inv'
<1>1. Aside(p)
  BY EndAside DEF Aside, Inv, Types
<1>2. lock' # p
  BY DEF Inv, Mail, MailOf, Ready
<1>3. status' \in [Proc -> {"off", "up", "dead"}] /\ status'[p] # "off"
  BY DEF Inv, Types, Ready
<1>4. Closes(p, t, used)
  BY TurnCloses
<1> QED BY <1>1, <1>2, <1>3, <1>4, EndOK

LEMMA StatusKeeps ==
  ASSUME Inv, NEW p \in Proc, Status(p)
  PROVE  Inv'
<1>0. Ready(p) /\ outbox[p] = <<>>
  BY DEF Status, Ready
<1>1. PICK a: a = Turn(p)
  OBVIOUS
<1>2. TurnOK(p, a) /\ clock \in Nat
  BY <1>0, <1>1, TurnBegins
<1>3. PICK t: t = Refresh(a)
  OBVIOUS
<1>4. TurnOK(p, t)
  BY <1>2, <1>3, RefreshOK
<1>5. /\ EndTurn(p, t) /\ UNCHANGED <<journal, clock, lock, status, used, starts>>
      /\ UNCHANGED <<timer, failed>>
  BY <1>1, <1>3 DEF Status
<1>6. timer' \in [Proc -> BOOLEAN] /\ failed' \in [Proc -> SUBSET Jobs]
  BY <1>5 DEF Inv, Types
<1> QED BY <1>0, <1>4, <1>5, <1>6, PlainEnd

LEMMA BootKeeps ==
  ASSUME Inv, NEW p \in Proc, Boot(p)
  PROVE  Inv'
<1>0. status[p] = "off" /\ outbox[p] = <<>> /\ (\A j \in Jobs: sched[p][j] = "none") /\ lock # p
  BY DEF Boot, Inv, Mail, MailOf
<1>1. PICK a: a = Turn(p)
  OBVIOUS
<1>2. TurnOK(p, a) /\ clock \in Nat /\ a.sc = sched[p]
  BY <1>0, <1>1, TurnBegins
<1>3. PICK t: t = BootRows(a)
  OBVIOUS
<1>4. TurnOK(p, t)
  BY <1>0, <1>2, <1>3, BootRowsOK
<1>5. Closes(p, t, used)
  BY <1>4, TurnCloses
<1>6. /\ EndTurn(p, t) /\ UNCHANGED <<journal, clock, lock, failed, used, starts>>
      /\ status' = [status EXCEPT ![p] = "up"] /\ timer' = [timer EXCEPT ![p] = TRUE]
  BY <1>1, <1>3 DEF Boot
<1>7. status' \in [Proc -> {"off", "up", "dead"}] /\ status'[p] # "off"
      /\ \A q \in Proc \ {p}: status'[q] = status[q]
  BY <1>6 DEF Inv, Types
<1>8. timer' \in [Proc -> BOOLEAN] /\ failed' \in [Proc -> SUBSET Jobs]
  BY <1>6 DEF Inv, Types
<1>9. Aside(p)
  BY <1>6, <1>7, EndAside DEF Aside, Inv, Types
<1> QED BY <1>0, <1>5, <1>6, <1>7, <1>8, <1>9, EndOK

\* A job that is nowhere begins to wait for a takeover.
LEMMA ReclaimOK ==
  ASSUME NEW p \in Proc, NEW t, TurnOK(p, t), NEW j \in Jobs, t.sc[j] = "none", clock \in Nat
  PROVE  TurnOK(p, [t EXCEPT !.sc[j] = "reclaim", !.at[j] = clock])
<1>0. t \in Turns /\ Sound(p, j, t.s, t.l[j], t.sc[j])
  BY DEF TurnOK
<1>1. PICK u: u = [t EXCEPT !.sc[j] = "reclaim", !.at[j] = clock]
  OBVIOUS
<1>2. PICK w \in Places: w = "reclaim"
  BY DEF Places
<1>3. /\ u \in Turns /\ u.s = t.s /\ u.l = t.l /\ u.out = t.out /\ u.sc[j] = "reclaim"
      /\ \A k \in Jobs \ {j}: u.sc[k] = t.sc[k]
  BY <1>0, <1>1, <1>2 DEF Turns
<1>4. Sound(p, j, t.s, t.l[j], "reclaim")
  BY <1>0 DEF Sound, Placed, Through, Past, Scheduled, Tokens
<1>5. TurnOK(p, u)
  BY <1>3, <1>4, OneJob
<1> QED BY <1>1, <1>5

\* The rows a runtime gives up when its heartbeat throws.
LEMMA HeldOK ==
  ASSUME NEW p \in Proc, NEW t, TurnOK(p, t)
  PROVE  TurnOK(p, [t EXCEPT !.l = [j \in Jobs |->
                      IF t.l[j].owner = p /\ t.l[j].state = "running"
                      THEN [t.l[j] EXCEPT !.state = "reconciliation-required"] ELSE t.l[j]]])
<1>0. t \in Turns /\ t.l \in [Jobs -> Stored]
  BY DEF TurnOK, Turns
<1> DEFINE new(j) == IF t.l[j].owner = p /\ t.l[j].state = "running"
                     THEN [t.l[j] EXCEPT !.state = "reconciliation-required"] ELSE t.l[j]
<1>1. ASSUME NEW j \in Jobs
      PROVE  /\ new(j) \in Stored /\ new(j).owner = t.l[j].owner
             /\ t.l[j].state # "none" => new(j).state # "none"
  <2>1. CASE t.l[j].owner = p /\ t.l[j].state = "running"
    <3>1. t.l[j] \in Record
      BY <1>0, <2>1 DEF Stored, NoRow
    <3>2. new(j) = [t.l[j] EXCEPT !.state = "reconciliation-required"]
      BY <2>1
    <3> HIDE DEF new
    <3> QED BY <3>1, <3>2 DEF Record, Stored, Final
  <2>2. CASE ~(t.l[j].owner = p /\ t.l[j].state = "running")
    BY <1>0, <2>2
  <2> QED BY <2>1, <2>2
<1>2. PICK q: q = [j \in Jobs |-> new(j)]
  OBVIOUS
<1>3. PICK u: u = [t EXCEPT !.l = q]
  OBVIOUS
<1>4. u = [t EXCEPT !.l = [j \in Jobs |-> new(j)]]
  BY <1>2, <1>3
<1> HIDE DEF new
<1>5. /\ q \in [Jobs -> Stored]
      /\ \A j \in Jobs: /\ q[j].owner = t.l[j].owner
                        /\ t.l[j].state # "none" => q[j].state # "none"
  BY <1>1, <1>2
<1>6. /\ u \in Turns /\ u.s = t.s /\ u.l = q /\ u.sc = t.sc /\ u.out = t.out
  BY <1>0, <1>3, <1>5 DEF Turns
<1>7. TurnOK(p, u)
  BY <1>5, <1>6 DEF TurnOK, Sound, Placed
<1> QED BY <1>4, <1>7 DEF new

LEMMA HeartbeatKeeps ==
  ASSUME Inv, NEW p \in Proc, Heartbeat(p)
  PROVE  Inv'
<1>0. Ready(p) /\ outbox[p] = <<>>
  BY DEF Heartbeat, Ready
<1>1. PICK a: a = Turn(p)
  OBVIOUS
<1>2. TurnOK(p, a) /\ clock \in Nat
  BY <1>0, <1>1, TurnBegins
<1>3. PICK b: b = Refresh(a)
  OBVIOUS
<1>4. TurnOK(p, b)
  BY <1>2, <1>3, RefreshOK
<1>5. PICK c: c = Renew(p, b)
  OBVIOUS
<1>6. TurnOK(p, c)
  BY <1>2, <1>4, <1>5, RenewOK
<1>7. PICK t: t = Drain(c)
  OBVIOUS
<1>8. TurnOK(p, t)
  BY <1>2, <1>6, <1>7, DrainOK
<1>9. PICK r: r = Refresh(t)
  OBVIOUS
<1>10. TurnOK(p, r)
  BY <1>2, <1>8, <1>9, RefreshOK
<1>11. PICK h: h = [t EXCEPT !.l = [j \in Jobs |->
                IF t.l[j].owner = p /\ t.l[j].state = "running"
                THEN [t.l[j] EXCEPT !.state = "reconciliation-required"] ELSE t.l[j]]]
  OBVIOUS
<1>12. TurnOK(p, h)
  BY <1>8, <1>11, HeldOK
<1>13. t = Drain(Renew(p, Refresh(Turn(p))))
  BY <1>1, <1>3, <1>5, <1>7
<1>14. /\ UNCHANGED <<journal, clock, lock, status, used, starts>> /\ UNCHANGED failed
       /\ timer' = timer \/ timer' = [timer EXCEPT ![p] = FALSE]
       /\ \/ EndTurn(p, h)
          \/ EndTurn(p, r)
          \/ \E j \in Recoverable(r): EndTurn(p, [r EXCEPT !.sc[j] = "reclaim", !.at[j] = clock])
  <2>1. UNCHANGED <<journal, clock, lock, status, failed, used, starts>>
    BY DEF Heartbeat
  <2>2. timer' = timer \/ timer' = [timer EXCEPT ![p] = FALSE]
    BY DEF Heartbeat
  <2>3. \/ EndTurn(p, h)
        \/ EndTurn(p, r)
        \/ \E j \in Recoverable(r): EndTurn(p, [r EXCEPT !.sc[j] = "reclaim", !.at[j] = clock])
    BY <1>9, <1>11, <1>13, Zenon DEF Heartbeat
  <2> QED BY <2>1, <2>2, <2>3
<1>15. timer' \in [Proc -> BOOLEAN] /\ failed' \in [Proc -> SUBSET Jobs]
  BY <1>14 DEF Inv, Types
<1>16. CASE EndTurn(p, h)
  BY <1>0, <1>12, <1>14, <1>15, <1>16, PlainEnd
<1>17. CASE EndTurn(p, r)
  BY <1>0, <1>10, <1>14, <1>15, <1>17, PlainEnd
<1>18. ASSUME NEW j \in Recoverable(r), EndTurn(p, [r EXCEPT !.sc[j] = "reclaim", !.at[j] = clock])
       PROVE  Inv'
  <2>1. j \in Jobs /\ r.sc[j] = "none"
    BY CommandsAssumption DEF Recoverable
  <2>2. PICK u: u = [r EXCEPT !.sc[j] = "reclaim", !.at[j] = clock]
    OBVIOUS
  <2>3. TurnOK(p, u)
    BY <1>2, <1>10, <2>1, <2>2, ReclaimOK
  <2> QED BY <1>0, <1>14, <1>15, <1>18, <2>2, <2>3, PlainEnd
<1> QED BY <1>14, <1>16, <1>17, <1>18

\* A turn stays closed when more jobs are submitted.
LEMMA ClosesMore ==
  ASSUME NEW p \in Proc, NEW t, NEW U, NEW V, U \subseteq V, Closes(p, t, U)
  PROVE  Closes(p, t, V)
BY DEF Closes

\* The turn of a submission: the row is kept and staged, and the job placed.
Queued(t, j, row, e, w, at) == [Emit([t EXCEPT !.l[j] = row], e) EXCEPT !.sc[j] = w, !.at = at]

\* The new row is queued, under a name nobody used before.
LEMMA SubmitCloses ==
  ASSUME NEW p \in Proc, NEW j \in Jobs, j \notin used, journal.rows[j].state = "none",
         NEW t, TurnOK(p, t), NEW row \in Record, row.owner = p, row.state = "queued",
         NEW e \in Event, e.kind = "intent", e.job = j, e.row = row,
         NEW w \in {"admit", "queued"}, NEW at \in [Jobs -> Nat],
         NEW u, u = Queued(t, j, row, e, w, at)
  PROVE  Closes(p, u, used \cup {j})
<1>0. t \in Turns /\ t.s \in Journal /\ Claims(t.s) /\ t.out \in Seq(Event)
  BY DEF TurnOK, Turns
<1>1. PICK v \in Journal: v = Fold(t.s, e)
  BY <1>0, FoldStep DEF Step
<1>2. PICK o \in Seq(Event): o = Append(t.out, e)
  <2>1. Append(t.out, e) \in Seq(Event)
    BY <1>0
  <2> QED BY <2>1
<1>4. row \in Stored /\ w \in Places
  BY DEF Stored, Places, Scheduled, Tokens
<1>5. t.l \in [Jobs -> Stored] /\ t.sc \in [Jobs -> Places]
  BY <1>0 DEF Turns
<1>6. PICK l \in [Jobs -> Stored]: l = [t.l EXCEPT ![j] = row]
  BY <1>4, <1>5
<1>7. PICK c \in [Jobs -> Places]: c = [t.sc EXCEPT ![j] = w]
  BY <1>4, <1>5
<1>8. /\ u \in Turns /\ u.out = o /\ u.sc = c /\ u.l = l
  <2>1. PICK m: m = Emit([t EXCEPT !.l[j] = row], e)
    OBVIOUS
  <2>2. m = [t EXCEPT !.l = l, !.out = o, !.s = v]
    BY <1>0, <1>1, <1>2, <1>6, <2>1 DEF Emit, Turns
  <2>3. m \in Turns /\ m.s = v /\ m.out = o /\ m.sc = t.sc /\ m.l = l
    BY <1>0, <2>2 DEF Turns
  <2>4. u = [m EXCEPT !.sc = c, !.at = at]
    BY <1>7, <2>1, <2>3 DEF Queued
  <2> QED BY <2>3, <2>4 DEF Turns
<1>9. l[j] = row /\ \A k \in Jobs \ {j}: l[k] = t.l[k]
  BY <1>5, <1>6
<1>10. c[j] = w /\ \A k \in Jobs \ {j}: c[k] = t.sc[k]
  BY <1>5, <1>7
<1>11. ASSUME NEW k \in Jobs
       PROVE  /\ Placed(p, u.sc[k], u.l[k], journal.rows[k].owner)
              /\ Through(p, journal.rows[k], u.sc[k])
              /\ u.sc[k] = "run" => OnRecord(p, journal.acts[k], "run")
              /\ ~journal.poisoned /\ u.sc[k] \in Past => OnRecord(p, journal.acts[k], u.sc[k])
              /\ ~journal.poisoned /\ u.sc[k] = "admitted" => starts[k] = 0
  <2>1. CASE k = j
    BY <1>8, <1>9, <1>10, <2>1 DEF Placed, Through, Past, Ended
  <2>2. CASE k # j
    <3>1. u.l[k] = t.l[k] /\ u.sc[k] = t.sc[k]
      BY <1>8, <1>9, <1>10, <2>2
    <3>2. Sound(p, k, t.s, t.l[k], t.sc[k])
      BY DEF TurnOK
    <3> QED BY <3>1, <3>2 DEF Sound
  <2> QED BY <2>1, <2>2
<1>12. ASSUME NEW i \in DOMAIN u.out
       PROVE  /\ u.out[i].kind \in {"intent", "heartbeat", "cancel"}
              /\ u.out[i].kind = "intent" =>
                   /\ u.out[i].job \in used \cup {j}
                   /\ u.out[i].row.state \in Ended =>
                        u.out[i].row.owner = p /\ u.sc[u.out[i].job] \in {"none", "reclaim"}
  <2>1. CASE i \in DOMAIN t.out
    <3>0. t.out[i] \in Event /\ o[i] = t.out[i]
      BY <1>0, <1>2, <2>1
    <3>1. u.out[i] = t.out[i] /\ t.out[i] \in Event
      BY <1>8, <3>0
    <3>2. Announced(p, t.out[i], t.sc)
      BY <2>1 DEF TurnOK
    <3>3. t.out[i].kind = "intent" => t.out[i].job \in Jobs \ {j}
      BY <3>1, <3>2 DEF Announced, Event
    <3>4. t.out[i].kind = "intent" => u.sc[t.out[i].job] = t.sc[t.out[i].job]
      BY <1>8, <1>10, <3>3
    <3> QED BY <3>1, <3>2, <3>4 DEF Announced
  <2>2. CASE i \notin DOMAIN t.out
    <3>1. u.out[i] = e
      BY <1>0, <1>2, <1>8, <2>2
    <3> QED BY <3>1 DEF Ended
  <2> QED BY <2>1, <2>2
<1> QED BY <1>8, <1>11, <1>12 DEF Closes

LEMMA SubmitKeeps ==
  ASSUME Inv, NEW p \in Proc, NEW j \in Jobs, Submit(p, j)
  PROVE  Inv'
<1>0. Ready(p) /\ outbox[p] = <<>> /\ j \notin used /\ journal.rows[j].state = "none"
  BY DEF Submit, Ready, Inv, Started
<1>1. PICK a: a = Turn(p)
  OBVIOUS
<1>2. TurnOK(p, a) /\ clock \in Nat
  BY <1>0, <1>1, TurnBegins
<1>3. PICK t: t = Refresh(a)
  OBVIOUS
<1>4. TurnOK(p, t) /\ t \in Turns
  BY <1>2, <1>3, RefreshOK DEF TurnOK
<1>5. PICK U: U = used \cup {j}
  OBVIOUS
<1>6. PICK row: row = RowOf("queued", p, clock, clock + Lease)
  OBVIOUS
<1>7. row \in Record /\ row.owner = p /\ row.state = "queued"
  BY <1>2, <1>6, BoundsAssumption DEF RowOf, Record, Live
<1>8. PICK e: e = EventOf("intent", j, p, row)
  OBVIOUS
<1>9. e \in Event /\ e.kind = "intent" /\ e.job = j /\ e.row = row
  BY <1>7, <1>8 DEF EventOf, Event
<1>10. PICK kept: kept = Emit([t EXCEPT !.l[j] = row], e)
  OBVIOUS
<1>11. PICK x: x = [kept EXCEPT !.sc[j] = "admit", !.at[j] = clock]
  OBVIOUS
<1>12. PICK y: y = [kept EXCEPT !.sc[j] = "queued"]
  OBVIOUS
<1>13. /\ used' = U /\ timer' = [timer EXCEPT ![p] = @ \/ ~t.thrown]
       /\ UNCHANGED <<journal, clock, lock, status, failed, starts>>
       /\ (t.thrown /\ EndTurn(p, t)) \/ EndTurn(p, x) \/ EndTurn(p, y)
  <2>1. t = Refresh(Turn(p))
    BY <1>1, <1>3
  <2>2. used' = U /\ timer' = [timer EXCEPT ![p] = @ \/ ~t.thrown]
    BY <1>5, <2>1 DEF Submit
  <2>3. UNCHANGED <<journal, clock, lock, status, failed, starts>>
    BY DEF Submit
  <2>4. EndTurn(p, IF t.thrown THEN t
                   ELSE IF Fits(Cardinality(RunningEntries(t))) THEN x ELSE y)
    BY <1>6, <1>8, <1>10, <1>11, <1>12, <2>1, Zenon DEF Submit
  <2> QED BY <2>2, <2>3, <2>4
<1>14. kept.at = t.at /\ kept.sc = t.sc /\ kept = [kept EXCEPT !.at = kept.at]
  BY <1>4, <1>10 DEF Emit, Turns
<1>15. t.at \in [Jobs -> Nat] /\ [t.at EXCEPT ![j] = clock] \in [Jobs -> Nat]
  BY <1>2, <1>4 DEF Turns
<1>16. Closes(p, x, U)
  <2>1. PICK at \in [Jobs -> Nat]: at = [t.at EXCEPT ![j] = clock]
    BY <1>15
  <2>2. PICK w \in {"admit", "queued"}: w = "admit"
    OBVIOUS
  <2>3. x = Queued(t, j, row, e, w, at)
    BY <1>10, <1>11, <1>14, <2>1, <2>2 DEF Queued
  <2>4. Closes(p, x, used \cup {j})
    BY <1>0, <1>4, <1>7, <1>9, <2>3, SubmitCloses
  <2> QED BY <1>5, <2>4
<1>17. Closes(p, y, U)
  <2>1. PICK at \in [Jobs -> Nat]: at = t.at
    BY <1>15
  <2>2. PICK w \in {"admit", "queued"}: w = "queued"
    OBVIOUS
  <2>3. y = [kept EXCEPT !.sc[j] = w, !.at = at]
    BY <1>4, <1>10, <1>12, <2>1, <2>2 DEF Emit, Turns
  <2>4. y = Queued(t, j, row, e, w, at)
    BY <1>10, <2>3 DEF Queued
  <2>5. Closes(p, y, used \cup {j})
    BY <1>0, <1>4, <1>7, <1>9, <2>4, SubmitCloses
  <2> QED BY <1>5, <2>5
<1>18. Closes(p, t, U)
  <2>1. PICK V: V = used
    OBVIOUS
  <2>2. Closes(p, t, V) /\ V \subseteq U
    BY <1>4, <1>5, <2>1, TurnCloses
  <2> QED BY <2>2, ClosesMore
<1>19. /\ status' \in [Proc -> {"off", "up", "dead"}] /\ status'[p] # "off"
       /\ timer' \in [Proc -> BOOLEAN] /\ failed' \in [Proc -> SUBSET Jobs]
  <2>1. t.thrown \in BOOLEAN
    BY <1>4 DEF Turns
  <2> QED BY <1>0, <1>13, <2>1 DEF Inv, Types, Ready
<1>20. ASSUME NEW z, EndTurn(p, z) PROVE Aside(p)
  BY <1>5, <1>13, <1>20, EndAside DEF Aside, Inv, Types
<1>21. lock' # p
  BY <1>0, <1>13 DEF Inv, Mail, MailOf
<1>22. CASE EndTurn(p, t)
  BY <1>13, <1>18, <1>19, <1>20, <1>21, <1>22, EndOK
<1>23. CASE EndTurn(p, x)
  BY <1>13, <1>16, <1>19, <1>20, <1>21, <1>23, EndOK
<1>24. CASE EndTurn(p, y)
  BY <1>13, <1>17, <1>19, <1>20, <1>21, <1>24, EndOK
<1> QED BY <1>13, <1>22, <1>23, <1>24

\* A turn with the place of one job set, and with its row and time too.
Place(t, j, w) == [t EXCEPT !.sc[j] = w]
Replace(t, j, row, w, n, A) == [t EXCEPT !.l[j] = row, !.sc[j] = w, !.at[j] = n, !.ab = A]

LEMMA JobFields ==
  ASSUME NEW t \in Turns, NEW j \in Jobs, NEW row \in Stored, NEW w \in Places, NEW n \in Nat,
         NEW A \in SUBSET Jobs,
         NEW u, u = Replace(t, j, row, w, n, A)
  PROVE  /\ u \in Turns /\ u.s = t.s /\ u.out = t.out /\ u.thrown = t.thrown /\ u.ab = A
         /\ u.l[j] = row /\ u.sc[j] = w
         /\ \A k \in Jobs \ {j}: u.l[k] = t.l[k] /\ u.sc[k] = t.sc[k]
<1>0. t.l \in [Jobs -> Stored] /\ t.sc \in [Jobs -> Places] /\ t.at \in [Jobs -> Nat]
  BY DEF Turns
<1>1. PICK l \in [Jobs -> Stored]: l = [t.l EXCEPT ![j] = row]
  BY <1>0
<1>2. PICK c \in [Jobs -> Places]: c = [t.sc EXCEPT ![j] = w]
  BY <1>0
<1>3. PICK a \in [Jobs -> Nat]: a = [t.at EXCEPT ![j] = n]
  BY <1>0
<1>4. u = [t EXCEPT !.l = l, !.sc = c, !.at = a, !.ab = A]
  BY <1>1, <1>2, <1>3 DEF Turns, Replace
<1>5. /\ u \in Turns /\ u.s = t.s /\ u.out = t.out /\ u.thrown = t.thrown /\ u.ab = A
      /\ u.l = l /\ u.sc = c
  BY <1>4 DEF Turns
<1>6. l[j] = row /\ \A k \in Jobs \ {j}: l[k] = t.l[k]
  BY <1>0, <1>1
<1>7. c[j] = w /\ \A k \in Jobs \ {j}: c[k] = t.sc[k]
  BY <1>0, <1>2
<1> QED BY <1>5, <1>6, <1>7

LEMMA PlaceFields ==
  ASSUME NEW t \in Turns, NEW j \in Jobs, NEW w \in Places, NEW u, u = Place(t, j, w)
  PROVE  /\ u \in Turns /\ u.s = t.s /\ u.l = t.l /\ u.at = t.at /\ u.out = t.out
         /\ u.thrown = t.thrown /\ u.ab = t.ab /\ u.sc[j] = w
         /\ \A k \in Jobs \ {j}: u.sc[k] = t.sc[k]
<1>0. t.sc \in [Jobs -> Places]
  BY DEF Turns
<1>1. PICK c \in [Jobs -> Places]: c = [t.sc EXCEPT ![j] = w]
  BY <1>0
<1>2. u = [t EXCEPT !.sc = c]
  BY <1>1 DEF Turns, Place
<1>3. /\ u \in Turns /\ u.s = t.s /\ u.l = t.l /\ u.at = t.at /\ u.out = t.out
      /\ u.thrown = t.thrown /\ u.ab = t.ab /\ u.sc = c
  BY <1>2 DEF Turns
<1>4. c[j] = w /\ \A k \in Jobs \ {j}: c[k] = t.sc[k]
  BY <1>0, <1>1
<1> QED BY <1>3, <1>4

\* Only one runtime has a job between its dispatch and its end.
LEMMA SoleClaim ==
  ASSUME Inv, ~journal.poisoned, NEW p \in Proc, NEW q \in Proc, q # p, NEW j \in Jobs,
         OnRecord(p, journal.acts[j], "run")
  PROVE  sched[q][j] # "admitted"
<1> SUFFICES ASSUME sched[q][j] = "admitted" PROVE FALSE
  OBVIOUS
<1>1. Stands(q, j)
  BY DEF Inv, Standing
<1>2. CASE ~Pending(q, j)
  BY <1>1, <1>2 DEF Stands, Past, OnRecord
<1>3. CASE Pending(q, j)
  <2>1. PICK i \in DOMAIN outbox[q]: outbox[q][i].kind = "dispatch" /\ outbox[q][i].job = j
    BY <1>3 DEF Pending
  <2>2. Outgoing(q, outbox[q][i])
    BY DEF Inv, Mail, MailOf
  <2> QED BY <2>1, <2>2 DEF Outgoing, OnRecord
<1> QED BY <1>2, <1>3

\* A callback about to be invoked is on record and was not invoked before.
LEMMA ExecuteKeeps ==
  ASSUME Inv, NEW p \in Proc, NEW j \in Jobs, Execute(p, j)
  PROVE  /\ Inv' /\ status[p] = "up" /\ UNCHANGED <<journal, status, starts>>
         /\ \A q \in Proc \ {p}: sched'[q] = sched[q]
         /\ \/ starting' = [starting EXCEPT ![p] = {}]
            \/ /\ starting' = [starting EXCEPT ![p] = {j}]
               /\ sched'[p][j] = "run" /\ starts[j] = 0
<1>0. Ready(p) /\ outbox[p] = <<>> /\ sched[p][j] = "admitted" /\ status[p] = "up"
  BY DEF Execute, Ready
<1>1. PICK a: a = Turn(p)
  OBVIOUS
<1>2. /\ TurnOK(p, a) /\ clock \in Nat /\ a \in Turns /\ a.s = journal /\ a.sc[j] = "admitted"
      /\ a.l[j] = local[p][j] /\ a.out = <<>>
  BY <1>0, <1>1, TurnBegins DEF TurnOK
<1>3. Sound(p, j, a.s, a.l[j], "admitted")
  BY <1>2 DEF TurnOK
<1>4. PICK r \in Record: r = a.l[j] /\ r.owner = p
  <2>1. a.l[j] \in Stored /\ a.l[j].state # "none" /\ a.l[j].owner = p
    BY <1>2, <1>3 DEF Turns, Sound, Placed, Scheduled, Tokens
  <2> QED BY <2>1 DEF Stored, NoRow
<1>5. PICK now \in Nat: now = arg[p][j] /\ now + Lease \in Nat
  BY BoundsAssumption DEF Inv, Types
<1>6. PICK x: x = [r EXCEPT !.state = "running", !.updated = now, !.lease = now + Lease]
  OBVIOUS
<1>7. x \in Record /\ x.owner = p /\ x.state = "running" /\ x \in Stored
  BY <1>4, <1>5, <1>6 DEF Record, Live, Stored
<1>8. PICK A \in SUBSET Jobs: A = a.ab \ {j}
  BY <1>2 DEF Turns
<1>9. PICK b: b = [Turn(p) EXCEPT !.sc[j] = "run", !.at[j] = 0, !.ab = @ \ {j},
                     !.l[j].state = "running", !.l[j].updated = now, !.l[j].lease = now + Lease]
  OBVIOUS
<1>10. /\ b \in Turns /\ b.s = a.s /\ b.out = a.out /\ b.thrown = a.thrown
       /\ b.l[j] = x /\ b.sc[j] = "run"
       /\ \A k \in Jobs \ {j}: b.l[k] = a.l[k] /\ b.sc[k] = a.sc[k]
  <2>1. PICK w \in Places: w = "run"
    BY DEF Places, Scheduled, Tokens
  <2>2. PICK n \in Nat: n = 0
    OBVIOUS
  <2>3. b = Replace(a, j, x, w, n, A)
    <3>0. a.l \in [Jobs -> Stored]
      BY <1>2 DEF Turns
    <3>1. PICK y: y = [a.l EXCEPT ![j].state = "running", ![j].updated = now, ![j].lease = now + Lease]
      OBVIOUS
    <3>2. y = [a.l EXCEPT ![j] = x]
      BY <1>4, <1>6, <3>0, <3>1
    <3>3. b = [a EXCEPT !.l = y, !.sc[j] = w, !.at[j] = n, !.ab = A]
      <4>0. PICK c: c = [a EXCEPT !.sc[j] = w, !.at[j] = n, !.ab = A]
        OBVIOUS
      <4>1. a \in Turns
        BY <1>2
      <4>2. b = [c EXCEPT !.l[j].state = "running", !.l[j].updated = now, !.l[j].lease = now + Lease]
        BY <1>1, <1>8, <1>9, <2>1, <2>2, <4>0, <4>1 DEF Turns
      <4>3. c.l = a.l /\ DOMAIN c = DOMAIN a /\ "l" \in DOMAIN c
        BY <4>0, <4>1 DEF Turns
      <4>4. b = [c EXCEPT !.l = y]
        BY <3>1, <4>2, <4>3
      <4> QED BY <4>0, <4>1, <4>4 DEF Turns
    <3>4. Replace(a, j, x, w, n, A) = [a EXCEPT !.l = y, !.sc[j] = w, !.at[j] = n, !.ab = A]
      BY <1>2, <3>2 DEF Replace, Turns
    <3> QED BY <3>3, <3>4
  <2>4. /\ b \in Turns /\ b.s = a.s /\ b.out = a.out /\ b.thrown = a.thrown
        /\ b.l[j] = x /\ b.sc[j] = w
        /\ \A k \in Jobs \ {j}: b.l[k] = a.l[k] /\ b.sc[k] = a.sc[k]
    BY <1>2, <1>7, <2>3, JobFields
  <2> QED BY <2>1, <2>4
<1>11. PICK t: t = Refresh(b)
  OBVIOUS
<1>12. PICK u: u = [t EXCEPT !.sc[j] = "settle"]
  OBVIOUS
<1>13. PICK w \in Places: w = "settle" /\ u = Place(t, j, w)
  BY <1>12 DEF Places, Scheduled, Tokens, Place
<1> DEFINE go == ~t.thrown /\ j \notin t.ab
<1>14. /\ UNCHANGED <<journal, clock, lock, status, timer, used, starts>>
       /\ EndTurn(p, IF go THEN t ELSE u)
       /\ failed' = [failed EXCEPT ![p] = IF go THEN @ \ {j} ELSE @ \cup {j}]
       /\ starting' = [starting EXCEPT ![p] = IF go THEN {j} ELSE {}]
  BY <1>5, <1>9, <1>11, <1>12, Zenon DEF Execute
<1> HIDE DEF go
<1>15. timer' \in [Proc -> BOOLEAN] /\ failed' \in [Proc -> SUBSET Jobs]
  BY <1>14 DEF Inv, Types
<1>16. \A q \in Proc \ {p}: sched'[q] = sched[q]
  BY <1>14, EndAside
<1>17. CASE journal.poisoned
  <2>1. t = [b EXCEPT !.thrown = TRUE]
    BY <1>2, <1>10, <1>11, <1>17 DEF Refresh
  <2>2. t \in Turns /\ t.s = b.s /\ t.out = b.out /\ t.l = b.l /\ t.sc = b.sc /\ t.thrown
    BY <1>10, <2>1 DEF Turns
  <2>3. /\ u \in Turns /\ u.s = t.s /\ u.l = t.l /\ u.out = t.out /\ u.sc[j] = w
        /\ \A k \in Jobs \ {j}: u.sc[k] = t.sc[k]
    BY <1>13, <2>2, PlaceFields
  <2>4. Sound(p, j, a.s, u.l[j], u.sc[j])
    BY <1>3, <1>7, <1>10, <1>13, <1>17, <2>2, <2>3 DEF Sound, Placed, Through
  <2>5. TurnOK(p, u)
    BY <1>2, <1>10, <2>2, <2>3, <2>4, OneJob
  <2>6. EndTurn(p, u) /\ starting' = [starting EXCEPT ![p] = {}]
    BY <1>14, <2>2 DEF go
  <2>7. Inv'
    BY <1>0, <1>14, <1>15, <2>5, <2>6, PlainEnd
  <2> QED BY <1>0, <1>14, <1>16, <2>6, <2>7
<1>18. CASE ~journal.poisoned
  <2>1. OnRecord(p, journal.acts[j], "run") /\ starts[j] = 0
    BY <1>3, <1>18 DEF Sound, Past, OnRecord
  <2>2. Sound(p, j, a.s, b.l[j], b.sc[j])
    BY <1>3, <1>7, <1>10, <2>1 DEF Sound, Placed, Through
  <2>3. TurnOK(p, b)
    BY <1>2, <1>10, <2>2, OneJob
  <2>4. TurnOK(p, t) /\ t.sc[j] = "run" /\ t \in Turns
    BY <1>2, <1>10, <1>11, <2>3, RefreshOK DEF Frame, TurnOK
  <2>5. CASE go
    <3>1. EndTurn(p, t) /\ starting' = [starting EXCEPT ![p] = {j}]
      BY <1>14, <2>5
    <3>2. Inv'
      BY <1>0, <1>14, <1>15, <2>4, <3>1, PlainEnd
    <3>3. sched'[p] = t.sc
      BY <3>1 DEF EndTurn, Inv, Types
    <3> QED BY <1>0, <1>14, <1>16, <2>1, <2>4, <3>1, <3>2, <3>3
  <2>6. CASE ~go
    <3>1. EndTurn(p, u) /\ starting' = [starting EXCEPT ![p] = {}]
      BY <1>14, <2>6
    <3>2. /\ u \in Turns /\ u.s = t.s /\ u.l = t.l /\ u.out = t.out /\ u.sc[j] = w
          /\ \A k \in Jobs \ {j}: u.sc[k] = t.sc[k]
      BY <1>13, <2>4, PlaceFields
    <3>3. Sound(p, j, t.s, t.l[j], "run")
      BY <2>4 DEF TurnOK
    <3>4. Sound(p, j, t.s, u.l[j], u.sc[j])
      BY <1>13, <2>1, <3>2, <3>3 DEF Sound, Placed, Through, OnRecord, Scheduled, Tokens
    <3>5. TurnOK(p, u)
      BY <2>4, <3>2, <3>4, OneJob
    <3>6. Inv'
      BY <1>0, <1>14, <1>15, <3>1, <3>5, PlainEnd
    <3> QED BY <1>0, <1>14, <1>16, <3>1, <3>6
  <2> QED BY <2>5, <2>6
<1> QED BY <1>17, <1>18

\* The callback is invoked: it is on record, and so is not waiting elsewhere.
LEMMA InvokeKeeps ==
  ASSUME Inv, Starting, NEW p \in Proc, NEW j \in Jobs, Invoke(p, j)
  PROVE  Inv'
<1>0. /\ j \in starting[p] /\ starts' = [starts EXCEPT ![j] = @ + 1]
      /\ UNCHANGED <<journal, clock, lock, runtimes, outbox, used>>
  BY DEF Invoke
<1>1. UNCHANGED <<status, timer, local, sched, arg, aborted, failed>>
  BY <1>0 DEF runtimes
<1>2. sched[p][j] = "run" /\ starts[j] = 0
  BY <1>0 DEF Starting
<1>3. OnRecord(p, journal.acts[j], "run")
  BY <1>2 DEF Inv, Standing, Stands
<1>4. starts' \in [Jobs -> Nat] /\ starts'[j] = 1 /\ \A k \in Jobs \ {j}: starts'[k] = starts[k]
  BY <1>0, <1>2 DEF Inv, Types
<1>5. Types'
  BY <1>0, <1>1, <1>4 DEF Inv, Types, JournalInv, Claims
<1>6. Standing'
  BY <1>0, <1>1 DEF Inv, Standing, Stands, Pending
<1>7. Mail'
  <2> SUFFICES ASSUME NEW q \in Proc PROVE MailOf(q)'
    BY DEF Mail
  <2>1. MailOf(q)
    BY DEF Inv, Mail
  <2>2. ASSUME NEW i \in DOMAIN outbox'[q] PROVE Outgoing(q, outbox[q][i])'
    <3>1. PICK f: f = outbox[q][i]
      OBVIOUS
    <3>2. Outgoing(q, f) /\ outbox'[q][i] = f
      BY <1>0, <2>1, <3>1 DEF MailOf
    <3>3. Outgoing(q, f)'
      BY <1>0, <1>1, <3>2 DEF Outgoing, Running
    <3> QED BY <3>2, <3>3 DEF Outgoing
  <2> QED BY <1>0, <1>1, <2>1, <2>2 DEF MailOf
<1>8. ASSUME NEW k \in Jobs, NEW q \in Proc, ~journal.poisoned, sched[q][k] = "admitted"
      PROVE  starts'[k] = 0
  <2>1. k # j
    <3>1. q # p => sched[q][j] # "admitted"
      BY <1>3, <1>8, SoleClaim
    <3> QED BY <1>2, <1>8, <3>1
  <2> QED BY <1>4, <1>8, <2>1 DEF Inv, Started
<1>9. Started'
  BY <1>0, <1>1, <1>3, <1>4, <1>8 DEF Inv, Started, OnRecord
<1>10. Room'
  BY <1>0 DEF Inv, Room, Running
<1> QED BY <1>5, <1>6, <1>7, <1>9, <1>10 DEF Inv

\* The callback comes back.
LEMMA ReturnKeeps ==
  ASSUME Inv, NEW p \in Proc, NEW j \in Jobs, Return(p, j)
  PROVE  Inv'
<1>0. Ready(p) /\ outbox[p] = <<>> /\ sched[p][j] = "run"
  BY DEF Return, Ready
<1>1. PICK a: a = Turn(p)
  OBVIOUS
<1>2. /\ TurnOK(p, a) /\ a \in Turns /\ a.s = journal /\ a.sc = sched[p] /\ a.l = local[p]
      /\ a.out = outbox[p] /\ a.at = arg[p] /\ a.ab = aborted[p]
  BY <1>0, <1>1, TurnBegins DEF TurnOK
<1>3. PICK w \in Places: w = "settle"
  BY DEF Places, Scheduled, Tokens
<1>4. PICK u: u = Place(a, j, w)
  OBVIOUS
<1>5. /\ u \in Turns /\ u.s = a.s /\ u.l = a.l /\ u.out = a.out /\ u.at = a.at /\ u.ab = a.ab
      /\ u.sc[j] = w /\ \A k \in Jobs \ {j}: u.sc[k] = a.sc[k]
  BY <1>2, <1>4, PlaceFields
<1>6. Sound(p, j, a.s, a.l[j], "run")
  BY <1>0, <1>2 DEF TurnOK
<1>7. Sound(p, j, a.s, u.l[j], u.sc[j])
  BY <1>3, <1>5, <1>6 DEF Sound, Placed, Through, OnRecord, Scheduled, Tokens
<1>8. TurnOK(p, u)
  BY <1>0, <1>2, <1>5, <1>7, OneJob
<1>9. EndTurn(p, u)
  <2>1. sched' = [sched EXCEPT ![p] = u.sc]
    <3>1. u.sc = [sched[p] EXCEPT ![j] = "settle"]
      BY <1>2, <1>3, <1>4 DEF Turns, Place
    <3>2. sched' = [sched EXCEPT ![p][j] = "settle"]
      BY DEF Return
    <3> QED BY <3>1, <3>2 DEF Inv, Types
  <2>2. UNCHANGED <<local, arg, aborted, outbox>>
    BY DEF Return
  <2> QED BY <1>2, <1>5, <2>1, <2>2 DEF EndTurn, Inv, Types
<1>10. UNCHANGED <<journal, clock, lock, status, used, starts>>
  BY DEF Return
<1>11. timer' \in [Proc -> BOOLEAN] /\ failed' \in [Proc -> SUBSET Jobs]
  <2>1. timer \in [Proc -> BOOLEAN] /\ failed \in [Proc -> SUBSET Jobs] /\ timer' = timer
    BY DEF Return, Inv, Types
  <2>2. failed' = failed \/ failed' = [failed EXCEPT ![p] = @ \cup {j}]
    BY DEF Return
  <2>3. [failed EXCEPT ![p] = @ \cup {j}] \in [Proc -> SUBSET Jobs]
    BY <2>1
  <2> QED BY <2>1, <2>2, <2>3
<1> QED BY <1>0, <1>8, <1>9, <1>10, <1>11, PlainEnd

\* The takeover is on record, and the command joins the queue.
LEMMA ClaimedKeeps ==
  ASSUME Inv, NEW p \in Proc, NEW j \in Jobs, Claimed(p, j)
  PROVE  Inv'
<1>0. Ready(p) /\ outbox[p] = <<>> /\ sched[p][j] = "claimed"
  BY DEF Claimed, Ready
<1>1. PICK a: a = Turn(p)
  OBVIOUS
<1>2. TurnOK(p, a) /\ clock \in Nat /\ a \in Turns /\ a.sc[j] = "claimed"
  BY <1>0, <1>1, TurnBegins DEF TurnOK
<1>3. PICK row: row = RowOf("queued", p, arg[p][j], arg[p][j] + Lease)
  OBVIOUS
<1>4. row \in Record /\ row.owner = p /\ row.state = "queued" /\ row \in Stored
  <2>1. arg[p][j] \in Nat /\ arg[p][j] + Lease \in Nat
    BY BoundsAssumption DEF Inv, Types
  <2> QED BY <1>3, <2>1 DEF RowOf, Record, Live, Stored
<1>5. PICK A \in SUBSET Jobs: A = a.ab
  BY <1>2 DEF Turns
<1>6. PICK w \in Places: w = "queued"
  BY DEF Places, Scheduled
<1>7. PICK n \in Nat: n = 0
  OBVIOUS
<1>8. PICK u: u = [Turn(p) EXCEPT !.l[j] = row, !.sc[j] = "queued", !.at[j] = 0]
  OBVIOUS
<1>9. u = Replace(a, j, row, w, n, A)
  BY <1>1, <1>2, <1>5, <1>6, <1>7, <1>8 DEF Replace, Turns
<1>10. /\ u \in Turns /\ u.s = a.s /\ u.out = a.out /\ u.l[j] = row /\ u.sc[j] = w
       /\ \A k \in Jobs \ {j}: u.l[k] = a.l[k] /\ u.sc[k] = a.sc[k]
  BY <1>2, <1>4, <1>9, JobFields
<1>11. Sound(p, j, a.s, a.l[j], "claimed")
  BY <1>2 DEF TurnOK
<1>12. Sound(p, j, a.s, u.l[j], u.sc[j])
  BY <1>4, <1>6, <1>10, <1>11 DEF Sound, Placed, Through, Past
<1>13. TurnOK(p, u)
  BY <1>2, <1>10, <1>12, OneJob
<1>14. PICK t: t = Drain(u)
  OBVIOUS
<1>15. TurnOK(p, t)
  BY <1>2, <1>13, <1>14, DrainOK
<1>16. /\ EndTurn(p, t) /\ UNCHANGED <<journal, clock, lock, status, used, starts>>
       /\ timer' = [timer EXCEPT ![p] = TRUE] /\ failed' = failed
  BY <1>3, <1>8, <1>14, Zenon DEF Claimed
<1>17. timer' \in [Proc -> BOOLEAN] /\ failed' \in [Proc -> SUBSET Jobs]
  BY <1>16 DEF Inv, Types
<1> QED BY <1>0, <1>15, <1>16, <1>17, PlainEnd

\* A request to cancel.
LEMMA CancelKeeps ==
  ASSUME Inv, NEW p \in Proc, NEW j \in Jobs, Cancel(p, j)
  PROVE  Inv'
<1>0. Ready(p) /\ outbox[p] = <<>>
  BY DEF Cancel, Ready
<1>1. PICK a: a = Turn(p)
  OBVIOUS
<1>2. TurnOK(p, a)
  BY <1>0, <1>1, TurnBegins
<1>3. PICK e: e = EventOf("cancel", j, p, RowOf("queued", p, 0, 0))
  OBVIOUS
<1>4. e \in Event /\ e.kind = "cancel"
  BY <1>3 DEF EventOf, RowOf, Event, Record, Live
<1>5. PICK u: u = Emit(a, e)
  OBVIOUS
<1>6. Announced(p, e, a.sc)
  BY <1>4 DEF Announced
<1>7. TurnOK(p, u) /\ u.out # <<>>
  BY <1>2, <1>4, <1>5, <1>6, EmitOK
<1>8. /\ EndTurn(p, u) /\ UNCHANGED <<journal, clock, status, timer, failed, used, starts>>
      /\ lock = Nobody /\ lock' = p
  BY <1>1, <1>3, <1>5, Zenon DEF Cancel
<1>9. PICK U: U = used
  OBVIOUS
<1>10. Closes(p, u, U) /\ used' = U
  BY <1>7, <1>8, <1>9, TurnCloses
<1>11. Aside(p)
  BY <1>8, EndAside DEF Aside, Inv, Types
<1>12. /\ status' \in [Proc -> {"off", "up", "dead"}] /\ status'[p] # "off"
       /\ timer' \in [Proc -> BOOLEAN] /\ failed' \in [Proc -> SUBSET Jobs]
  BY <1>0, <1>8 DEF Inv, Types, Ready
<1> QED BY <1>7, <1>8, <1>10, <1>11, <1>12, EndOK

\* The token of a job goes.
Quit(t, j) == [t EXCEPT !.sc[j] = "none", !.ab = @ \ {j}, !.thrown = FALSE]

LEMMA QuitFields ==
  ASSUME NEW t \in Turns, NEW j \in Jobs, NEW u, u = Quit(t, j)
  PROVE  /\ u \in Turns /\ u.s = t.s /\ u.l = t.l /\ u.at = t.at /\ u.out = t.out
         /\ u.sc = [t.sc EXCEPT ![j] = "none"] /\ u.sc[j] = "none"
<1>0. t.sc \in [Jobs -> Places]
  BY DEF Turns
<1>1. PICK c \in [Jobs -> Places]: c = [t.sc EXCEPT ![j] = "none"]
  BY <1>0 DEF Places
<1>2. u = [t EXCEPT !.sc = c, !.ab = @ \ {j}, !.thrown = FALSE]
  BY <1>1 DEF Turns, Quit
<1>3. /\ u \in Turns /\ u.s = t.s /\ u.l = t.l /\ u.at = t.at /\ u.out = t.out /\ u.sc = c
  BY <1>2 DEF Turns
<1>4. c[j] = "none"
  BY <1>0, <1>1
<1> QED BY <1>1, <1>3, <1>4

LEMMA QuitOK ==
  ASSUME NEW p \in Proc, NEW t, TurnOK(p, t), NEW j \in Jobs, NEW u, u = Quit(t, j)
  PROVE  TurnOK(p, u)
<1>0. t \in Turns /\ Sound(p, j, t.s, t.l[j], t.sc[j])
  BY DEF TurnOK
<1>1. /\ u \in Turns /\ u.s = t.s /\ u.l = t.l /\ u.out = t.out /\ u.sc[j] = "none"
      /\ \A k \in Jobs \ {j}: u.sc[k] = t.sc[k]
  <2>1. /\ u \in Turns /\ u.s = t.s /\ u.l = t.l /\ u.out = t.out
        /\ u.sc = [t.sc EXCEPT ![j] = "none"]
    BY <1>0, QuitFields
  <2>2. t.sc \in [Jobs -> Places]
    BY <1>0 DEF Turns
  <2>3. PICK c: c = [t.sc EXCEPT ![j] = "none"]
    OBVIOUS
  <2>4. c[j] = "none" /\ \A k \in Jobs \ {j}: c[k] = t.sc[k]
    BY <2>2, <2>3
  <2> QED BY <2>1, <2>3, <2>4
<1>2. Sound(p, j, t.s, u.l[j], u.sc[j])
  BY <1>0, <1>1 DEF Sound, Placed, Through, Past, Scheduled, Tokens
<1> QED BY <1>1, <1>2, OneJob

\* What makes a turn sound.
LEMMA SameTurn ==
  ASSUME NEW p \in Proc, NEW t, TurnOK(p, t), NEW u \in Turns,
         u.s = t.s, u.l = t.l, u.sc = t.sc, u.out = t.out
  PROVE  TurnOK(p, u)
BY DEF TurnOK

\* append() reads the journal and writes the row and the event only.
LEMMA RecordedFields ==
  ASSUME NEW t \in Turns, Claims(t.s), NEW q \in Turns, q.s = t.s, q.l = t.l, q.out = t.out,
         NEW j \in Jobs, NEW row \in Record,
         NEW u, u = Recorded(t, j, row), NEW v, v = Recorded(q, j, row)
  PROVE  u \in Turns /\ u.s = v.s /\ u.l = v.l /\ u.out = v.out /\ u.sc = t.sc
<1>1. PICK e: e = EventOf("intent", j, row.owner, row)
  OBVIOUS
<1>2. e \in Event
  BY <1>1 DEF EventOf, Event, Record
<1>3. PICK l \in [Jobs -> Stored]: l = [t.l EXCEPT ![j] = row]
  <2>1. row \in Stored /\ t.l \in [Jobs -> Stored]
    BY DEF Stored, Turns
  <2> QED BY <2>1
<1>4. PICK s \in Journal: s = Fold(t.s, e)
  BY <1>2, FoldStep DEF Step, Turns
<1>5. PICK o \in Seq(Event): o = Append(t.out, e)
  <2>1. Append(t.out, e) \in Seq(Event)
    BY <1>2 DEF Turns
  <2> QED BY <2>1
<1>6. CASE Changes(t.s.rows[j], row)
  <2>1. u = [t EXCEPT !.l = l, !.out = o, !.s = s]
    BY <1>1, <1>3, <1>4, <1>5, <1>6 DEF Recorded, Emit, Turns
  <2>2. v = [q EXCEPT !.l = l, !.out = o, !.s = s]
    BY <1>1, <1>3, <1>4, <1>5, <1>6 DEF Recorded, Emit, Turns
  <2>3. u \in Turns /\ u.s = s /\ u.l = l /\ u.out = o /\ u.sc = t.sc
    BY <2>1 DEF Turns
  <2>4. v.s = s /\ v.l = l /\ v.out = o
    BY <2>2 DEF Turns
  <2> QED BY <2>3, <2>4
<1>7. CASE ~Changes(t.s.rows[j], row)
  <2>1. u = [t EXCEPT !.l = l]
    BY <1>3, <1>7 DEF Recorded, Turns
  <2>2. v = [q EXCEPT !.l = l]
    BY <1>3, <1>7 DEF Recorded, Turns
  <2> QED BY <2>1, <2>2 DEF Turns
<1> QED BY <1>6, <1>7

\* The row of a finished job is recorded as the token goes.
LEMMA FinishRow ==
  ASSUME Inv, NEW p \in Proc, NEW t, TurnOK(p, t), NEW j \in Jobs, t.sc[j] = "finish", clock \in Nat,
         NEW to \in Final, NEW row, row = Moved(t, j, to), Appendable(t, j, row),
         NEW u, u = Recorded(t, j, row)
  PROVE  TurnOK(p, Quit(u, j)) /\ TurnOK(p, Quit([u EXCEPT !.l[j] = NoRow], j))
<1>0. t \in Turns /\ t.s \in Journal /\ Claims(t.s) /\ Sound(p, j, t.s, t.l[j], "finish")
  BY DEF TurnOK, Turns
<1>1. t.l[j].state # "none" /\ t.l[j].owner = p
  BY <1>0 DEF Sound, Placed, Scheduled, Tokens
<1>2. row \in Record /\ row.owner = p /\ row.state = to
  BY <1>0, <1>1, MovedRow
<1>3. t.s.rows[j].owner = p
  BY <1>2 DEF Appendable, Refused
<1>4. t.s.rows[j].state # "none"
  BY <1>0, <1>3, NobodyAssumption, StoredRow
<1>5. PICK q: q = Quit(t, j)
  OBVIOUS
<1>6. TurnOK(p, q)
  BY <1>5, QuitOK
<1>7. /\ q \in Turns /\ q.s = t.s /\ q.l = t.l /\ q.out = t.out
      /\ q.sc = [t.sc EXCEPT ![j] = "none"] /\ q.sc[j] = "none"
  BY <1>0, <1>5, QuitFields
<1>8. PICK v: v = Recorded(q, j, row)
  OBVIOUS
<1>9. \A r: Placed(p, q.sc[j], r, journal.rows[j].owner)
  BY <1>7 DEF Placed, Scheduled, Tokens
<1>10. TurnOK(p, v) /\ v.sc = q.sc
  BY <1>2, <1>4, <1>6, <1>7, <1>8, <1>9, RecordedOK
<1>11. u \in Turns /\ u.s = v.s /\ u.l = v.l /\ u.out = v.out /\ u.sc = t.sc
  BY <1>0, <1>2, <1>7, <1>8, RecordedFields
<1>12. TurnOK(p, Quit(u, j))
  <2>1. PICK x: x = Quit(u, j)
    OBVIOUS
  <2>2. x \in Turns /\ x.s = v.s /\ x.l = v.l /\ x.out = v.out /\ x.sc = v.sc
    BY <1>7, <1>10, <1>11, <2>1, QuitFields
  <2> QED BY <1>10, <2>1, <2>2, SameTurn
<1>13. TurnOK(p, Quit([u EXCEPT !.l[j] = NoRow], j))
  <2>0. NoRow \in Stored
    BY DEF Stored
  <2>1. PICK y: y = [v EXCEPT !.l[j] = NoRow]
    OBVIOUS
  <2>2. TurnOK(p, y) /\ y.s = v.s /\ y.sc = v.sc /\ y.out = v.out
    BY <1>9, <1>10, <2>0, <2>1, SetLocal
  <2>3. y.l = [v.l EXCEPT ![j] = NoRow]
    BY <1>10, <2>1 DEF TurnOK, Turns
  <2>4. PICK z: z = [u EXCEPT !.l[j] = NoRow]
    OBVIOUS
  <2>5. PICK l \in [Jobs -> Stored]: l = [u.l EXCEPT ![j] = NoRow]
    BY <1>11, <2>0 DEF Turns
  <2>6. z = [u EXCEPT !.l = l]
    BY <2>4, <2>5
  <2>7. z \in Turns /\ z.s = u.s /\ z.l = l /\ z.out = u.out /\ z.sc = u.sc
    BY <1>11, <2>6 DEF Turns
  <2>8. PICK x: x = Quit(z, j)
    OBVIOUS
  <2>9. x \in Turns /\ x.s = z.s /\ x.l = z.l /\ x.out = z.out /\ x.sc = [z.sc EXCEPT ![j] = "none"]
    BY <2>7, <2>8, QuitFields
  <2>10. x.s = y.s /\ x.l = y.l /\ x.out = y.out /\ x.sc = y.sc
    BY <1>7, <1>10, <1>11, <2>2, <2>3, <2>5, <2>7, <2>9
  <2> QED BY <2>2, <2>4, <2>8, <2>9, <2>10, SameTurn
<1> QED BY <1>12, <1>13

LEMMA FinishKeeps ==
  ASSUME Inv, NEW p \in Proc, NEW j \in Jobs, NEW held \in BOOLEAN, FinishAs(p, j, held)
  PROVE  Inv'
<1>0. Ready(p) /\ outbox[p] = <<>> /\ sched[p][j] = "finish"
  BY DEF FinishAs, Ready
<1>1. PICK a: a = Turn(p)
  OBVIOUS
<1>2. TurnOK(p, a) /\ clock \in Nat /\ a.sc[j] = "finish"
  BY <1>0, <1>1, TurnBegins
<1> DEFINE ok == j \notin failed[p]
<1>3. PICK t: t = IF ok \/ held THEN a ELSE Refresh(a)
  OBVIOUS
<1>4. TurnOK(p, t) /\ t.sc[j] = "finish"
  <2>1. PICK b: b = Refresh(a)
    OBVIOUS
  <2>2. TurnOK(p, b) /\ b.sc[j] = "finish"
    BY <1>2, <2>1, RefreshOK DEF Frame
  <2> QED BY <1>2, <1>3, <2>1, <2>2
<1> DEFINE To == CASE held -> "reconciliation-required"
                   [] ~held /\ ok -> "completed"
                   [] OTHER -> IF Active(t.s, j) THEN "reconciliation-required" ELSE "failed"
<1>5. PICK to: to = To
  OBVIOUS
<1>6. to \in Final
  <2> HIDE DEF ok
  <2> QED BY <1>5 DEF Final
<1>7. PICK row: row = Moved(t, j, to)
  OBVIOUS
<1>8. PICK u: u = Recorded(t, j, row)
  OBVIOUS
<1>9. PICK z: z = [u EXCEPT !.l[j] = NoRow]
  OBVIOUS
<1>10. PICK v: v = Uncertain(t, j)
  OBVIOUS
<1> DEFINE Last == IF t.thrown THEN t
                   ELSE IF t.l[j].state # "none" /\ Appendable(t, j, row)
                        THEN IF to \in {"completed", "failed"} THEN z ELSE u
                        ELSE v
<1>11. PICK e: e = Last
  OBVIOUS
<1>12. PICK q: q = Quit(e, j)
  OBVIOUS
<1>13. TurnOK(p, q)
  <2>1. TurnOK(p, v)
    BY <1>2, <1>4, <1>10, UncertainOK
  <2>2. e = t \/ e = v => TurnOK(p, q)
    BY <1>4, <1>12, <2>1, QuitOK
  <2>3. Appendable(t, j, row) => TurnOK(p, Quit(u, j)) /\ TurnOK(p, Quit(z, j))
    BY <1>2, <1>4, <1>6, <1>7, <1>8, <1>9, FinishRow
  <2>4. e = t \/ e = v \/ (Appendable(t, j, row) /\ (e = z \/ e = u))
    BY <1>11
  <2> QED BY <1>12, <2>2, <2>3, <2>4
<1>14. PICK d: d = Drain(q)
  OBVIOUS
<1>15. TurnOK(p, d)
  BY <1>2, <1>13, <1>14, DrainOK
<1>16. /\ UNCHANGED <<journal, clock, lock, status, timer, used, starts>>
       /\ failed' = [failed EXCEPT ![p] = @ \ {j}]
  BY DEF FinishAs
<1>17. EndTurn(p, d)
  <2>1. q = [e EXCEPT !.sc[j] = "none", !.ab = @ \ {j}, !.thrown = FALSE]
    BY <1>12 DEF Quit
  <2> QED BY <1>1, <1>3, <1>5, <1>7, <1>8, <1>9, <1>10, <1>11, <1>14, <2>1, ZenonT(60)
          DEF FinishAs
<1>18. timer' \in [Proc -> BOOLEAN] /\ failed' \in [Proc -> SUBSET Jobs]
  BY <1>16 DEF Inv, Types
<1> QED BY <1>0, <1>15, <1>16, <1>17, <1>18, PlainEnd

\* Staging one event.
LEMMA EmitFields ==
  ASSUME NEW t \in Turns, Claims(t.s), NEW e \in Event, NEW u, u = Emit(t, e)
  PROVE  u \in Turns /\ u.l = t.l /\ u.sc = t.sc /\ u.out = Append(t.out, e)
<1>1. PICK s \in Journal: s = Fold(t.s, e)
  BY FoldStep DEF Step, Turns
<1>2. PICK o \in Seq(Event): o = Append(t.out, e)
  <2>1. Append(t.out, e) \in Seq(Event)
    BY DEF Turns
  <2> QED BY <2>1
<1>3. u = [t EXCEPT !.out = o, !.s = s]
  BY <1>1, <1>2 DEF Emit
<1> QED BY <1>2, <1>3 DEF Turns

\* A turn that takes the lock to stage what it decided on one job.
LEMMA LockedEnd ==
  ASSUME Inv, NEW p \in Proc, Ready(p), NEW j \in Jobs, NEW e \in Event, e.job = j, e.row.owner = p,
         NEW u \in Turns, u.l = local[p], u.out = <<e>>,
         \A k \in Jobs \ {j}: u.sc[k] = sched[p][k],
         Placed(p, u.sc[j], u.l[j], journal.rows[j].owner),
         Through(p, journal.rows[j], u.sc[j]),
         \/ e.kind = "reclaimed" /\ u.sc[j] = "claimed" /\ e.row.state = "queued"
         \/ e.kind = "settled" /\ u.sc[j] = "finish" /\ OnRecord(p, journal.acts[j], "finish")
         \/ /\ e.kind = "dispatch" /\ u.sc[j] = "admitted" /\ starts[j] = 0
            /\ journal.acts[j].state = "none"
            /\ \A k \in Running(journal): ~Clash(j, k)
            /\ Cardinality(Running(journal)) + 1 <= Ceiling,
         lock = Nobody, lock' = p, EndTurn(p, u),
         UNCHANGED <<journal, clock, status, timer, used, starts>>,
         failed' \in [Proc -> SUBSET Jobs]
  PROVE  Inv'
<1>0. Aside(p)
  BY EndAside DEF Aside, Inv, Types
<1>1. /\ status' \in [Proc -> {"off", "up", "dead"}] /\ status'[p] = "up"
      /\ timer' \in [Proc -> BOOLEAN] /\ starts' \in [Jobs -> Nat]
  BY DEF Inv, Types, Ready
<1>2. /\ Types' /\ journal' = journal
      /\ local'[p] = u.l /\ sched'[p] = u.sc /\ outbox'[p] = <<e>>
  BY <1>0, <1>1, EndTypes
<1>3. \A q \in Proc \ {p}: sched'[q] = sched[q]
  BY <1>0 DEF Aside
<1>4. DOMAIN <<e>> = {1} /\ <<e>>[1] = e /\ Len(<<e>>) = 1 /\ <<e>> # <<>>
  OBVIOUS
<1>5. ASSUME NEW k \in Jobs PROVE Stands(p, k)'
  <2>1. Pending(p, k)' <=> e.kind = "dispatch" /\ k = j
    BY <1>2, <1>4 DEF Pending
  <2>2. CASE k = j
    BY <1>2, <2>1, <2>2 DEF Stands, Past
  <2>3. CASE k # j
    <3>1. Stands(p, k) /\ ~Pending(p, k)
      BY DEF Inv, Standing, Pending, Ready
    <3> QED BY <1>2, <2>1, <2>3, <3>1 DEF Stands
  <2> QED BY <2>2, <2>3
<1>6. Standing'
  BY <1>0, <1>5, OthersStand DEF Standing
<1>7. MailOf(p)'
  <2>1. Outgoing(p, e)'
    BY <1>2, <1>4 DEF Outgoing, Running
  <2>2. ASSUME NEW i \in DOMAIN outbox'[p] PROVE Outgoing(p, outbox[p][i])'
    <3>1. outbox'[p][i] = e
      BY <1>2, <1>4
    <3> QED BY <2>1, <3>1 DEF Outgoing, Running
  <2> QED BY <1>1, <1>2, <1>4, <2>2 DEF MailOf
<1>8. Mail'
  BY <1>0, <1>7, OthersStand DEF Mail
<1>9. Started'
  <2>1. ASSUME NEW k \in Jobs, NEW q \in Proc, ~journal.poisoned, sched'[q][k] = "admitted"
        PROVE  starts[k] = 0
    BY <1>2, <1>3, <2>1 DEF Inv, Started
  <2> QED BY <1>2, <2>1 DEF Inv, Started
<1>10. Room'
  BY <1>2 DEF Inv, Room, Running
<1> QED BY <1>2, <1>6, <1>8, <1>9, <1>10 DEF Inv

\* reclaimQueued()
LEMMA ReclaimKeeps ==
  ASSUME Inv, NEW p \in Proc, NEW j \in Jobs, Reclaim(p, j)
  PROVE  Inv'
<1>0. Ready(p) /\ outbox[p] = <<>> /\ sched[p][j] = "reclaim" /\ lock = Nobody
  BY DEF Reclaim, Ready
<1>1. PICK a: a = Turn(p)
  OBVIOUS
<1>2. /\ TurnOK(p, a) /\ a \in Turns /\ a.s = journal /\ a.l = local[p] /\ a.sc = sched[p]
      /\ a.out = <<>> /\ Claims(a.s)
  BY <1>0, <1>1, TurnBegins DEF TurnOK
<1>3. PICK row: row = RowOf("queued", p, arg[p][j], arg[p][j] + Lease)
  OBVIOUS
<1>4. row \in Record /\ row.owner = p /\ row.state = "queued"
  <2>1. arg[p][j] \in Nat /\ arg[p][j] + Lease \in Nat
    BY BoundsAssumption DEF Inv, Types
  <2> QED BY <1>3, <2>1 DEF RowOf, Record, Live
<1>5. PICK from: from = journal.rows[j].owner
  OBVIOUS
<1>6. PICK e: e = EventOf("reclaimed", j, from, row)
  OBVIOUS
<1>7. PICK w \in Places: w = "claimed"
  BY DEF Places
<1>8. PICK b: b = Place(a, j, w)
  OBVIOUS
<1>9. /\ b \in Turns /\ b.s = a.s /\ b.l = a.l /\ b.out = a.out /\ b.sc[j] = w
      /\ \A k \in Jobs \ {j}: b.sc[k] = a.sc[k]
  BY <1>2, <1>8, PlaceFields
<1>10. PICK u: u = Emit(b, e)
  OBVIOUS
<1>11. PICK z: z = [a EXCEPT !.sc[j] = "none", !.at[j] = 0]
  OBVIOUS
<1> DEFINE go == ~journal.poisoned /\ journal.rows[j].state # "none" /\ Reclaimable(journal, j, from, row)
<1>12. /\ UNCHANGED <<journal, clock, status, timer, failed, used, starts>>
       /\ \/ go /\ EndTurn(p, u) /\ lock' = p
          \/ EndTurn(p, z) /\ UNCHANGED lock
  <2>1. b = [a EXCEPT !.sc[j] = "claimed"]
    BY <1>7, <1>8 DEF Place
  <2>2. UNCHANGED <<journal, clock, status, timer, failed, used, starts>>
    BY DEF Reclaim
  <2>3. IF go THEN EndTurn(p, u) /\ lock' = p ELSE EndTurn(p, z) /\ UNCHANGED lock
    BY <1>1, <1>3, <1>5, <1>6, <1>10, <1>11, <2>1, Zenon DEF Reclaim
  <2> QED BY <2>2, <2>3
<1>13. failed' \in [Proc -> SUBSET Jobs] /\ timer' \in [Proc -> BOOLEAN]
  BY <1>12 DEF Inv, Types
<1>14. CASE go /\ EndTurn(p, u) /\ lock' = p
  <2>1. from \in Proc /\ journal.rows[j].state = "queued"
    BY <1>2, <1>5, <1>14 DEF Claims, Reclaimable
  <2>2. e \in Event /\ e.kind = "reclaimed" /\ e.job = j /\ e.row = row
    BY <1>4, <1>6, <2>1 DEF EventOf, Event
  <2>3. u \in Turns /\ u.l = b.l /\ u.sc = b.sc /\ u.out = Append(b.out, e)
    BY <1>2, <1>9, <1>10, <2>2, EmitFields
  <2>4. u.out = <<e>>
    BY <1>2, <1>9, <2>3
  <2>5. Placed(p, u.sc[j], u.l[j], journal.rows[j].owner) /\ Through(p, journal.rows[j], u.sc[j])
    BY <1>7, <1>9, <2>1, <2>3 DEF Placed, Through, Ended, Scheduled, Tokens
  <2>6. u.l = local[p] /\ u.sc[j] = "claimed" /\ \A k \in Jobs \ {j}: u.sc[k] = sched[p][k]
    BY <1>2, <1>7, <1>9, <2>3
  <2> QED BY <1>0, <1>4, <1>12, <1>13, <1>14, <2>2, <2>3, <2>4, <2>5, <2>6, LockedEnd
<1>15. CASE EndTurn(p, z) /\ UNCHANGED lock
  <2>1. TurnOK(p, z)
    <3>1. PICK v \in Places: v = "none"
      BY DEF Places
    <3>2. /\ z \in Turns /\ z.s = a.s /\ z.l = a.l /\ z.out = a.out /\ z.sc[j] = "none"
          /\ \A k \in Jobs \ {j}: z.sc[k] = a.sc[k]
      BY <1>2, <1>11, <3>1 DEF Turns
    <3>3. Sound(p, j, a.s, a.l[j], "reclaim")
      BY <1>0, <1>2 DEF TurnOK
    <3>4. Sound(p, j, a.s, z.l[j], z.sc[j])
      BY <3>2, <3>3 DEF Sound, Placed, Through, Past, Scheduled, Tokens
    <3> QED BY <1>2, <3>2, <3>4, OneJob
  <2> QED BY <1>0, <1>12, <1>13, <1>15, <2>1, PlainEnd
<1> QED BY <1>12, <1>14, <1>15

\* settleActivity()
LEMMA SettleKeeps ==
  ASSUME Inv, NEW p \in Proc, NEW j \in Jobs, Settle(p, j)
  PROVE  Inv'
<1>0. Ready(p) /\ outbox[p] = <<>> /\ sched[p][j] = "settle" /\ lock = Nobody
  BY DEF Settle, Ready
<1>1. PICK a: a = Turn(p)
  OBVIOUS
<1>2. /\ TurnOK(p, a) /\ a \in Turns /\ a.s = journal /\ a.l = local[p] /\ a.sc = sched[p]
      /\ a.out = <<>> /\ Claims(a.s)
  BY <1>0, <1>1, TurnBegins DEF TurnOK
<1>3. Sound(p, j, a.s, a.l[j], "settle")
  BY <1>0, <1>2 DEF TurnOK
<1>4. PICK w \in Places: w = "finish"
  BY DEF Places, Scheduled, Tokens
<1>5. PICK b: b = Place(a, j, w)
  OBVIOUS
<1>6. /\ b \in Turns /\ b.s = a.s /\ b.l = a.l /\ b.out = a.out /\ b.sc[j] = w
      /\ \A k \in Jobs \ {j}: b.sc[k] = a.sc[k]
  BY <1>2, <1>5, PlaceFields
<1>7. PICK act: act = journal.acts[j]
  OBVIOUS
<1>8. PICK e: e = EventOf("settled", j, p, RowOf("running", p, act.at, act.at))
  OBVIOUS
<1>9. e \in Event /\ e.kind = "settled" /\ e.job = j /\ e.row.owner = p
  <2>1. act.at \in Nat
    BY <1>7 DEF Inv, Types, JournalInv, Journal, Activity
  <2> QED BY <1>8, <2>1 DEF EventOf, RowOf, Event, Record, Live
<1>10. PICK u: u = Emit(b, e)
  OBVIOUS
<1> DEFINE known == ~journal.poisoned /\ act.state # "none" /\ act.owner = p
<1>11. /\ UNCHANGED <<journal, clock, status, timer, used, starts>>
       /\ failed' = [failed EXCEPT ![p] = IF known THEN @ ELSE @ \cup {j}]
       /\ \/ known /\ EndTurn(p, u) /\ lock' = p
          \/ EndTurn(p, b) /\ UNCHANGED lock
  <2>1. b = [a EXCEPT !.sc[j] = "finish"]
    BY <1>4, <1>5 DEF Place
  <2>2. UNCHANGED <<journal, clock, status, timer, used, starts>>
    BY DEF Settle
  <2>3. failed' = [failed EXCEPT ![p] = IF known THEN @ ELSE @ \cup {j}]
    BY <1>7 DEF Settle
  <2>4. IF known /\ act.state = "running" THEN EndTurn(p, u) /\ lock' = p
                                          ELSE EndTurn(p, b) /\ UNCHANGED lock
    BY <1>1, <1>7, <1>8, <1>10, <2>1, Zenon DEF Settle
  <2> QED BY <2>2, <2>3, <2>4
<1>12. failed' \in [Proc -> SUBSET Jobs] /\ timer' \in [Proc -> BOOLEAN]
  BY <1>11 DEF Inv, Types
<1>13. Sound(p, j, a.s, b.l[j], b.sc[j])
  BY <1>3, <1>4, <1>6 DEF Sound, Placed, Through, Past, OnRecord, Scheduled, Tokens
<1>14. CASE known /\ EndTurn(p, u) /\ lock' = p
  <2>1. u \in Turns /\ u.l = b.l /\ u.sc = b.sc /\ u.out = Append(b.out, e)
    BY <1>2, <1>6, <1>9, <1>10, EmitFields
  <2>2. u.out = <<e>>
    BY <1>2, <1>6, <2>1
  <2>3. Placed(p, u.sc[j], u.l[j], journal.rows[j].owner) /\ Through(p, journal.rows[j], u.sc[j])
    BY <1>13, <2>1 DEF Sound
  <2>4. u.l = local[p] /\ u.sc[j] = "finish" /\ \A k \in Jobs \ {j}: u.sc[k] = sched[p][k]
    BY <1>2, <1>4, <1>6, <2>1
  <2>5. OnRecord(p, journal.acts[j], "finish")
    BY <1>7, <1>14 DEF OnRecord
  <2> QED BY <1>0, <1>9, <1>11, <1>12, <1>14, <2>1, <2>2, <2>3, <2>4, <2>5, LockedEnd
<1>15. CASE EndTurn(p, b) /\ UNCHANGED lock
  <2>1. a.sc[j] \notin {"none", "reclaim"}
    BY <1>0, <1>2
  <2>2. TurnOK(p, b)
    BY <1>2, <1>6, <1>13, <2>1, OneJob
  <2> QED BY <1>0, <1>11, <1>12, <1>15, <2>2, PlainEnd
<1> QED BY <1>11, <1>14, <1>15

\* tryDispatch(): what the journal has running leaves room for the job.
LEMMA DispatchKeeps ==
  ASSUME Inv, NEW p \in Proc, NEW j \in Jobs, Dispatch(p, j)
  PROVE  Inv'
<1>0. Ready(p) /\ outbox[p] = <<>> /\ sched[p][j] = "admit" /\ lock = Nobody
  BY DEF Dispatch, Ready
<1>1. PICK a: a = Turn(p)
  OBVIOUS
<1>2. /\ TurnOK(p, a) /\ a \in Turns /\ a.s = journal /\ a.l = local[p] /\ a.sc = sched[p]
      /\ a.out = <<>> /\ Claims(a.s) /\ clock \in Nat
  BY <1>0, <1>1, TurnBegins DEF TurnOK
<1>3. Sound(p, j, a.s, a.l[j], "admit")
  BY <1>0, <1>2 DEF TurnOK
<1>4. PICK now \in Nat: now = arg[p][j] /\ now + Lease \in Nat
  BY BoundsAssumption DEF Inv, Types
<1>5. PICK row: row = RowOf("running", p, now, now + Lease)
  OBVIOUS
<1>6. row \in Record /\ row.owner = p
  BY <1>4, <1>5 DEF RowOf, Record, Live
<1>7. PICK e: e = EventOf("dispatch", j, p, row)
  OBVIOUS
<1>8. e \in Event /\ e.kind = "dispatch" /\ e.job = j /\ e.row.owner = p
  BY <1>6, <1>7 DEF EventOf, Event
<1>9. PICK w \in Places: w = "admitted"
  BY DEF Places, Scheduled, Tokens
<1>10. PICK b: b = Place(a, j, w)
  OBVIOUS
<1>11. /\ b \in Turns /\ b.s = a.s /\ b.l = a.l /\ b.out = a.out /\ b.sc[j] = w
       /\ \A k \in Jobs \ {j}: b.sc[k] = a.sc[k]
  BY <1>2, <1>10, PlaceFields
<1>12. PICK u: u = Emit(b, e)
  OBVIOUS
<1>13. PICK x: x = [a EXCEPT !.sc[j] = "queued", !.at[j] = 0]
  OBVIOUS
<1>14. PICK y: y = [a EXCEPT !.sc[j] = "none", !.at[j] = 0]
  OBVIOUS
<1>15. PICK m: m = Uncertain(y, j)
  OBVIOUS
<1>16. PICK z: z = Drain(m)
  OBVIOUS
<1> DEFINE live == /\ ~journal.poisoned
                   /\ Claimable(journal, j) /\ journal.rows[j].owner = p /\ journal.rows[j].lease > now
<1> DEFINE room == /\ \A k \in Busy(journal): ~Clash(j, k)
                   /\ Fits(Cardinality(Busy(journal)))
<1>17. /\ UNCHANGED <<journal, clock, status, timer, failed, used, starts>>
       /\ \/ live /\ EndTurn(p, x) /\ UNCHANGED lock
          \/ live /\ room /\ EndTurn(p, u) /\ lock' = p
          \/ EndTurn(p, z) /\ UNCHANGED lock
  <2>1. b = [a EXCEPT !.sc[j] = "admitted"]
    BY <1>9, <1>10 DEF Place
  <2>2. UNCHANGED <<journal, clock, status, timer, failed, used, starts>>
    BY DEF Dispatch
  <2>3. \/ live /\ EndTurn(p, x) /\ UNCHANGED lock
        \/ live /\ room /\ EndTurn(p, u) /\ lock' = p
        \/ EndTurn(p, z) /\ UNCHANGED lock
    BY <1>1, <1>4, <1>5, <1>7, <1>12, <1>13, <1>14, <1>15, <1>16, <2>1, Zenon DEF Dispatch
  <2> QED BY <2>2, <2>3
<1>18. failed' \in [Proc -> SUBSET Jobs] /\ timer' \in [Proc -> BOOLEAN]
  BY <1>17 DEF Inv, Types
<1>19. live => /\ journal.rows[j].state = "queued" /\ a.l[j].state # "none" /\ a.l[j].owner = p
               /\ journal.rows[j].owner = p
  BY <1>3 DEF Claimable, Sound, Placed
<1>20. CASE live /\ EndTurn(p, x) /\ UNCHANGED lock
  <2>1. PICK v \in Places: v = "queued"
    BY DEF Places, Scheduled
  <2>2. /\ x \in Turns /\ x.s = a.s /\ x.l = a.l /\ x.out = a.out /\ x.sc[j] = "queued"
        /\ \A k \in Jobs \ {j}: x.sc[k] = a.sc[k]
    BY <1>2, <1>13, <2>1 DEF Turns
  <2>3. Sound(p, j, a.s, x.l[j], x.sc[j])
    BY <1>2, <1>3, <1>19, <1>20, <2>2 DEF Sound, Placed, Through, Past, Ended
  <2>4. a.sc[j] \notin {"none", "reclaim"}
    BY <1>0, <1>2
  <2>5. TurnOK(p, x)
    BY <1>2, <2>2, <2>3, <2>4, OneJob
  <2> QED BY <1>0, <1>17, <1>18, <1>20, <2>5, PlainEnd
<1>21. CASE live /\ room /\ EndTurn(p, u) /\ lock' = p
  <2>1. u \in Turns /\ u.l = b.l /\ u.sc = b.sc /\ u.out = Append(b.out, e)
    BY <1>2, <1>8, <1>11, <1>12, EmitFields
  <2>2. u.out = <<e>>
    BY <1>2, <1>11, <2>1
  <2>3. u.l = local[p] /\ u.sc[j] = "admitted" /\ \A k \in Jobs \ {j}: u.sc[k] = sched[p][k]
    BY <1>2, <1>9, <1>11, <2>1
  <2>4. Placed(p, u.sc[j], u.l[j], journal.rows[j].owner) /\ Through(p, journal.rows[j], u.sc[j])
    BY <1>2, <1>19, <1>21, <2>3 DEF Placed, Through, Ended
  <2>5. journal.acts[j].state = "none" /\ starts[j] = 0
    <3>1. journal.acts[j].state = "none"
      BY <1>2, <1>19, <1>21 DEF Claims
    <3> QED BY <3>1 DEF Inv, Started, Types
  <2>6. (\A k \in Running(journal): ~Clash(j, k)) /\ Cardinality(Running(journal)) + 1 <= Ceiling
    <3>1. Running(journal) \subseteq Busy(journal) /\ Busy(journal) \subseteq Jobs
      BY DEF Running, Busy, Active
    <3>2. IsFiniteSet(Busy(journal))
      BY <3>1, JobsAssumption, FS_Subset
    <3>3. /\ Cardinality(Running(journal)) <= Cardinality(Busy(journal))
          /\ Cardinality(Running(journal)) \in Nat /\ Cardinality(Busy(journal)) \in Nat
      BY <3>1, <3>2, FS_Subset, FS_CardinalityType
    <3>4. Cardinality(Busy(journal)) + 1 <= Ceiling
      BY <1>21 DEF Fits
    <3>5. \A k \in Running(journal): ~Clash(j, k)
      BY <1>21, <3>1
    <3> QED BY <3>3, <3>4, <3>5, BoundsAssumption
  <2> QED BY <1>0, <1>8, <1>17, <1>18, <1>21, <2>1, <2>2, <2>3, <2>4, <2>5, <2>6, LockedEnd
<1>22. CASE EndTurn(p, z) /\ UNCHANGED lock
  <2>1. PICK v \in Places: v = "none"
    BY DEF Places
  <2>2. /\ y \in Turns /\ y.s = a.s /\ y.l = a.l /\ y.out = a.out /\ y.sc[j] = "none"
        /\ \A k \in Jobs \ {j}: y.sc[k] = a.sc[k]
    BY <1>2, <1>14, <2>1 DEF Turns
  <2>3. Sound(p, j, a.s, y.l[j], y.sc[j])
    BY <1>3, <2>2 DEF Sound, Placed, Through, Past, Scheduled, Tokens
  <2>4. TurnOK(p, y)
    BY <1>2, <2>2, <2>3, OneJob
  <2>5. TurnOK(p, m)
    BY <1>2, <1>15, <2>4, UncertainOK
  <2>6. TurnOK(p, z)
    BY <1>2, <1>16, <2>5, DrainOK
  <2> QED BY <1>0, <1>17, <1>18, <1>22, <2>6, PlainEnd
<1> QED BY <1>17, <1>20, <1>21, <1>22

-----------------------------------------------------------------------------
(* Staging. *)

\* What staging the next event of p does to the record of callbacks.
LEMMA FlushActs ==
  ASSUME Inv, NEW p \in Proc, NEW e \in Event, Outgoing(p, e),
         NEW u \in Journal, Effect(journal, u, e), NEW k \in Jobs, u.acts[k] # journal.acts[k]
  PROVE  /\ e.job = k /\ ~journal.poisoned
         /\ \/ /\ e.kind = "dispatch" /\ lock = p /\ journal.acts[k].state = "none"
               /\ u.acts[k].state = "running" /\ u.acts[k].owner = p
            \/ /\ e.kind = "settled" /\ sched[p][k] = "finish"
               /\ journal.acts[k].state # "none" /\ journal.acts[k].owner = p
               /\ u.acts[k].state = "settled" /\ u.acts[k].owner = p
<1>1. ~journal.poisoned
  BY DEF Effect, Inv, Types, JournalInv, Journal
<1>2. /\ e.kind \in {"dispatch", "settled"} /\ k = e.job
      /\ e.kind = "dispatch" => /\ journal.acts[k].state = "none"
                                /\ u.acts[k].state = "running" /\ u.acts[k].owner = e.row.owner
      /\ e.kind = "settled" => /\ journal.acts[k].state # "none" /\ journal.acts[k].owner = e.row.owner
                               /\ u.acts[k].state = "settled" /\ u.acts[k].owner = journal.acts[k].owner
  BY DEF Effect
<1>3. e.row.owner = p /\ (e.kind = "dispatch" => lock = p)
      /\ (e.kind = "settled" => sched[p][k] = "finish")
  BY <1>2 DEF Outgoing
<1> QED BY <1>1, <1>2, <1>3

\* The runtimes still stand.
LEMMA FlushStands ==
  ASSUME Inv, NEW p \in Proc, NEW e \in Event, outbox[p] # <<>>, e = Head(outbox[p]), Outgoing(p, e),
         NEW u \in Journal, Claims(u), Effect(journal, u, e), journal' = u,
         outbox' = [outbox EXCEPT ![p] = Tail(@)], UNCHANGED <<local, sched>>,
         NEW q \in Proc, NEW k \in Jobs
  PROVE  Stands(q, k)'
<1>0. Stands(q, k) /\ outbox \in [Proc -> Seq(Event)]
  BY DEF Inv, Standing, Types
<1>1. Placed(q, sched[q][k], local[q][k], u.rows[k].owner)
  <2>1. CASE u.rows[k].owner = journal.rows[k].owner
    BY <1>0, <2>1 DEF Stands
  <2>2. CASE u.rows[k].owner # journal.rows[k].owner
    <3>1. /\ e.kind \in {"intent", "reclaimed"} /\ k = e.job /\ u.rows[k].owner = e.row.owner
          /\ e.kind = "intent" => journal.rows[k].owner = Nobody
      BY <2>2 DEF Effect
    <3>2. e.kind = "reclaimed" => sched[p][k] = "claimed" /\ u.rows[k].owner = p
      BY <3>1 DEF Outgoing
    <3> QED BY <1>0, <3>1, <3>2, NobodyAssumption DEF Stands, Placed
  <2> QED BY <2>1, <2>2
<1>2. Through(q, u.rows[k], sched[q][k])
  <2>1. u.rows[k].state \in Ended =>
          \/ journal.rows[k].state \in Ended /\ journal.rows[k].owner = u.rows[k].owner
          \/ e.kind = "intent" /\ k = e.job /\ u.rows[k] = e.row
    BY DEF Effect
  <2> QED BY <1>0, <2>1 DEF Stands, Through, Outgoing
<1>3. ASSUME sched[q][k] = "run" PROVE OnRecord(q, u.acts[k], "run")
  <2>1. OnRecord(q, journal.acts[k], "run")
    BY <1>0, <1>3 DEF Stands
  <2>2. u.acts[k] = journal.acts[k]
    BY <1>3, <2>1, FlushActs DEF OnRecord
  <2> QED BY <2>1, <2>2
<1>4. ASSUME ~u.poisoned, sched[q][k] \in Past, ~Pending(q, k)'
      PROVE  OnRecord(q, u.acts[k], sched[q][k])
  <2>0. ~journal.poisoned
    BY <1>4 DEF Effect
  <2>1. CASE ~Pending(q, k)
    <3>1. OnRecord(q, journal.acts[k], sched[q][k])
      BY <1>0, <1>4, <2>0, <2>1 DEF Stands
    <3>2. CASE u.acts[k] = journal.acts[k]
      BY <3>1, <3>2
    <3>3. CASE u.acts[k] # journal.acts[k]
      BY <3>1, <3>3, FlushActs DEF OnRecord
    <3> QED BY <3>2, <3>3
  <2>2. CASE Pending(q, k)
    <3>1. PICK i \in DOMAIN outbox[q]: outbox[q][i].kind = "dispatch" /\ outbox[q][i].job = k
      BY <2>2 DEF Pending
    <3>2. Outgoing(q, outbox[q][i])
      BY DEF Inv, Mail, MailOf
    <3>3. i = 1 /\ q = p
      <4>1. Len(outbox[q]) = 1
        BY <3>1, <3>2 DEF Outgoing
      <4>2. i = 1
        BY <1>0, <4>1
      <4>3. q # p => outbox'[q] = outbox[q]
        BY <1>0
      <4>4. q # p => Pending(q, k)'
        BY <3>1, <4>3 DEF Pending
      <4> QED BY <1>4, <4>2, <4>4
    <3>4. outbox[q][i] = e
      BY <1>0, <3>3
    <3>5. e.kind = "dispatch" /\ e.job = k /\ e.row.owner = p /\ sched[p][k] = "admitted"
          /\ journal.acts[k].state = "none"
      BY <2>0, <3>1, <3>2, <3>3, <3>4 DEF Outgoing
    <3>6. u.acts[k].state = "running" /\ u.acts[k].owner = p
      BY <1>4, <3>5 DEF Effect
    <3> QED BY <3>3, <3>5, <3>6 DEF OnRecord
  <2> QED BY <2>1, <2>2
<1> QED BY <1>1, <1>2, <1>3, <1>4 DEF Stands

\* Except for a dispatch, nothing adds to the callbacks on record.
LEMMA FlushRunning ==
  ASSUME Inv, NEW p \in Proc, NEW e \in Event, Outgoing(p, e),
         NEW u \in Journal, Effect(journal, u, e)
  PROVE  /\ e.kind # "dispatch" => Running(u) \subseteq Running(journal)
         /\ e.kind = "dispatch" => Running(u) \subseteq Running(journal) \cup {e.job}
<1>1. ASSUME NEW k \in Jobs, u.acts[k].state = "running", journal.acts[k].state # "running"
      PROVE  e.kind = "dispatch" /\ k = e.job
  BY <1>1, FlushActs
<1> QED BY <1>1 DEF Running

LEMMA RunningFinite ==
  ASSUME NEW s
  PROVE  IsFiniteSet(Running(s)) /\ Cardinality(Running(s)) \in Nat
<1>1. Running(s) \subseteq Jobs
  BY DEF Running
<1> QED BY <1>1, JobsAssumption, FS_Subset, FS_CardinalityType

\* Staging an event keeps room between the callbacks on record.
LEMMA FlushRoom ==
  ASSUME Inv, NEW p \in Proc, NEW e \in Event, Outgoing(p, e),
         NEW u \in Journal, Effect(journal, u, e), journal' = u
  PROVE  Room'
<1>0. /\ Cardinality(Running(journal)) <= Ceiling
      /\ \A j, k \in Running(journal): j # k => ~Clash(j, k)
  BY DEF Inv, Room
<1>1. CASE Running(u) \subseteq Running(journal)
  <2>1. PICK R: R = Running(journal)
    OBVIOUS
  <2>2. PICK S: S = Running(u)
    OBVIOUS
  <2>3. /\ IsFiniteSet(R) /\ Cardinality(R) \in Nat /\ Cardinality(S) \in Nat
    BY <2>1, <2>2, RunningFinite
  <2>4. Cardinality(S) <= Cardinality(R)
    BY <1>1, <2>1, <2>2, <2>3, FS_Subset
  <2>5. Cardinality(S) <= Ceiling
    BY <1>0, <2>1, <2>3, <2>4, BoundsAssumption
  <2>6. Running(journal)' = S
    BY <2>2 DEF Running
  <2>7. \A j, k \in S: j # k => ~Clash(j, k)
    BY <1>0, <1>1, <2>2
  <2> QED BY <2>5, <2>6, <2>7 DEF Room, Running, Clash
<1>2. CASE ~(Running(u) \subseteq Running(journal))
  <2>1. e.kind = "dispatch" /\ e.job \in Jobs
    BY <1>2, FlushRunning DEF Event
  <2>2. ~journal.poisoned
    BY <1>2 DEF Effect
  <2>3. /\ journal.acts[e.job].state = "none"
        /\ \A k \in Running(journal): ~Clash(e.job, k)
        /\ Cardinality(Running(journal)) + 1 <= Ceiling
    BY <2>1, <2>2 DEF Outgoing
  <2>4. PICK R: R = Running(journal)
    OBVIOUS
  <2>5. PICK S: S = Running(u)
    OBVIOUS
  <2>6. PICK j \in Jobs: j = e.job
    BY <2>1
  <2>7. IsFiniteSet(R) /\ Cardinality(R) \in Nat /\ Cardinality(S) \in Nat
    BY <2>4, <2>5, RunningFinite
  <2>8. j \notin R /\ S \subseteq R \cup {j}
    BY <2>1, <2>3, <2>4, <2>5, <2>6, FlushRunning DEF Running
  <2>9. IsFiniteSet(R \cup {j}) /\ Cardinality(R \cup {j}) = Cardinality(R) + 1
    BY <2>7, <2>8, FS_AddElement
  <2>10. Cardinality(S) <= Cardinality(R \cup {j})
    BY <2>8, <2>9, FS_Subset
  <2>11. Cardinality(S) <= Ceiling
    BY <2>3, <2>4, <2>7, <2>9, <2>10, BoundsAssumption
  <2>12. \A k, l \in S: k # l => ~Clash(k, l)
    <3>1. \A k \in R: ~Clash(j, k) /\ ~Clash(k, j)
      BY <2>3, <2>4, <2>6 DEF Clash
    <3> QED BY <1>0, <2>4, <2>8, <3>1
  <2>13. Running(journal)' = S
    BY <2>5 DEF Running
  <2> QED BY <2>11, <2>12, <2>13 DEF Room, Running, Clash
<1> QED BY <1>1, <1>2

\* What waits to be staged still holds of what it was decided on.
LEMMA FlushMail ==
  ASSUME Inv, NEW p \in Proc, status[p] = "up", outbox[p] # <<>>,
         NEW e \in Event, e = Head(outbox[p]), Outgoing(p, e),
         NEW u \in Journal, Effect(journal, u, e), journal' = u,
         outbox' = [outbox EXCEPT ![p] = Tail(@)], UNCHANGED <<status, sched, used>>,
         lock' = IF lock = p /\ Len(outbox[p]) = 1 THEN Nobody ELSE lock,
         NEW q \in Proc
  PROVE  MailOf(q)'
<1>0. /\ MailOf(q) /\ outbox \in [Proc -> Seq(Event)] /\ outbox[p] \in Seq(Event)
      /\ p # Nobody /\ q # Nobody /\ lock \in Proc \cup {Nobody}
  BY NobodyAssumption DEF Inv, Mail, Types
<1>1. CASE q = p
  <2>1. PICK o \in Seq(Event): o = outbox[p] /\ o # <<>>
    BY <1>0
  <2>2. PICK r: r = Tail(o)
    OBVIOUS
  <2>3. /\ r \in Seq(Event) /\ Len(r) = Len(o) - 1 /\ Len(o) \in Nat /\ Len(o) > 0
        /\ \A i \in DOMAIN r: i + 1 \in DOMAIN o /\ r[i] = o[i + 1]
    BY <2>1, <2>2
  <2>4. outbox'[p] = r
    BY <1>0, <2>1, <2>2
  <2>5. ASSUME NEW i \in DOMAIN r PROVE Outgoing(p, r[i])'
    <3>1. Outgoing(p, o[i + 1]) /\ r[i] = o[i + 1] /\ Len(o) > 1
      <4>1. i + 1 \in DOMAIN o /\ r[i] = o[i + 1] /\ Len(o) > 1
        BY <2>3
      <4> QED BY <1>0, <1>1, <2>1, <4>1 DEF MailOf
    <3>2. PICK f: f = r[i]
      OBVIOUS
    <3>3. Outgoing(p, f) /\ f.kind # "dispatch"
      <4>1. Outgoing(p, f)
        BY <3>1, <3>2, Zenon
      <4>2. Len(outbox[p]) # 1
        BY <2>1, <2>3, <3>1
      <4> QED BY <4>1, <4>2 DEF Outgoing
    <3>4. Outgoing(p, f)'
      BY <3>3 DEF Outgoing
    <3> QED BY <3>2, <3>4
  <2>6. lock' = p => r # <<>>
    BY <1>0, <2>1, <2>3
  <2>7. ASSUME NEW i \in DOMAIN outbox'[p] PROVE Outgoing(p, outbox[p][i])'
    <3>1. i \in DOMAIN r /\ outbox'[p][i] = r[i]
      BY <2>4
    <3>2. Outgoing(p, r[i])'
      BY <2>5, <3>1
    <3>3. PICK f: f = r[i]
      OBVIOUS
    <3>4. Outgoing(p, f)' /\ outbox'[p][i] = f
      BY <3>1, <3>2, <3>3
    <3> QED BY <3>4 DEF Outgoing
  <2> QED BY <1>1, <2>4, <2>6, <2>7 DEF MailOf
<1>2. CASE q # p
  <2>1. outbox'[q] = outbox[q]
    BY <1>0, <1>2
  <2>2. ASSUME NEW i \in DOMAIN outbox'[q] PROVE Outgoing(q, outbox[q][i])'
    <3>1. PICK f: f = outbox[q][i]
      OBVIOUS
    <3>2. Outgoing(q, f) /\ f \in Event /\ outbox'[q][i] = f
      BY <1>0, <2>1, <3>1 DEF MailOf
    <3>3. CASE f.kind # "dispatch"
      <4>1. Outgoing(q, f)'
        BY <3>2, <3>3 DEF Outgoing
      <4> QED BY <3>2, <4>1 DEF Outgoing
    <3>4. CASE f.kind = "dispatch"
      <4>1. lock = q /\ Len(outbox[q]) = 1 /\ sched[q][f.job] = "admitted" /\ f.row.owner = q
        BY <3>2, <3>4 DEF Outgoing
      <4>2. lock' = q /\ e.kind # "dispatch"
        BY <1>2, <4>1 DEF Outgoing
      <4>3. f.job \in Jobs
        BY <3>2, <3>4 DEF Event
      <4>4. ASSUME ~u.poisoned
            PROVE  /\ u.acts[f.job].state = "none"
                   /\ \A k \in Running(u): ~Clash(f.job, k)
                   /\ Cardinality(Running(u)) + 1 <= Ceiling
        <5>1. ~journal.poisoned
          BY <4>4 DEF Effect
        <5>2. /\ journal.acts[f.job].state = "none"
              /\ \A k \in Running(journal): ~Clash(f.job, k)
              /\ Cardinality(Running(journal)) + 1 <= Ceiling
          BY <3>2, <3>4, <5>1 DEF Outgoing
        <5>3. u.acts[f.job] = journal.acts[f.job]
          BY <4>2, <4>3, <5>2, FlushActs
        <5>4. Running(u) \subseteq Running(journal)
          BY <4>2, FlushRunning
        <5>5. PICK R: R = Running(journal)
          OBVIOUS
        <5>6. PICK S: S = Running(u)
          OBVIOUS
        <5>7. IsFiniteSet(R) /\ Cardinality(R) \in Nat /\ Cardinality(S) \in Nat
          BY <5>5, <5>6, RunningFinite
        <5>8. Cardinality(S) <= Cardinality(R)
          BY <5>4, <5>5, <5>6, <5>7, FS_Subset
        <5>9. Cardinality(S) + 1 <= Ceiling
          BY <5>2, <5>5, <5>7, <5>8, BoundsAssumption
        <5> QED BY <5>2, <5>3, <5>4, <5>6, <5>9
      <4>5. Outgoing(q, f)'
        BY <2>1, <3>4, <4>1, <4>2, <4>4 DEF Outgoing, Running, Clash
      <4> QED BY <3>2, <4>5 DEF Outgoing
    <3> QED BY <3>3, <3>4
  <2>3. lock' = q => outbox'[q] # <<>>
    BY <1>0, <2>1 DEF MailOf
  <2> QED BY <1>0, <2>1, <2>2, <2>3 DEF MailOf
<1> QED BY <1>1, <1>2

LEMMA FlushKeeps ==
  ASSUME Inv, NEW p \in Proc, Flush(p)
  PROVE  Inv' /\ \E e \in Event: journal' = Fold(journal, e)
<1>1. PICK e: e = Head(outbox[p])
  OBVIOUS
<1>2. /\ status[p] = "up" /\ outbox[p] # <<>> /\ journal' = Fold(journal, e)
      /\ outbox' = [outbox EXCEPT ![p] = Tail(@)]
      /\ lock' = IF lock = p /\ Len(outbox[p]) = 1 THEN Nobody ELSE lock
      /\ UNCHANGED <<clock, runtimes, used, starts>>
  BY <1>1 DEF Flush
<1>3. UNCHANGED <<status, timer, local, sched, arg, aborted, failed>>
  BY <1>2 DEF runtimes
<1>4. outbox \in [Proc -> Seq(Event)] /\ outbox[p] \in Seq(Event)
  BY DEF Inv, Types
<1>5. e \in Event /\ Outgoing(p, e)
  <2>1. 1 \in DOMAIN outbox[p] /\ e = outbox[p][1]
    BY <1>1, <1>2, <1>4
  <2>2. Outgoing(p, outbox[p][1])
    BY <2>1 DEF Inv, Mail, MailOf
  <2>3. e \in Event
    BY <1>4, <2>1
  <2>4. PICK o: o = outbox[p][1]
    OBVIOUS
  <2> QED BY <2>1, <2>2, <2>3
<1>6. PICK u: u = Fold(journal, e)
  OBVIOUS
<1>7. u \in Journal /\ Claims(u) /\ Effect(journal, u, e) /\ journal' = u
  <2>1. journal \in Journal /\ Claims(journal)
    BY DEF Inv, Types, JournalInv
  <2> QED BY <1>2, <1>5, <1>6, <2>1, FoldStep, FoldEffect DEF Step
<1>8. Standing'
  BY <1>1, <1>2, <1>3, <1>5, <1>7, FlushStands DEF Standing
<1>9. Mail'
  BY <1>1, <1>2, <1>3, <1>5, <1>7, FlushMail DEF Mail
<1>10. Room'
  BY <1>5, <1>7, FlushRoom
<1>11. JournalInv'
  BY <1>7 DEF JournalInv, Claims
<1>12. outbox' \in [Proc -> Seq(Event)]
  <2>1. Tail(outbox[p]) \in Seq(Event)
    BY <1>2, <1>4
  <2> QED BY <1>2, <1>4, <2>1
<1>13. lock' \in Proc \cup {Nobody}
  BY <1>2 DEF Inv, Types
<1>14. Types'
  BY <1>2, <1>3, <1>11, <1>12, <1>13 DEF Inv, Types
<1>15. Started'
  <2>1. ASSUME NEW k \in Jobs PROVE u.rows[k].state # "none" => k \in used
    BY <1>5, <1>7 DEF Effect, Outgoing, Inv, Started
  <2>2. ASSUME NEW k \in Jobs PROVE journal.acts[k].state # "none" => u.acts[k].state # "none"
    BY <1>5, <1>7, FlushActs
  <2>3. ~u.poisoned => ~journal.poisoned
    BY <1>7 DEF Effect
  <2> QED BY <1>2, <1>3, <1>7, <2>1, <2>2, <2>3 DEF Inv, Started
<1> QED BY <1>2, <1>5, <1>8, <1>9, <1>10, <1>14, <1>15 DEF Inv

-----------------------------------------------------------------------------
(* The clock and failures. *)

\* Time passes, or nothing happens.
LEMMA IdleKeeps ==
  ASSUME Inv, clock' \in 0..MaxTime,
         UNCHANGED <<journal, lock, runtimes, outbox, used, starts>>
  PROVE  Inv'
<1>0. UNCHANGED <<journal, lock, outbox, used, starts>>
      /\ UNCHANGED <<status, timer, local, sched, arg, aborted, failed>>
  BY DEF runtimes
<1>1. Types'
  BY <1>0 DEF Inv, Types, JournalInv, Claims
<1>2. Standing'
  BY <1>0 DEF Inv, Standing, Stands, Pending
<1>3. Mail'
  <2> SUFFICES ASSUME NEW q \in Proc PROVE MailOf(q)'
    BY DEF Mail
  <2>1. MailOf(q)
    BY DEF Inv, Mail
  <2>2. ASSUME NEW i \in DOMAIN outbox'[q] PROVE Outgoing(q, outbox[q][i])'
    <3>1. PICK f: f = outbox[q][i]
      OBVIOUS
    <3>2. Outgoing(q, f) /\ outbox'[q][i] = f
      BY <1>0, <2>1, <3>1 DEF MailOf
    <3>3. Outgoing(q, f)'
      BY <1>0, <3>2 DEF Outgoing, Running
    <3> QED BY <3>2, <3>3 DEF Outgoing
  <2> QED BY <1>0, <2>1, <2>2 DEF MailOf
<1>4. Started'
  BY <1>0 DEF Inv, Started
<1>5. Room'
  BY <1>0 DEF Inv, Room, Running
<1> QED BY <1>1, <1>2, <1>3, <1>4, <1>5 DEF Inv

LEMMA CrashKeeps ==
  ASSUME Inv, NEW p \in Proc, Crash(p)
  PROVE  Inv'
<1>0. /\ status' = [status EXCEPT ![p] = "dead"] /\ timer' = [timer EXCEPT ![p] = FALSE]
      /\ local' = [local EXCEPT ![p] = [j \in Jobs |-> NoRow]]
      /\ sched' = [sched EXCEPT ![p] = [j \in Jobs |-> "none"]]
      /\ arg' = [arg EXCEPT ![p] = [j \in Jobs |-> 0]]
      /\ aborted' = [aborted EXCEPT ![p] = {}] /\ failed' = [failed EXCEPT ![p] = {}]
      /\ outbox' = [outbox EXCEPT ![p] = <<>>]
      /\ lock' = IF lock = p THEN Nobody ELSE lock
      /\ UNCHANGED <<journal, clock, used, starts>>
  BY DEF Crash
<1>1. PICK a: a = [s |-> journal, l |-> [j \in Jobs |-> NoRow], sc |-> [j \in Jobs |-> "none"],
                   at |-> [j \in Jobs |-> 0], ab |-> {}, out |-> <<>>, thrown |-> FALSE]
  OBVIOUS
<1>2. a \in Turns /\ a.l = [j \in Jobs |-> NoRow] /\ a.sc = [j \in Jobs |-> "none"]
      /\ a.at = [j \in Jobs |-> 0] /\ a.ab = {} /\ a.out = <<>>
  <2>1. [j \in Jobs |-> NoRow] \in [Jobs -> Stored] /\ [j \in Jobs |-> "none"] \in [Jobs -> Places]
        /\ [j \in Jobs |-> 0] \in [Jobs -> Nat] /\ journal \in Journal /\ <<>> \in Seq(Event)
    BY DEF Stored, Places, Inv, Types, JournalInv
  <2> QED BY <1>1, <2>1 DEF Turns
<1>3. EndTurn(p, a)
  BY <1>0, <1>2 DEF EndTurn
<1>4. /\ status' \in [Proc -> {"off", "up", "dead"}] /\ status'[p] = "dead"
      /\ \A q \in Proc \ {p}: status'[q] = status[q]
  BY <1>0 DEF Inv, Types
<1>5. timer' \in [Proc -> BOOLEAN] /\ starts' \in [Jobs -> Nat]
  BY <1>0 DEF Inv, Types
<1>6. failed' \in [Proc -> SUBSET Jobs]
  BY <1>0 DEF Inv, Types
<1>7. Aside(p)
  BY <1>0, <1>3, <1>4, EndAside DEF Aside, Inv, Types
<1>8. PICK U: U = used
  OBVIOUS
<1>9. Closes(p, a, U) /\ used' = U /\ lock' # p
  <2>1. \A j \in Jobs: a.sc[j] = "none"
    BY <1>2
  <2>2. Closes(p, a, U)
    BY <1>2, <2>1 DEF Closes, Placed, Through, Past, Scheduled, Tokens
  <2>3. lock' # p
    BY <1>0, NobodyAssumption
  <2> QED BY <1>0, <1>8, <2>2, <2>3
<1> QED BY <1>0, <1>3, <1>4, <1>5, <1>6, <1>7, <1>9, EndOK

-----------------------------------------------------------------------------
(* The theorems. *)

\* Nothing has happened yet.
LEMMA InitInv == Init => Inv
<1> SUFFICES ASSUME Init PROVE Inv
  OBVIOUS
<1>0. /\ JournalInv /\ journal = EmptyJournal
  BY JournalStart DEF Init, JournalInit
<1>1. \A j \in Jobs: journal.rows[j] = NoRow /\ journal.acts[j] = NoActivity
  BY <1>0 DEF EmptyJournal
<1>2. /\ clock = 0 /\ lock = Nobody /\ status = [p \in Proc |-> "off"]
      /\ timer = [p \in Proc |-> FALSE]
      /\ local = [p \in Proc |-> [j \in Jobs |-> NoRow]]
      /\ sched = [p \in Proc |-> [j \in Jobs |-> "none"]]
      /\ arg = [p \in Proc |-> [j \in Jobs |-> 0]]
      /\ aborted = [p \in Proc |-> {}] /\ failed = [p \in Proc |-> {}]
      /\ outbox = [p \in Proc |-> <<>>]
      /\ used = {} /\ starts = [j \in Jobs |-> 0]
  BY DEF Init
<1>3. Types
  <2>1. /\ clock \in 0..MaxTime /\ lock \in Proc \cup {Nobody}
        /\ status \in [Proc -> {"off", "up", "dead"}] /\ timer \in [Proc -> BOOLEAN]
        /\ arg \in [Proc -> [Jobs -> Nat]]
        /\ aborted \in [Proc -> SUBSET Jobs] /\ failed \in [Proc -> SUBSET Jobs]
        /\ used \in SUBSET Jobs /\ starts \in [Jobs -> Nat]
    BY <1>2, BoundsAssumption
  <2>2. local \in [Proc -> [Jobs -> Stored]]
    BY <1>2 DEF Stored
  <2>3. sched \in [Proc -> [Jobs -> Places]]
    BY <1>2 DEF Places
  <2>4. outbox \in [Proc -> Seq(Event)]
    BY <1>2
  <2> QED BY <1>0, <2>1, <2>2, <2>3, <2>4 DEF Types
<1>4. Standing
  <2> SUFFICES ASSUME NEW p \in Proc, NEW j \in Jobs PROVE Stands(p, j)
    BY DEF Standing
  <2>1. sched[p][j] = "none"
    BY <1>2
  <2> QED BY <2>1 DEF Stands, Placed, Through, Past, Scheduled, Tokens
<1>5. Mail
  <2> SUFFICES ASSUME NEW p \in Proc PROVE MailOf(p)
    BY DEF Mail
  <2>1. outbox[p] = <<>> /\ lock # p /\ \A j \in Jobs: sched[p][j] = "none"
    BY <1>2, NobodyAssumption
  <2> QED BY <2>1 DEF MailOf
<1>6. Started
  BY <1>1, <1>2 DEF Started, NoRow, NoActivity
<1>7. Room
  <2>1. Running(journal) = {}
    BY <1>1 DEF Running, NoActivity
  <2> QED BY <2>1, FS_EmptySet, BoundsAssumption DEF Room
<1> QED BY <1>3, <1>4, <1>5, <1>6, <1>7 DEF Inv

\* A turn of a runtime that is not about to invoke a callback.
LEMMA TurnAside ==
  ASSUME Inv, Starting, NEW p \in Proc, NEW t, starting[p] = {}, EndTurn(p, t),
         UNCHANGED <<starting, starts>>,
         \A q \in Proc \ {p}: status'[q] = status[q]
  PROVE  Starting'
<1>1. \A q \in Proc \ {p}: sched'[q] = sched[q]
  BY EndAside
<1> QED BY <1>1 DEF Starting

\* A runtime that has yet to be constructed invokes nothing.
LEMMA OffStartsNothing ==
  ASSUME Starting, NEW p \in Proc, status[p] # "up"
  PROVE  starting[p] = {}
BY DEF Starting

\* The journal moves by one event of the fold at a time.
Moves == [JournalNext]_journal

\* Every step keeps the invariant.
LEMMA NextKeeps ==
  ASSUME Inv, Starting, [Next]_vars
  PROVE  Inv' /\ Starting' /\ Moves
<1>1. ASSUME NEW p \in Proc, Boot(p) PROVE Inv' /\ Starting' /\ Moves
  <2>1. PICK t: EndTurn(p, t)
    BY <1>1 DEF Boot
  <2>2. /\ UNCHANGED <<journal, starting, starts>> /\ status[p] # "up"
        /\ \A q \in Proc \ {p}: status'[q] = status[q]
    BY <1>1 DEF Boot, Inv, Types
  <2> QED BY <1>1, <2>1, <2>2, BootKeeps, OffStartsNothing, TurnAside DEF Moves
<1>2. ASSUME NEW p \in Proc, Heartbeat(p) PROVE Inv' /\ Starting' /\ Moves
  <2>1. PICK t: EndTurn(p, t)
    BY <1>2 DEF Heartbeat
  <2>2. UNCHANGED <<journal, status, starting, starts>> /\ starting[p] = {}
    BY <1>2 DEF Heartbeat, Ready
  <2> QED BY <1>2, <2>1, <2>2, HeartbeatKeeps, TurnAside DEF Moves
<1>3. ASSUME NEW p \in Proc, Status(p) PROVE Inv' /\ Starting' /\ Moves
  <2>1. PICK t: EndTurn(p, t)
    BY <1>3 DEF Status
  <2>2. UNCHANGED <<journal, status, starting, starts>> /\ starting[p] = {}
    BY <1>3 DEF Status, Ready
  <2> QED BY <1>3, <2>1, <2>2, StatusKeeps, TurnAside DEF Moves
<1>6. ASSUME NEW p \in Proc, NEW j \in Jobs, Submit(p, j) PROVE Inv' /\ Starting' /\ Moves
  <2>1. PICK t: EndTurn(p, t)
    BY <1>6 DEF Submit
  <2>2. UNCHANGED <<journal, status, starting, starts>> /\ starting[p] = {}
    BY <1>6 DEF Submit, Ready
  <2> QED BY <1>6, <2>1, <2>2, SubmitKeeps, TurnAside DEF Moves
<1>7. ASSUME NEW p \in Proc, NEW j \in Jobs, Dispatch(p, j) PROVE Inv' /\ Starting' /\ Moves
  <2>1. PICK t: EndTurn(p, t)
    BY <1>7 DEF Dispatch
  <2>2. UNCHANGED <<journal, status, starting, starts>> /\ starting[p] = {}
    BY <1>7 DEF Dispatch, Ready
  <2> QED BY <1>7, <2>1, <2>2, DispatchKeeps, TurnAside DEF Moves
<1>10. ASSUME NEW p \in Proc, NEW j \in Jobs, Settle(p, j) PROVE Inv' /\ Starting' /\ Moves
  <2>1. PICK t: EndTurn(p, t)
    BY <1>10 DEF Settle
  <2>2. UNCHANGED <<journal, status, starting, starts>> /\ starting[p] = {}
    BY <1>10 DEF Settle, Ready
  <2> QED BY <1>10, <2>1, <2>2, SettleKeeps, TurnAside DEF Moves
<1>12. ASSUME NEW p \in Proc, NEW j \in Jobs, Reclaim(p, j) PROVE Inv' /\ Starting' /\ Moves
  <2>1. PICK t: EndTurn(p, t)
    BY <1>12 DEF Reclaim
  <2>2. UNCHANGED <<journal, status, starting, starts>> /\ starting[p] = {}
    BY <1>12 DEF Reclaim, Ready
  <2> QED BY <1>12, <2>1, <2>2, ReclaimKeeps, TurnAside DEF Moves
<1>13. ASSUME NEW p \in Proc, NEW j \in Jobs, Claimed(p, j) PROVE Inv' /\ Starting' /\ Moves
  <2>1. PICK t: EndTurn(p, t)
    BY <1>13 DEF Claimed
  <2>2. UNCHANGED <<journal, status, starting, starts>> /\ starting[p] = {}
    BY <1>13 DEF Claimed, Ready
  <2> QED BY <1>13, <2>1, <2>2, ClaimedKeeps, TurnAside DEF Moves
<1>14. ASSUME NEW p \in Proc, NEW j \in Jobs, Cancel(p, j) PROVE Inv' /\ Starting' /\ Moves
  <2>1. PICK t: EndTurn(p, t)
    BY <1>14 DEF Cancel
  <2>2. UNCHANGED <<journal, status, starting, starts>> /\ starting[p] = {}
    BY <1>14 DEF Cancel, Ready
  <2> QED BY <1>14, <2>1, <2>2, CancelKeeps, TurnAside DEF Moves
<1>4. ASSUME NEW p \in Proc, Flush(p) PROVE Inv' /\ Starting' /\ Moves
  <2>1. UNCHANGED <<status, sched, starting, starts>>
    BY <1>4 DEF Flush, runtimes
  <2> QED BY <1>4, <2>1, FlushKeeps DEF Moves, JournalNext, Starting
<1>5. ASSUME NEW p \in Proc, Crash(p) PROVE Inv' /\ Starting' /\ Moves
  <2>1. /\ UNCHANGED <<journal, starts>> /\ starting' = [starting EXCEPT ![p] = {}]
        /\ status' = [status EXCEPT ![p] = "dead"]
        /\ sched' = [sched EXCEPT ![p] = [j \in Jobs |-> "none"]]
    BY <1>5 DEF Crash
  <2>2. \A q \in Proc \ {p}: status'[q] = status[q] /\ sched'[q] = sched[q]
    BY <2>1 DEF Inv, Types
  <2>3. Starting'
    BY <2>1, <2>2 DEF Starting
  <2> QED BY <1>5, <2>1, <2>3, CrashKeeps DEF Moves
<1>8. ASSUME NEW p \in Proc, NEW j \in Jobs, Execute(p, j) PROVE Inv' /\ Starting' /\ Moves
  <2>1. /\ Inv' /\ status[p] = "up" /\ UNCHANGED <<journal, status, starts>>
        /\ \A q \in Proc \ {p}: sched'[q] = sched[q]
        /\ \/ starting' = [starting EXCEPT ![p] = {}]
           \/ /\ starting' = [starting EXCEPT ![p] = {j}]
              /\ sched'[p][j] = "run" /\ starts[j] = 0
    BY <1>8, ExecuteKeeps
  <2>2. Starting'
    BY <2>1 DEF Starting
  <2> QED BY <2>1, <2>2 DEF Moves
<1>9. ASSUME NEW p \in Proc, NEW j \in Jobs, Return(p, j) PROVE Inv' /\ Starting' /\ Moves
  <2>1. /\ UNCHANGED <<journal, status, starting, starts>> /\ starting[p] = {}
        /\ sched' = [sched EXCEPT ![p][j] = "settle"]
    BY <1>9 DEF Return, Ready
  <2>2. \A q \in Proc \ {p}: sched'[q] = sched[q]
    BY <2>1 DEF Inv, Types
  <2>3. Starting'
    BY <2>1, <2>2 DEF Starting
  <2> QED BY <1>9, <2>1, <2>3, ReturnKeeps DEF Moves
<1>11. ASSUME NEW p \in Proc, NEW j \in Jobs, Finish(p, j) PROVE Inv' /\ Starting' /\ Moves
  <2>0. PICK h: h = (j \in aborted[p])
    OBVIOUS
  <2>1. PICK held \in BOOLEAN: FinishAs(p, j, held)
    <3>1. FinishAs(p, j, h) \/ FinishAs(p, j, TRUE)
      BY <1>11, <2>0 DEF Finish
    <3>2. h \in BOOLEAN /\ TRUE \in BOOLEAN
      BY <2>0
    <3> QED BY <3>1, <3>2
  <2>2. PICK t: EndTurn(p, t)
    BY <2>1 DEF FinishAs
  <2>3. UNCHANGED <<journal, status, starting, starts>> /\ starting[p] = {}
    BY <2>1 DEF FinishAs, Ready
  <2> QED BY <2>1, <2>2, <2>3, FinishKeeps, TurnAside DEF Moves
<1>15. ASSUME Tick \/ UNCHANGED vars PROVE Inv' /\ Starting' /\ Moves
  <2>1. UNCHANGED <<journal, lock, runtimes, outbox, used, starting, starts>>
    BY <1>15 DEF Tick, vars
  <2>2. clock' \in 0..MaxTime
    BY <1>15, BoundsAssumption DEF Tick, vars, Inv, Types
  <2>3. Starting'
    BY <2>1 DEF Starting, runtimes
  <2> QED BY <2>1, <2>2, <2>3, IdleKeeps DEF Moves
<1>16. ASSUME NEW p \in Proc, NEW j \in Jobs, Invoke(p, j) PROVE Inv' /\ Starting' /\ Moves
  <2>1. /\ UNCHANGED <<journal, status, sched>> /\ starting' = [starting EXCEPT ![p] = {}]
        /\ starts' = [starts EXCEPT ![j] = @ + 1] /\ j \in starting[p]
    BY <1>16 DEF Invoke, runtimes
  <2>2. ASSUME NEW q \in Proc \ {p} PROVE j \notin starting[q]
    <3>1. CASE sched[q][j] = "run"
      <4>1. OnRecord(p, journal.acts[j], "run") /\ OnRecord(q, journal.acts[j], "run")
        BY <2>1, <3>1 DEF Starting, Inv, Standing, Stands
      <4> QED BY <4>1 DEF OnRecord
    <3> QED BY <3>1 DEF Starting
  <2>3. \A k \in Jobs \ {j}: starts'[k] = starts[k]
    BY <2>1 DEF Inv, Types
  <2>4. Starting'
    BY <2>1, <2>2, <2>3 DEF Starting
  <2> QED BY <1>16, <2>1, <2>4, InvokeKeeps DEF Moves
<1>17. \/ \E p \in Proc: Boot(p) \/ Heartbeat(p) \/ Status(p) \/ Flush(p) \/ Crash(p)
       \/ \E p \in Proc, j \in Jobs:
            \/ Submit(p, j) \/ Dispatch(p, j) \/ Execute(p, j) \/ Invoke(p, j) \/ Return(p, j)
            \/ Settle(p, j) \/ Finish(p, j) \/ Reclaim(p, j) \/ Claimed(p, j) \/ Cancel(p, j)
       \/ Tick \/ UNCHANGED vars
  BY DEF Next
<1> QED BY <1>1, <1>2, <1>3, <1>4, <1>5, <1>6, <1>7, <1>8, <1>9, <1>10, <1>11, <1>12, <1>13,
           <1>14, <1>15, <1>16, <1>17

\* The invariant of the runtimes and the journal holds for ever.
THEOREM Invariance == Spec => [](Inv /\ Starting)
<1>1. Inv /\ Starting /\ [Next]_vars => Inv' /\ Starting'
  BY NextKeeps
<1>2. Init => Starting
  BY DEF Init, Starting
<1> QED BY <1>1, <1>2, InitInv, PTL DEF Spec

\* The runtimes are writers of the journal: whatever their turns decide, the
\* journal changes by one event at a time, under the rules of the fold.
THEOREM RuntimesImplementJournal == Spec => JournalSpec
<1>1. Init => JournalInit
  BY DEF Init
<1>2. Inv /\ Starting /\ [Next]_vars => [JournalNext]_journal
  BY NextKeeps DEF Moves
<1> QED BY <1>1, <1>2, Invariance, PTL DEF Spec, JournalSpec

\* The journal is well formed, claimed jobs have local rows, and a runtime
\* with the lock is about to stage what it decided under it.
THEOREM TypeCorrect == Spec => []TypeOK
<1>1. Inv => TypeOK
  <2> SUFFICES ASSUME Inv PROVE TypeOK
    OBVIOUS
  <2>1. JournalTypeOK /\ clock \in 0..MaxTime /\ used \subseteq Jobs
    BY DEF Inv, Types, JournalInv, JournalTypeOK
  <2>2. Stored \subseteq Row
    BY RecordIsRow DEF Stored, NoRow, Row
  <2>3. ASSUME NEW p \in Proc, NEW j \in Jobs
        PROVE  /\ local[p][j] \in Row /\ sched[p][j] \in Places
               /\ sched[p][j] \in Scheduled \ {"admit"} => local[p][j].state # "none"
    BY <2>2 DEF Inv, Types, Standing, Stands, Placed
  <2>4. ASSUME NEW p \in Proc
        PROVE  /\ status[p] \in {"off", "up", "dead"}
               /\ \A i \in DOMAIN outbox[p]: outbox[p][i] \in Event
               /\ lock = p => outbox[p] # <<>>
    <3>1. outbox[p] \in Seq(Event) /\ status[p] \in {"off", "up", "dead"}
      BY DEF Inv, Types
    <3>2. \A i \in DOMAIN outbox[p]: outbox[p][i] \in Event
      BY <3>1
    <3> QED BY <3>1, <3>2 DEF Inv, Mail, MailOf
  <2> QED BY <2>1, <2>3, <2>4 DEF TypeOK
<1> QED BY <1>1, Invariance, PTL

\* The callback of a job is invoked at most once, over takeovers, dead owners,
\* late heartbeats and cancellations.
THEOREM OnceOnly == Spec => []CallbackOnce
<1>1. Inv => CallbackOnce
  BY DEF Inv, Started, CallbackOnce
<1> QED BY <1>1, Invariance, PTL

\* A running callback is on record as its runtime's.
LEMMA RecordHolds == Inv => CallbackOnRecord
<1> SUFFICES ASSUME Inv, NEW x \in Callbacks
             PROVE  /\ journal.acts[x[2]].state = "running" /\ journal.acts[x[2]].owner = x[1]
                    /\ journal.rows[x[2]].owner = x[1]
  BY DEF CallbackOnRecord
<1>1. x[1] \in Proc /\ x[2] \in Jobs /\ sched[x[1]][x[2]] = "run"
  BY DEF Callbacks
<1>2. OnRecord(x[1], journal.acts[x[2]], "run")
  BY <1>1 DEF Inv, Standing, Stands
<1>3. journal.acts[x[2]].state = "running" /\ journal.acts[x[2]].owner = x[1]
  BY <1>2 DEF OnRecord
<1> QED BY <1>1, <1>3 DEF Inv, Types, JournalInv, Claims

\* Nobody can take over a job, or its capacity, while its callback runs.
THEOREM CallbacksOnRecord == Spec => []CallbackOnRecord
BY RecordHolds, Invariance, PTL

\* The callbacks of all runtimes together stay under the ceiling, and none
\* runs beside one that claims its resource.
THEOREM CapacityIsHeld == Spec => []CapacityHeld
<1>1. Inv => CapacityHeld
  <2> SUFFICES ASSUME Inv PROVE CapacityHeld
    OBVIOUS
  <2>1. PICK C: C = Callbacks
    OBVIOUS
  <2>2. PICK R: R = Running(journal)
    OBVIOUS
  <2>3. \A x \in C: /\ x = <<x[1], x[2]>> /\ x[2] \in R /\ journal.acts[x[2]].owner = x[1]
    BY <2>1, <2>2, RecordHolds DEF CallbackOnRecord, Callbacks, Running
  <2>4. PICK f: f = [x \in C |-> x[2]]
    OBVIOUS
  <2>5. f \in Injection(C, R)
    <3>1. f \in [C -> R]
      BY <2>3, <2>4
    <3>2. \A x, y \in C: f[x] = f[y] => x = y
      BY <2>3, <2>4
    <3> QED BY <3>1, <3>2, Fun_IsInj
  <2>6. IsFiniteSet(R) /\ Cardinality(R) \in Nat /\ Cardinality(R) <= Ceiling
    BY <2>2, RunningFinite DEF Inv, Room
  <2>7. IsFiniteSet(C) /\ Cardinality(C) <= Cardinality(R)
    BY <2>5, <2>6, FS_Injection
  <2>8. Cardinality(C) <= Ceiling
    BY <2>6, <2>7, FS_CardinalityType, BoundsAssumption
  <2>9. \A x, y \in C: x # y => x[2] # y[2]
    BY <2>3
  <2>10. \A x, y \in C: x # y => ~Clash(x[2], y[2])
    BY <2>2, <2>3, <2>9 DEF Inv, Room
  <2> QED BY <2>1, <2>8, <2>10 DEF CapacityHeld
<1> QED BY <1>1, Invariance, PTL

\* No event takes a cancellation back.
LEMMA CancelledStays ==
  ASSUME NEW s \in Journal, NEW e \in Event
  PROVE  s.cancelled \subseteq Fold(s, e).cancelled
<1>1. e.kind \in {"intent", "reclaimed", "dispatch", "settled", "cancel", "heartbeat"}
  BY DEF Event
<1>2. \A j, r: SetRow(s, j, r).cancelled = s.cancelled
  BY DEF SetRow, Journal
<1>3. Poison(s).cancelled = s.cancelled
  BY DEF Poison, Journal
<1>4. FoldIntent(s, e).cancelled = s.cancelled
  BY <1>2 DEF FoldIntent
<1>5. FoldReclaimed(s, e).cancelled = s.cancelled
  BY <1>2, <1>3 DEF FoldReclaimed
<1>6. FoldDispatch(s, e).cancelled = s.cancelled
  BY <1>3 DEF FoldDispatch, Journal
<1>7. FoldSettled(s, e).cancelled = s.cancelled
  BY <1>3 DEF FoldSettled, Journal
<1>8. s.cancelled \subseteq FoldCancel(s, e).cancelled
  BY DEF FoldCancel, Journal
<1>9. FoldHeartbeat(s, e).cancelled = s.cancelled
  BY DEF FoldHeartbeat, Journal
<1> QED BY <1>1, <1>4, <1>5, <1>6, <1>7, <1>8, <1>9 DEF Fold

\* A job whose cancellation is on record before its dispatch stays undispatched
\* for good and its callback is never invoked.
THEOREM CancelledStayOff == Spec => CancelledNeverRuns
<1> DEFINE Body == \A j \in Jobs:
       j \in journal.cancelled /\ journal.acts[j].state = "none" =>
         /\ j \in journal'.cancelled /\ journal'.acts[j].state = "none"
         /\ starts[j] = 0 /\ starts'[j] = 0
<1>1. Inv /\ Starting /\ [Next]_vars => [Body]_vars
  <2> SUFFICES ASSUME Inv, Starting, [Next]_vars, NEW j \in Jobs,
                      j \in journal.cancelled, journal.acts[j].state = "none"
               PROVE  /\ j \in journal'.cancelled /\ journal'.acts[j].state = "none"
                      /\ starts[j] = 0 /\ starts'[j] = 0
    OBVIOUS
  <2>1. Inv' /\ [JournalNext]_journal
    BY NextKeeps DEF Moves
  <2>2. JournalInv /\ journal \in Journal
    BY DEF Inv, Types, JournalInv
  <2>3. journal'.acts[j].state = "none"
    BY <2>1, <2>2, JournalStep DEF JobStep
  <2>4. j \in journal'.cancelled
    BY <2>1, <2>2, CancelledStays DEF JournalNext
  <2>5. starts \in [Jobs -> Nat] /\ starts' \in [Jobs -> Nat] /\ starts[j] <= 1 /\ starts'[j] <= 1
        /\ starts[j] # 1 /\ starts'[j] # 1
    BY <2>1, <2>3 DEF Inv, Types, Started
  <2>6. starts[j] \in Nat /\ starts'[j] \in Nat
    BY <2>5
  <2> QED BY <2>3, <2>4, <2>5, <2>6
<1> QED BY <1>1, Invariance, PTL DEF Spec, CancelledNeverRuns

\* What the fold promises of any writers holds of the runtimes.
THEOREM RuntimesKeepJournal ==
  Spec => []ClaimIsExclusive /\ FinalStays /\ LeaseNeverShortened /\ CancelledNotDispatched
BY RuntimesImplementJournal, ClaimsAreExclusive, FinalRowsStay, LeasesOnlyGrow,
   CancelledStayIdle, PTL
=============================================================================
