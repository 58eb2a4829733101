----------------------- MODULE MultiRepositoryProofs -----------------------
(***************************************************************************)
(* Proofs about MultiRepository for every number of repositories, of calls *)
(* and of commits of others: nothing is pushed that is not on record,      *)
(* merges are undone in reverse order over all calls, a transaction ends   *)
(* as it says, and one that has ended changes no branch, save that the     *)
(* coordinator compensates after a commit receipt whose seal has failed.   *)
(*                                                                         *)
(* What carries the proofs is what the records say of the branches.  A     *)
(* record is on the spine or queued for it, and a crash drops the queue:   *)
(* what a record entails is said of both, what a branch entails of the     *)
(* spine alone.                                                            *)
(***************************************************************************)
EXTENDS MultiRepository, FiniteSetTheorems, SequenceTheorems, TLAPS

Merging == {"merge", "appraise", "push", "undo"}   \* in GitMergePort.merge
Applying == {"apply", "again"} \cup Merging
Reverting == {"revert", "repush"}
Stations == {"idle", "load", "preflight", "survey", "verify", "commit", "end"}
              \cup Applying \cup Reverting
Kinds == {"plan", "bound", "attempt", "closed", "absent", "applied", "compensating", "compensated",
          "committed", "terminal"}
Ways == {"", "reconciled-effect-absent", "effect-occurred-verified", "reverted", "failed",
         "refused", "uncertain", "rollback-failed"}

EventType == [ev: Kinds, repo: Int, n: Int, how: Ways]
CommitType == [kind: {"merge", "revert", "other"}, n: Nat]
CallType == [pc: Stations, at: Int, sealing: BOOLEAN, queue: Seq(EventType),
             applied: SUBSET Repo, pending: [Repo -> Int], status: Ways]

\* What is recorded, and what is recorded or about to be.
OnSpine == Elements(log)
Staged == OnSpine \cup Elements(call.queue)
Of(records, ev) == {e \in records: e.ev = ev}
Repos(records, ev) == {e.repo: e \in Of(records, ev)}

Shapes ==
  /\ mode \in {"remote", "local"}
  /\ local \in [Repo -> Seq(CommitType)] /\ remote \in [Repo -> Seq(CommitType)]
  /\ head \in [Repo -> {"candidate", "base"}]
  /\ merges \in [Repo -> Nat]
  /\ log \in Seq(EventType) /\ call \in CallType /\ result \in Ways \cup {"none", "committed"}
  /\ mode = "local" => \A r \in Repo: remote[r] = <<>>

\* Where the call is.
Positions ==
  /\ ~call.sealing \/ call.pc \in {"idle", "load"} => call.queue = <<>>
  /\ call.pc = "idle" \/ result = "none"
  /\ call.pc \in {"preflight", "survey", "verify"} \cup Applying => call.at \in Repo
  /\ call.pc \in Reverting => call.at \in {0} \cup call.applied
  /\ call.pc = "repush" => call.at # 0

\* What the records are of, and what the call knows of them.
Records ==
  /\ \A e \in Staged: /\ e.ev \in {"applied", "compensated"} => e.repo \in Repo
                      /\ e.ev = "compensated" => /\ e.repo \in Applied
                                                 /\ e.how \in {"reverted", "failed"}
                      /\ e.ev = "compensating" => e.how # "refused"
  /\ call.pc \notin {"idle", "load"} =>
       /\ call.applied = Repos(Staged, "applied")
       /\ \E k \in 0..N: call.applied = 1..k
  /\ call.pc \in {"push", "commit", "end"} \cup Reverting => call.applied = Applied
  /\ call.pc = "preflight" => Of(Staged, "plan") = {}
  /\ call.pc \in {"survey", "apply"} => Of(Staged, "plan") # {}
  /\ call.pc \in Applying \ {"apply"} => Of(OnSpine, "plan") # {}

\* A base branch in a worktree: as it was, merged, or merged and reverted.
Local(r) == {<<>>, <<Merged(r)>>, <<Merged(r), Reverted(r)>>}

\* The repositories are merged in order, each as far as the records say.
Order ==
  /\ \A r \in Repo:
       /\ local[r] \in Local(r)
       /\ head[r] = "candidate" => local[r] = <<>> /\ Merged(r) \notin Elements(remote[r])
       /\ head[r] = "base" => Of(OnSpine, "plan") # {} /\ 1..(r - 1) \subseteq Applied
       /\ mode = "remote" /\ Merged(r) \in Elements(remote[r]) =>
            {Event("bound", r, merges[r], ""), Event("attempt", r, merges[r], "")} \subseteq OnSpine
  /\ \A r \in Repos(Staged, "applied"):
       /\ head[r] = "base" /\ local[r] # <<>> /\ Merged(r) \in Elements(Target(r))
       /\ Reverted(r) \in Elements(local[r]) => Of(OnSpine, "compensating") # {}
  /\ \A r \in Repo: Reverted(r) \in Elements(remote[r]) => Of(OnSpine, "compensating") # {}

\* The repository the call is at.
Reached ==
  /\ call.pc \in Applying => 1..(call.at - 1) \subseteq call.applied
  /\ call.pc \in Applying =>
       \A r \in Repo: /\ r \notin call.applied /\ call.pending[r] = 0
                      /\ r > call.at \/ call.pc = "apply"
                      => head[r] = "candidate"
  /\ call.pc = "survey" =>
       \A r \in Repo: r < call.at /\ r \notin call.applied /\ call.pending[r] = 0
                        => head[r] = "candidate"
  /\ call.pc \in Applying \ {"apply"} =>
       /\ call.at \notin call.applied /\ head[call.at] = "base"
       /\ Merged(call.at) \notin Elements(remote[call.at])
  /\ call.pc = "again" => Merged(call.at) \notin Elements(Target(call.at))
  /\ call.pc = "merge" => local[call.at] = <<>>
  /\ call.pc \in {"appraise", "push", "undo"} => local[call.at] = <<Merged(call.at)>>
  /\ call.pc = "push" =>
       {Event("bound", call.at, merges[call.at], ""),
        Event("attempt", call.at, merges[call.at], "")} \subseteq Staged
  /\ call.pc = "verify" => call.applied = Repo

\* A compensation goes from the last repository to the first.
Compensation ==
  /\ Of(Staged, "compensating") # {} => call.pc \in {"idle", "load", "end"} \cup Reverting
  /\ call.pc \in Reverting =>
       /\ \E e \in Of(Staged, "compensating"): e.how = call.status
       /\ \A s \in call.applied: s > call.at => s \in Repos(Staged, "compensated")
  /\ call.pc = "repush" => Of(OnSpine, "compensating") # {} /\ mode = "remote"
                             /\ Reverted(call.at) \in Elements(local[call.at])

\* The part of the invariant that is about the call.
Control == Positions /\ Records /\ Reached /\ Compensation

Backward == Compensation /\ ReverseOrder

\* Nothing is queued that ends the transaction or undoes a part of it.
Preparing == {"plan", "bound", "attempt", "closed", "absent", "applied"}
Plain == call.pc \notin {"commit", "end"} /\ \A e \in Elements(call.queue): e.ev \in Preparing

Inv == Shapes /\ Positions /\ Records /\ Order /\ Reached /\ Backward

\* What the records of the end say.
Outcome ==
  /\ Of(Staged, "terminal") # {} => call.pc \in {"idle", "load", "end"}
  /\ Of(Staged, "committed") # {} => call.pc \in {"idle", "load", "commit", "end"} \cup Reverting
  /\ Of(Staged, "committed") # {} => \A e \in Of(Staged, "compensating"): e.how = "uncertain"
  /\ call.pc = "commit" => call.applied = Repo /\ Of(Staged, "committed") # {}
  /\ call.pc = "end" => \E e \in Of(Staged, "terminal"): e.how = call.status
  /\ Of(Staged, "committed") # {} /\ Of(OnSpine, "compensating") = {} => \A r \in Repo: Carries(r)
  /\ \A e \in Staged:
       /\ e.ev = "compensated" /\ e.how = "reverted" => Reverted(e.repo) \in Elements(Target(e.repo))
       /\ e.ev = "compensating" /\ e.how = "reverted" => \A r \in Repo \ Applied: ~Carries(r)
       /\ e.ev = "terminal" /\ e.how = "reverted" => \A r \in Repo: ~Carries(r)
       /\ e.ev = "terminal" /\ e.how = "refused" /\ mode = "remote" => \A r \in Repo: ~Carries(r)
  /\ result = "committed" => Of(OnSpine, "committed") # {}
  /\ result = "reverted" => \A r \in Repo: ~Carries(r)
  /\ result = "refused" /\ mode = "remote" => \A r \in Repo: ~Carries(r)

-----------------------------------------------------------------------------
(* Facts about the operators. *)

\* The elements of the sequences that the steps build.
LEMMA ElementsAppend ==
  ASSUME NEW S, NEW p \in Seq(S), NEW x \in S
  PROVE  Append(p, x) \in Seq(S) /\ Elements(Append(p, x)) = Elements(p) \cup {x}
<1>1. /\ Append(p, x) \in Seq(S) /\ Len(p) \in Nat
      /\ DOMAIN p = 1..Len(p) /\ DOMAIN Append(p, x) = 1..(Len(p) + 1)
      /\ \A i \in 1..Len(p): Append(p, x)[i] = p[i]
      /\ Append(p, x)[Len(p) + 1] = x
  BY AppendProperties, LenProperties
<1>2. \A k: k \in 1..(Len(p) + 1) <=> k \in 1..Len(p) \/ k = Len(p) + 1
  BY <1>1
<1>3. ASSUME NEW e, e \in Elements(Append(p, x)) PROVE e \in Elements(p) \cup {x}
  <2>1. PICK i \in 1..(Len(p) + 1): e = Append(p, x)[i]
    BY <1>1, <1>3 DEF Elements
  <2> QED BY <1>1, <1>2, <2>1 DEF Elements
<1>4. ASSUME NEW e, e \in Elements(p) \cup {x} PROVE e \in Elements(Append(p, x))
  <2>1. CASE e = x
    BY <1>1, <1>2, <2>1 DEF Elements
  <2>2. CASE e \in Elements(p)
    <3>1. PICK i \in 1..Len(p): e = p[i]
      BY <1>1, <2>2 DEF Elements
    <3> QED BY <1>1, <1>2, <3>1 DEF Elements
  <2> QED BY <1>4, <2>1, <2>2
<1> QED BY <1>1, <1>3, <1>4

LEMMA ElementsTail ==
  ASSUME NEW S, NEW p \in Seq(S), p # <<>>
  PROVE  /\ Tail(p) \in Seq(S) /\ Head(p) \in S
         /\ Elements(p) = Elements(Tail(p)) \cup {Head(p)}
<1>1. /\ Tail(p) \in Seq(S) /\ Head(p) \in S
      /\ Len(p) \in Nat \ {0} /\ Len(Tail(p)) = Len(p) - 1 /\ p[1] = Head(p)
      /\ \A i \in 1..(Len(p) - 1): Tail(p)[i] = p[i + 1]
      /\ DOMAIN p = 1..Len(p) /\ DOMAIN Tail(p) = 1..Len(Tail(p))
  BY HeadTailProperties, LenProperties
<1>2. ASSUME NEW n \in Nat \ {0}, NEW k \in 1..n
      PROVE  k = 1 \/ (k - 1 \in 1..(n - 1) /\ (k - 1) + 1 = k)
  OBVIOUS
<1>3. ASSUME NEW n \in Nat \ {0}
      PROVE  1 \in 1..n /\ \A k \in 1..(n - 1): k + 1 \in 1..n
  OBVIOUS
<1>4. \A k \in DOMAIN p: k = 1 \/ \E i \in DOMAIN Tail(p): p[k] = Tail(p)[i]
  BY <1>1, <1>2
<1>5. 1 \in DOMAIN p /\ \A i \in DOMAIN Tail(p): \E k \in DOMAIN p: Tail(p)[i] = p[k]
  BY <1>1, <1>3
<1>6. ASSUME NEW e, e \in Elements(p) PROVE e \in Elements(Tail(p)) \cup {Head(p)}
  BY <1>1, <1>4, <1>6 DEF Elements
<1>7. ASSUME NEW e, e \in Elements(Tail(p)) \cup {Head(p)} PROVE e \in Elements(p)
  BY <1>1, <1>5, <1>7 DEF Elements
<1> QED BY <1>1, <1>6, <1>7

LEMMA ElementsFew ==
  /\ Elements(<<>>) = {}
  /\ \A a: Elements(<<a>>) = {a}
  /\ \A a, b: Elements(<<a, b>>) = {a, b}
<1>1. Elements(<<>>) = {}
  BY DEF Elements
<1>2. ASSUME NEW a PROVE Elements(<<a>>) = {a}
  <2>1. DOMAIN <<a>> = {1} /\ <<a>>[1] = a
    OBVIOUS
  <2> QED BY <2>1 DEF Elements
<1>3. ASSUME NEW a, NEW b PROVE Elements(<<a, b>>) = {a, b}
  <2>1. DOMAIN <<a, b>> = {1, 2} /\ <<a, b>>[1] = a /\ <<a, b>>[2] = b
    OBVIOUS
  <2> QED BY <2>1 DEF Elements
<1> QED BY <1>1, <1>2, <1>3

LEMMA TipElement ==
  ASSUME NEW S, NEW p \in Seq(S), NEW x, Tip(p, x)
  PROVE  x \in Elements(p)
<1>1. Len(p) \in DOMAIN p
  BY LenProperties, EmptySeq DEF Tip
<1> QED BY <1>1 DEF Tip, Elements

\* The spine as the coordinator reads it.
SpineRead ==
  /\ Applied = Repos(OnSpine, "applied")
  /\ \A ev: Events(ev) # {} <=> Of(OnSpine, ev) # {}
  /\ \A ev: Events(ev) # {} => Sole(ev) \in Of(OnSpine, ev)
  /\ \A ev, r: Recorded(ev, r) <=> r \in Repos(OnSpine, ev)

LEMMA SpineView == SpineRead
<1>1. \A ev: \A i \in Events(ev): log[i] \in Of(OnSpine, ev)
  BY DEF Events, Of, OnSpine, Elements
<1>2. \A ev: \A e \in Of(OnSpine, ev): \E i \in Events(ev): e = log[i]
  BY DEF Events, Of, OnSpine, Elements
<1>3. Applied = Repos(OnSpine, "applied")
  <2>1. ASSUME NEW r, r \in Applied PROVE r \in Repos(OnSpine, "applied")
    BY <1>1, <2>1 DEF Applied, Repos
  <2>2. ASSUME NEW r, r \in Repos(OnSpine, "applied") PROVE r \in Applied
    BY <1>2, <2>2 DEF Applied, Repos
  <2> QED BY <2>1, <2>2
<1>4. \A ev: Events(ev) # {} <=> Of(OnSpine, ev) # {}
  BY <1>1, <1>2
<1>5. \A ev: Events(ev) # {} => Sole(ev) \in Of(OnSpine, ev)
  BY <1>1 DEF Sole
<1>6. \A ev, r: Recorded(ev, r) <=> r \in Repos(OnSpine, ev)
  BY DEF Recorded, Repos, Of, OnSpine
<1> QED BY <1>3, <1>4, <1>5, <1>6 DEF SpineRead

LEMMA SpineViewNext == SpineRead'
BY SpineView, PTL

\* Sets of records.
LEMMA RecordsMore ==
  ASSUME NEW A, NEW B, NEW ev
  PROVE  /\ Of(A \cup B, ev) = Of(A, ev) \cup Of(B, ev)
         /\ Repos(A \cup B, ev) = Repos(A, ev) \cup Repos(B, ev)
         /\ A \subseteq B => Of(A, ev) \subseteq Of(B, ev) /\ Repos(A, ev) \subseteq Repos(B, ev)
BY DEF Of, Repos

LEMMA EventFields ==
  ASSUME NEW ev \in Kinds, NEW r \in Int, NEW n \in Int, NEW how \in Ways
  PROVE  /\ Event(ev, r, n, how) \in EventType
         /\ Event(ev, r, n, how).ev = ev /\ Event(ev, r, n, how).repo = r
         /\ Event(ev, r, n, how).how = how
BY DEF Event, EventType

LEMMA EventExists ==
  \A ev \in Kinds, r \in Int, n \in Int, how \in Ways:
    \E x \in EventType: x = Event(ev, r, n, how) /\ x.ev = ev /\ x.repo = r /\ x.how = how
BY EventFields

\* Queues of one and of two events.
LEMMA Queues ==
  ASSUME NEW x \in EventType, NEW y \in EventType
  PROVE  <<x>> \in Seq(EventType) /\ <<x, y>> \in Seq(EventType)
OBVIOUS

\* The call's record.
LEMMA GotoFields ==
  ASSUME NEW c \in CallType, NEW l \in Stations, NEW r \in Int
  PROVE  LET d == Goto(c, l, r) IN
           /\ d \in CallType /\ d.pc = l /\ d.at = r /\ d.sealing = c.sealing /\ d.queue = c.queue
           /\ d.applied = c.applied /\ d.pending = c.pending /\ d.status = c.status
BY DEF Goto, CallType

LEMMA StageFields ==
  ASSUME NEW c \in CallType, NEW q \in Seq(EventType)
  PROVE  LET d == Stage(c, q) IN
           /\ d \in CallType /\ d.pc = c.pc /\ d.at = c.at /\ d.sealing = TRUE /\ d.queue = q
           /\ d.applied = c.applied /\ d.pending = c.pending /\ d.status = c.status
BY DEF Stage, CallType

LEMMA PcFields ==
  ASSUME NEW c \in CallType, NEW l \in Stations
  PROVE  LET d == [c EXCEPT !.pc = l] IN
           /\ d \in CallType /\ d.pc = l /\ d.at = c.at /\ d.sealing = c.sealing /\ d.queue = c.queue
           /\ d.applied = c.applied /\ d.pending = c.pending /\ d.status = c.status
BY DEF CallType

LEMMA NoCallFields ==
  /\ NoCall \in CallType /\ NoCall.pc = "idle" /\ NoCall.at = 0 /\ NoCall.sealing = FALSE
  /\ NoCall.queue = <<>> /\ NoCall.applied = {}
<1>1. [r \in Repo |-> 0] \in [Repo -> Int] /\ <<>> \in Seq(EventType)
  BY EmptySeq
<1>2. PICK z \in [Repo -> Int]: z = [r \in Repo |-> 0]
  BY <1>1
<1>3. PICK q \in Seq(EventType): q = <<>>
  BY <1>1
<1>4. "" \in Ways /\ "idle" \in Stations /\ {} \in SUBSET Repo
  BY DEF Ways, Stations
<1>5. ASSUME NEW s \in Ways, NEW l \in Stations, NEW e \in SUBSET Repo, NEW b \in BOOLEAN
      PROVE  [pc |-> l, at |-> 0, sealing |-> b, queue |-> q, applied |-> e,
              pending |-> z, status |-> s] \in CallType
  BY DEF CallType
<1>6. [pc |-> "idle", at |-> 0, sealing |-> FALSE, queue |-> q, applied |-> {},
       pending |-> z, status |-> ""] \in CallType
  BY <1>4, <1>5
<1>7. NoCall = [pc |-> "idle", at |-> 0, sealing |-> FALSE, queue |-> q, applied |-> {},
                pending |-> z, status |-> ""]
  BY <1>2, <1>3, Zenon DEF NoCall
<1> QED BY <1>3, <1>6, <1>7

-----------------------------------------------------------------------------
(* Steps that leave the branches alone. *)

LEMMA GitSame ==
  ASSUME UNCHANGED <<mode, git>>
  PROVE  /\ UNCHANGED <<mode, local, head, remote, merges>>
         /\ \A r: /\ Merged(r)' = Merged(r) /\ Reverted(r)' = Reverted(r)
                  /\ Target(r)' = Target(r) /\ Local(r)' = Local(r)
                  /\ Carries(r)' <=> Carries(r)
<1>1. UNCHANGED <<mode, local, head, remote, merges>>
  BY DEF git
<1>2. \A r: Merged(r)' = Merged(r) /\ Reverted(r)' = Reverted(r) /\ Target(r)' = Target(r)
  BY <1>1 DEF Merged, Reverted, Target
<1> QED BY <1>1, <1>2 DEF Local, Carries

\* The spine only grows, and what is on it was staged.
LEMMA OrderSame ==
  ASSUME Order, UNCHANGED <<mode, git>>, OnSpine \subseteq OnSpine',
         Repos(Staged', "applied") \subseteq Repos(Staged, "applied")
  PROVE  Order'
<1>1. /\ UNCHANGED <<mode, local, head, remote, merges>>
      /\ \A r: /\ Merged(r)' = Merged(r) /\ Reverted(r)' = Reverted(r)
               /\ Target(r)' = Target(r) /\ Local(r)' = Local(r)
  BY GitSame
<1>2. \A ev: Of(OnSpine, ev) \subseteq Of(OnSpine', ev)
  BY DEF Of
<1>3. Applied \subseteq Applied'
  <2>1. Applied' = Repos(OnSpine', "applied") /\ Applied = Repos(OnSpine, "applied")
    BY SpineView, SpineViewNext DEF SpineRead
  <2> QED BY <1>2, <2>1 DEF Repos
<1>4. \A r: Event("bound", r, merges[r], "")' = Event("bound", r, merges[r], "")
            /\ Event("attempt", r, merges[r], "")' = Event("attempt", r, merges[r], "")
  BY <1>1 DEF Event
<1>5. ASSUME NEW r \in Repo
      PROVE  /\ local'[r] \in Local(r)'
             /\ head'[r] = "candidate" => local'[r] = <<>> /\ Merged(r)' \notin Elements(remote'[r])
             /\ head'[r] = "base" => Of(OnSpine', "plan") # {} /\ 1..(r - 1) \subseteq Applied'
             /\ Reverted(r)' \in Elements(remote'[r]) => Of(OnSpine', "compensating") # {}
  BY <1>1, <1>2, <1>3 DEF Order
<1>6. ASSUME NEW r \in Repo, mode' = "remote", Merged(r)' \in Elements(remote'[r])
      PROVE  {Event("bound", r, merges'[r], ""), Event("attempt", r, merges'[r], "")} \subseteq OnSpine'
  <2>1. mode = "remote" /\ Merged(r) \in Elements(remote[r])
    BY <1>1, <1>6
  <2>2. {Event("bound", r, merges[r], ""), Event("attempt", r, merges[r], "")} \subseteq OnSpine
    BY <2>1 DEF Order
  <2> QED BY <1>1, <2>2
<1>7. ASSUME NEW r \in Repos(Staged', "applied")
      PROVE  /\ head'[r] = "base" /\ local'[r] # <<>> /\ Merged(r)' \in Elements(Target(r)')
             /\ Reverted(r)' \in Elements(local'[r]) => Of(OnSpine', "compensating") # {}
  BY <1>1, <1>2, <1>7 DEF Order
<1> QED BY <1>5, <1>6, <1>7 DEF Order

\* The call between two steps, in terms of its fields.
LEMMA Typed ==
  ASSUME Shapes
  PROVE  /\ call \in CallType /\ call.pc \in Stations /\ call.at \in Int /\ call.sealing \in BOOLEAN
         /\ call.queue \in Seq(EventType) /\ call.applied \subseteq Repo
         /\ call.pending \in [Repo -> Int] /\ call.status \in Ways
BY DEF Shapes, CallType

\* An order once reverse stays so while neither branches nor records change.
LEMMA ReverseSame ==
  ASSUME ReverseOrder, UNCHANGED <<local, merges, log>>
  PROVE  ReverseOrder'
BY DEF ReverseOrder, Applied, Recorded, Events, Reverted, Elements

\* The call waits for the spine.
Waits == /\ Staged' = Staged /\ OnSpine \subseteq OnSpine' /\ call'.pc = call.pc
         /\ call'.applied = call.applied /\ call'.status = call.status

\* An event of the queue goes to the spine.
LEMMA StageEventKeeps ==
  ASSUME Inv, StageEvent
  PROVE  Inv' /\ Waits
<1>0. Shapes /\ Positions /\ Records /\ Order /\ Reached /\ Backward
  BY DEF Inv
<1>1. PICK c \in CallType, q \in Seq(EventType), l \in Seq(EventType):
        c = call /\ q = call.queue /\ l = log /\ q # <<>> /\ q = c.queue
  BY <1>0, Typed DEF StageEvent, Shapes
<1>2. PICK x \in EventType, t \in Seq(EventType):
        x = Head(q) /\ t = Tail(q) /\ Elements(q) = Elements(t) \cup {x}
  BY <1>1, ElementsTail
<1>3. Append(l, x) \in Seq(EventType) /\ Elements(Append(l, x)) = Elements(l) \cup {x}
  BY ElementsAppend
<1>4. log' = Append(l, x) /\ call' = [c EXCEPT !.queue = t]
  BY <1>1, <1>2 DEF StageEvent
<1>5. /\ call' \in CallType /\ call'.pc = c.pc /\ call'.at = c.at /\ call'.sealing = c.sealing
      /\ call'.queue = t /\ call'.applied = c.applied /\ call'.pending = c.pending
      /\ call'.status = c.status
  BY <1>4 DEF CallType
<1>6. /\ call'.pc = call.pc /\ call'.at = call.at /\ call'.sealing = call.sealing /\ call.sealing
      /\ call'.applied = call.applied /\ call'.pending = call.pending /\ call'.status = call.status
      /\ UNCHANGED <<mode, git, result>>
      /\ call.pc \notin {"idle", "load"}
  BY <1>0, <1>1, <1>5 DEF StageEvent, Keep, Positions
<1>7. /\ OnSpine' = OnSpine \cup {x} /\ Staged' = Staged
      /\ OnSpine' \subseteq Staged /\ OnSpine \subseteq OnSpine'
  BY <1>1, <1>2, <1>3, <1>4, <1>5 DEF OnSpine, Staged
<1>8. /\ Applied = Repos(OnSpine, "applied") /\ Applied' = Repos(OnSpine', "applied")
      /\ Applied \subseteq Applied' /\ Applied' \subseteq Repos(Staged, "applied")
      /\ Repos(OnSpine, "compensated") \subseteq Repos(OnSpine', "compensated")
      /\ \A ev: Of(OnSpine, ev) \subseteq Of(OnSpine', ev)
  BY <1>7, SpineView, SpineViewNext DEF SpineRead, Repos, Of
<1>9. /\ UNCHANGED <<local, head, remote, merges>>
      /\ \A r: Merged(r)' = Merged(r) /\ Reverted(r)' = Reverted(r) /\ Target(r)' = Target(r)
  BY <1>6, GitSame
<1>10. Shapes'
  BY <1>0, <1>3, <1>4, <1>5, <1>6, <1>9 DEF Shapes
<1>11. Positions'
  BY <1>0, <1>6 DEF Positions
<1>12. Records'
  BY <1>0, <1>6, <1>7, <1>8 DEF Records
<1>13. Order'
  BY <1>0, <1>6, <1>7, OrderSame
<1>14. Reached'
  BY <1>0, <1>6, <1>7, <1>9, ZenonT(60) DEF Reached
<1>15. ReverseOrder'
  <2> SUFFICES ASSUME NEW r \in Applied', NEW z \in Applied', r < z,
                      Reverted(r)' \in Elements(local'[r])
               PROVE  Recorded("compensated", z)'
    BY DEF ReverseOrder
  <2>1. Of(OnSpine, "compensating") # {}
    BY <1>0, <1>8, <1>9 DEF Order
  <2>2. Of(Staged, "compensating") # {}
    BY <1>7, <2>1 DEF Of
  <2>3. call.pc \in {"end"} \cup Reverting
    BY <1>0, <1>6, <2>2 DEF Backward, Compensation
  <2>4. call.applied = Applied /\ call.applied = Repos(Staged, "applied")
    BY <1>0, <1>6, <2>3 DEF Records
  <2>5. r \in Applied /\ z \in Applied
    BY <1>8, <2>4
  <2>6. Recorded("compensated", z)
    BY <1>0, <1>9, <2>5 DEF Backward, ReverseOrder
  <2>7. z \in Repos(OnSpine', "compensated")
    BY <1>8, <2>6, SpineView DEF SpineRead
  <2> QED BY <2>7, SpineViewNext DEF SpineRead
<1>16. Backward'
  BY <1>0, <1>6, <1>7, <1>8, <1>9, <1>15 DEF Backward, Compensation
<1> QED BY <1>6, <1>7, <1>10, <1>11, <1>12, <1>13, <1>14, <1>16 DEF Inv, Waits

\* A step that changes only the call.
LEMMA CallStep ==
  ASSUME Inv, UNCHANGED <<mode, git, log>>, call' \in CallType,
         result' \in Ways \cup {"none", "committed"},
         Positions', Records', Reached', Compensation',
         Repos(Staged', "applied") \subseteq Repos(Staged, "applied")
  PROVE  Inv'
<1>1. Shapes'
  BY DEF Inv, Shapes, git
<1>2. Order'
  BY OrderSame DEF Inv, OnSpine
<1>3. ReverseOrder'
  BY ReverseSame DEF Inv, Backward, git
<1> QED BY <1>1, <1>2, <1>3 DEF Inv, Backward

\* The call is gone, and nothing is queued.
LEMMA ResetParts ==
  ASSUME Inv, call' = NoCall, UNCHANGED log
  PROVE  /\ call' \in CallType /\ Control' /\ Plain'
         /\ Repos(Staged', "applied") \subseteq Repos(Staged, "applied")
<1>1. call' \in CallType /\ call'.pc = "idle" /\ call'.queue = <<>>
  BY NoCallFields
<1>2. OnSpine' = OnSpine /\ Staged' = OnSpine /\ OnSpine \subseteq Staged /\ UNCHANGED Applied
  BY <1>1, ElementsFew DEF OnSpine, Staged, Applied, Events
<1>3. Positions' /\ Reached' /\ Compensation'
  BY <1>1 DEF Positions, Reached, Compensation, Applying, Merging, Reverting
<1>4. Records'
  BY <1>1, <1>2 DEF Inv, Records, Applying, Merging, Reverting
<1>5. Repos(Staged', "applied") \subseteq Repos(Staged, "applied")
  BY <1>2 DEF Repos, Of
<1>6. Plain'
  BY <1>1, ElementsFew DEF Plain
<1> QED BY <1>1, <1>3, <1>4, <1>5, <1>6 DEF Control

\* The call ends, by its own return or by a crash; what was queued is lost.
LEMMA ResetKeeps ==
  ASSUME Inv, call' = NoCall, UNCHANGED <<mode, git, log>>,
         result' \in Ways \cup {"none", "committed"}
  PROVE  Inv' /\ Plain'
<1>1. Positions' /\ Records' /\ Reached' /\ Compensation'
  BY ResetParts DEF Control
<1> QED BY <1>1, ResetParts, CallStep

\* A call that is not sealing has nothing queued.
LEMMA AtFacts ==
  ASSUME Inv, NEW l, At(l)
  PROVE  /\ call.pc = l /\ ~call.sealing /\ call.queue = <<>> /\ Staged = OnSpine
         /\ Applied = Repos(Staged, "applied")
         /\ l \notin {"idle", "load"} =>
              call.applied = Applied /\ result = "none" /\ \E k \in 0..N: call.applied = 1..k
<1>1. call.pc = l /\ ~call.sealing /\ call.queue = <<>>
  BY DEF Inv, Positions, At
<1>2. Staged = OnSpine
  BY <1>1, ElementsFew DEF Staged
<1> QED BY <1>1, <1>2, SpineView DEF Inv, Positions, Records, SpineRead

LEMMA SealKeeps ==
  ASSUME Inv, Seal
  PROVE  Inv' /\ Waits
<1>0. Positions /\ Records /\ Reached /\ Compensation /\ Shapes
  BY DEF Inv, Backward
<1>1. PICK c \in CallType: c = call
  BY <1>0 DEF Shapes
<1>2. call' = [c EXCEPT !.sealing = FALSE]
  BY <1>1 DEF Seal
<1>3. /\ call' \in CallType /\ call'.pc = c.pc /\ call'.at = c.at /\ call'.queue = c.queue
      /\ call'.applied = c.applied /\ call'.pending = c.pending /\ call'.status = c.status
  BY <1>2 DEF CallType
<1>4. /\ call' \in CallType /\ call'.pc = call.pc /\ call'.at = call.at
      /\ call'.queue = call.queue /\ call'.queue = <<>> /\ call'.applied = call.applied
      /\ call'.pending = call.pending /\ call'.status = call.status
      /\ UNCHANGED <<mode, git, log, result>>
  BY <1>1, <1>3 DEF Seal, Keep
<1>5. /\ UNCHANGED <<OnSpine, Staged, Applied, local, head, remote, merges>>
      /\ \A r: Merged(r)' = Merged(r) /\ Reverted(r)' = Reverted(r) /\ Target(r)' = Target(r)
  BY <1>4, GitSame DEF OnSpine, Staged, Applied, Events
<1>6. Positions'
  BY <1>0, <1>4 DEF Positions
<1>7. Records'
  BY <1>0, <1>4, <1>5 DEF Records
<1>8. Reached'
  BY <1>0, <1>4, <1>5 DEF Reached
<1>9. Compensation'
  BY <1>0, <1>4, <1>5 DEF Compensation
<1>10. Inv'
  BY <1>0, <1>4, <1>5, <1>6, <1>7, <1>8, <1>9, CallStep DEF Shapes
<1> QED BY <1>4, <1>5, <1>10 DEF Waits

LEMMA ApplyKeeps ==
  ASSUME Inv, Apply
  PROVE  Inv' /\ Plain'
<1>1. PICK c \in CallType: c = NoCall /\ c.queue = <<>> /\ c.applied = {}
  BY NoCallFields
<1>2. /\ call' \in CallType /\ call'.pc = "load" /\ call'.queue = <<>>
      /\ UNCHANGED <<mode, git, log>> /\ result' = "none"
  <2>1. "load" \in Stations /\ 1 \in Int
    BY DEF Stations
  <2>2. PICK l \in Stations: l = "load"
    BY <2>1
  <2>3. PICK d: d = Goto(c, l, 1)
    OBVIOUS
  <2>4. d \in CallType /\ d.pc = l /\ d.queue = c.queue
    BY <2>1, <2>3, GotoFields
  <2>5. call' = d /\ UNCHANGED <<mode, git, log>> /\ result' = "none"
    BY <1>1, <2>2, <2>3 DEF Apply
  <2> QED BY <1>1, <2>2, <2>4, <2>5
<1>3. /\ OnSpine' = OnSpine /\ Staged' = OnSpine /\ OnSpine \subseteq Staged /\ UNCHANGED Applied
  BY <1>2, ElementsFew DEF OnSpine, Staged, Applied, Events
<1>4. Positions' /\ Reached' /\ Compensation'
  BY <1>2 DEF Positions, Reached, Compensation, Applying, Merging, Reverting
<1>5. Records'
  BY <1>2, <1>3 DEF Inv, Records, Applying, Merging, Reverting
<1>6. Repos(Staged', "applied") \subseteq Repos(Staged, "applied")
  BY <1>3 DEF Repos, Of
<1>7. Inv'
  BY <1>2, <1>4, <1>5, <1>6, CallStep
<1>8. Plain'
  BY <1>2, ElementsFew DEF Plain
<1> QED BY <1>7, <1>8

\* The last repository of a prefix.
LEMMA Last ==
  ASSUME NEW S, NEW k \in 0..N, S = 1..k
  PROVE  Cardinality(S) = k /\ k \in {0} \cup S /\ \A x \in S: x <= k
<1>1. k \in Nat /\ N \in Nat
  BY CountAssumption
<1>2. Cardinality(1..k) = k
  BY <1>1, FS_Interval
<1> QED BY <1>1, <1>2

\* compensate() is entered.
LEMMA CompensatingFields ==
  ASSUME Inv, call.pc \notin {"idle", "load"}, NEW how \in Ways
  PROVE  LET d == Compensating(how) IN
           /\ d \in CallType /\ d.pc = "revert" /\ d.sealing = TRUE
           /\ d.queue = <<Event("compensating", 0, 0, how)>>
           /\ d.applied = call.applied /\ d.pending = call.pending /\ d.status = how
           /\ d.at \in {0} \cup call.applied /\ \A x \in call.applied: x <= d.at
<1>1. PICK k \in 0..N: call.applied = 1..k
  BY DEF Inv, Records
<1>2. Cardinality(call.applied) = k /\ k \in {0} \cup call.applied /\ \A x \in call.applied: x <= k
  BY <1>1, Last
<1>3. PICK c \in CallType: c = call
  BY DEF Inv, Shapes
<1>4. PICK d \in CallType: /\ d = Goto(c, "revert", k) /\ d.pc = "revert" /\ d.at = k
                           /\ d.applied = c.applied /\ d.pending = c.pending
  <2>1. "revert" \in Stations /\ k \in Int
    BY CountAssumption DEF Stations, Reverting
  <2> QED BY <2>1, GotoFields
<1>5. PICK e \in CallType: /\ e = [d EXCEPT !.status = how] /\ e.pc = "revert" /\ e.at = k
                           /\ e.applied = c.applied /\ e.pending = c.pending /\ e.status = how
  <2>1. LET e == [d EXCEPT !.status = how] IN
          /\ e \in CallType /\ e.pc = d.pc /\ e.at = d.at
          /\ e.applied = d.applied /\ e.pending = d.pending /\ e.status = how
    BY DEF CallType
  <2> QED BY <1>4, <2>1
<1>6. PICK q \in Seq(EventType): q = <<Event("compensating", 0, 0, how)>>
  <2>1. PICK x \in EventType: x = Event("compensating", 0, 0, how)
    BY EventFields DEF Kinds
  <2>2. <<x>> \in Seq(EventType)
    BY Queues
  <2> QED BY <2>1, <2>2
<1>7. Compensating(how) = Stage(e, q)
  BY <1>2, <1>3, <1>4, <1>5, <1>6, Zenon DEF Compensating
<1>8. LET f == Stage(e, q) IN
           /\ f \in CallType /\ f.pc = e.pc /\ f.at = e.at /\ f.sealing = TRUE /\ f.queue = q
           /\ f.applied = e.applied /\ f.pending = e.pending /\ f.status = e.status
  BY StageFields
<1> QED BY <1>2, <1>3, <1>5, <1>6, <1>7, <1>8

\* What may be called the failure of a merge.
Failures == {"reverted", "uncertain", "rollback-failed"}

LEMMA CompensatingParts ==
  ASSUME Inv, NEW how \in Failures, call' = Compensating(how),
         call.pc \in {"verify", "commit"} \cup Applying, call.applied = Applied,
         UNCHANGED <<log, result>>
  PROVE  /\ call' \in CallType /\ Control'
         /\ Repos(Staged', "applied") \subseteq Repos(Staged, "applied")
<1>1. call.pc \notin {"idle", "load"} /\ how \in Ways /\ how # "refused"
  BY DEF Applying, Merging, Failures, Ways
<1>2. PICK x \in EventType: x = Event("compensating", 0, 0, how) /\ x.ev = "compensating" /\ x.how = how
  BY <1>1, EventFields DEF Kinds
<1>3. /\ call' \in CallType /\ call'.pc = "revert" /\ call'.queue = <<x>>
      /\ call'.sealing = TRUE
      /\ call'.applied = call.applied /\ call'.status = how
      /\ call'.at \in {0} \cup call.applied /\ \A s \in call.applied: s <= call'.at
  BY <1>1, <1>2, CompensatingFields
<1>4. OnSpine' = OnSpine /\ Staged' = OnSpine \cup {x} /\ UNCHANGED Applied /\ OnSpine \subseteq Staged
  BY <1>3, ElementsFew DEF OnSpine, Staged, Applied, Events
<1>5. Repos(Staged', "applied") = Repos(OnSpine, "applied") /\ Applied = Repos(OnSpine, "applied")
  BY <1>2, <1>4, SpineView DEF Repos, Of, SpineRead
<1>6. Repos(OnSpine, "applied") \subseteq Repos(Staged, "applied")
  BY <1>4 DEF Repos, Of
<1>7. Positions'
  BY <1>1, <1>3 DEF Inv, Positions, Applying, Merging, Reverting
<1>8. Records'
  BY <1>1, <1>2, <1>3, <1>4, <1>5 DEF Inv, Records, Applying, Merging, Reverting
<1>9. Reached'
  BY <1>3 DEF Reached, Applying, Merging
<1>10. Compensation'
  <2>1. \A s \in call'.applied: ~(s > call'.at)
    <3>1. \A s \in call'.applied: s \in Int /\ call'.at \in Int
      BY <1>3, Typed DEF Inv, Repo, CallType
    <3> QED BY <1>3, <3>1
  <2>2. \E e \in Of(Staged', "compensating"): e.how = call'.status
    BY <1>2, <1>3, <1>4 DEF Of
  <2> QED BY <1>3, <2>1, <2>2 DEF Compensation, Reverting
<1> QED BY <1>3, <1>5, <1>6, <1>7, <1>8, <1>9, <1>10 DEF Control

LEMMA CompensatingKeeps ==
  ASSUME Inv, NEW how \in Failures, call' = Compensating(how),
         call.pc \in {"verify", "commit"} \cup Applying, call.applied = Applied,
         UNCHANGED <<mode, git, log, result>>
  PROVE  Inv'
BY CompensatingParts, CallStep DEF Inv, Shapes, Control

LEMMA ThrowKeeps ==
  ASSUME Inv, Throw
  PROVE  Inv' /\ (call.pc = "push" => Plain')
<1>0. /\ call.pc \in {"push", "commit"} /\ UNCHANGED <<mode, git, log, result>>
      /\ call.applied = Applied
  BY DEF Throw, Keep, Inv, Records
<1>1. CASE call.pc = "commit"
  <2>1. call' = Compensating("uncertain")
    BY <1>1 DEF Throw
  <2> QED BY <1>0, <1>1, <2>1, CompensatingKeeps DEF Failures
<1>2. CASE call.pc = "push"
  <2>1. PICK c \in CallType: c = call
    BY DEF Inv, Shapes
  <2>2. PICK d \in CallType: /\ d = [c EXCEPT !.sealing = FALSE, !.queue = <<>>]
                             /\ d.at = c.at /\ d.queue = <<>> /\ d.applied = c.applied
                             /\ d.pending = c.pending
    <3>1. PICK q \in Seq(EventType): q = <<>>
      BY EmptySeq
    <3>2. LET d == [c EXCEPT !.sealing = FALSE, !.queue = q] IN
            /\ d \in CallType /\ d.at = c.at /\ d.queue = q /\ d.applied = c.applied
            /\ d.pending = c.pending
      BY DEF CallType
    <3> QED BY <3>1, <3>2
  <2>3. call' = Goto(d, "undo", d.at) /\ d.at \in Int /\ "undo" \in Stations
    BY <1>2, <2>1, <2>2 DEF Throw, CallType, Stations, Applying, Merging
  <2>4. /\ call' \in CallType /\ call'.pc = "undo" /\ call'.at = call.at /\ call'.queue = <<>>
        /\ call'.applied = call.applied /\ call'.pending = call.pending
    <3>1. PICK r \in Int, u \in Stations: r = d.at /\ u = "undo"
      BY <2>3
    <3>2. LET f == Goto(d, u, r) IN
            /\ f \in CallType /\ f.pc = u /\ f.at = r /\ f.queue = d.queue
            /\ f.applied = d.applied /\ f.pending = d.pending
      BY GotoFields
    <3> QED BY <2>1, <2>2, <2>3, <3>1, <3>2
  <2>5. /\ OnSpine' = OnSpine /\ Staged' = OnSpine /\ OnSpine \subseteq Staged
        /\ UNCHANGED <<Applied, local, head, remote, merges>>
        /\ \A r: Merged(r)' = Merged(r) /\ Reverted(r)' = Reverted(r) /\ Target(r)' = Target(r)
    BY <1>0, <2>4, ElementsFew, GitSame DEF OnSpine, Staged, Applied, Events
  <2>6. Repos(Staged', "applied") = Applied /\ Repos(OnSpine, "applied") \subseteq Repos(Staged, "applied")
    BY <2>5, SpineView DEF SpineRead, Repos, Of
  <2>7. Positions'
    BY <1>0, <1>2, <2>4 DEF Inv, Positions, Reverting, Applying, Merging
  <2>8. Records'
    BY <1>0, <1>2, <2>4, <2>5, <2>6 DEF Inv, Records, Reverting, Applying, Merging
  <2>9. Reached'
    BY <1>2, <2>4, <2>5 DEF Inv, Reached, Applying, Merging
  <2>10. Compensation'
    BY <1>2, <2>4, <2>5 DEF Inv, Backward, Compensation, Reverting, Of
  <2>11. Inv'
    BY <1>0, <2>4, <2>5, <2>6, <2>7, <2>8, <2>9, <2>10, CallStep, SpineView DEF Inv, Shapes, SpineRead
  <2>12. Plain'
    BY <2>4, ElementsFew DEF Plain
  <2> QED BY <2>11, <2>12
<1> QED BY <1>0, <1>1, <1>2

\* The spine holds events.
LEMMA SpineEvents ==
  ASSUME Shapes
  PROVE  OnSpine \subseteq EventType /\ \A ev: \A e \in Of(OnSpine, ev): e.how \in Ways
<1>1. \A i \in DOMAIN log: log[i] \in EventType
  BY ElementOfSeq, LenProperties DEF Shapes
<1> QED BY <1>1 DEF OnSpine, Elements, Of, EventType

LEMMA ReturnKeeps ==
  ASSUME Inv, NEW how \in Ways \cup {"none", "committed"}, Return(how)
  PROVE  Inv' /\ Plain'
BY ResetKeeps DEF Return

\* A resumed call starts from a prefix of the plan.
LEMMA LoadKeeps ==
  ASSUME Inv, Load
  PROVE  Inv' /\ Plain'
<1>0. At("load")
  BY DEF Load
<1>1. /\ call.pc = "load" /\ call.queue = <<>> /\ Staged = OnSpine
      /\ Applied = Repos(Staged, "applied") /\ Applied \subseteq Repo
  <2>1. call.pc = "load" /\ call.queue = <<>> /\ Staged = OnSpine /\ Applied = Repos(Staged, "applied")
    BY <1>0, AtFacts
  <2> QED BY <2>1 DEF Inv, Records, Repos, Of
<1>2. CASE \E how \in Ways \cup {"none", "committed"}: Return(how)
  BY <1>2, ReturnKeeps
<1>3. CASE ~\E how \in Ways \cup {"none", "committed"}: Return(how)
  <2>1. "uncertain" \in Ways /\ (Events("terminal") # {} => Sole("terminal").how \in Ways)
    BY SpineEvents, SpineView DEF Inv, Ways, SpineRead
  <2>2. /\ ~Malformed /\ Events("committed") = {} /\ Events("terminal") = {}
        /\ LET c == [call EXCEPT !.applied = Applied] IN
             call' = IF Events("compensating") # {}
                       THEN [Goto(c, "revert", Cardinality(Applied)) EXCEPT
                               !.status = Sole("compensating").how]
                       ELSE Goto(c, IF Events("plan") = {} THEN "preflight" ELSE "survey", 1)
        /\ UNCHANGED <<git, log>> /\ Keep
    BY <1>3, <2>1 DEF Load
  <2>3. UNCHANGED <<mode, git, log, result>>
    BY <2>2 DEF Keep
  <2>4. Applied = 1..Cardinality(Applied)
    BY <2>2 DEF Malformed, Ended, Restorable
  <2>5. Cardinality(Applied) \in 0..N
    <3>1. N \in Nat /\ IsFiniteSet(1..N) /\ Cardinality(1..N) = N
      BY CountAssumption, FS_Interval
    <3>2. IsFiniteSet(Applied) /\ Cardinality(Applied) <= N
      BY <1>1, <3>1, FS_Subset DEF Repo
    <3>3. Cardinality(Applied) \in Nat
      BY <3>2, FS_CardinalityType
    <3> QED BY <3>1, <3>2, <3>3
  <2>6. PICK k \in 0..N: k = Cardinality(Applied) /\ Applied = 1..k
    BY <2>4, <2>5
  <2>7. PICK c \in CallType: /\ c = [call EXCEPT !.applied = Applied] /\ c.queue = <<>>
                             /\ c.applied = Applied
    <3>1. PICK b \in CallType, a \in SUBSET Repo: b = call /\ a = Applied
      BY <1>1 DEF Inv, Shapes
    <3>2. LET d == [b EXCEPT !.applied = a] IN d \in CallType /\ d.queue = b.queue /\ d.applied = a
      BY DEF CallType
    <3> QED BY <1>1, <3>1, <3>2
  <2>8. ASSUME call'.queue = <<>>
        PROVE  /\ OnSpine' = OnSpine /\ Staged' = OnSpine
               /\ UNCHANGED <<Applied, local, head, remote, merges>>
               /\ Repos(Staged', "applied") = Repos(Staged, "applied")
               /\ Repos(Staged', "applied") = Applied
    <3>1. OnSpine' = OnSpine /\ UNCHANGED <<Applied, local, head, remote, merges>>
      BY <2>3 DEF OnSpine, Applied, Events, git
    <3>2. Staged' = OnSpine
      BY <2>8, <3>1, ElementsFew DEF Staged
    <3> QED BY <1>1, <3>1, <3>2
  <2>9. CASE Events("compensating") # {}
    <3>1. PICK h \in Ways: h = Sole("compensating").how /\ \E e \in Of(OnSpine, "compensating"): e.how = h
      BY <2>9, SpineEvents, SpineView DEF Inv, SpineRead
    <3>2. PICK d \in CallType: /\ d = Goto(c, "revert", k) /\ d.pc = "revert" /\ d.at = k
                               /\ d.queue = <<>> /\ d.applied = Applied
      <4>1. "revert" \in Stations /\ k \in Int
        BY CountAssumption DEF Stations, Reverting
      <4>2. PICK u \in Stations, j \in Int: u = "revert" /\ j = k
        BY <4>1
      <4>3. LET d == Goto(c, u, j) IN
              /\ d \in CallType /\ d.pc = u /\ d.at = j /\ d.queue = c.queue
              /\ d.applied = c.applied
        BY GotoFields
      <4> QED BY <2>7, <4>2, <4>3
    <3>3. LET e == [d EXCEPT !.status = h] IN
            /\ e \in CallType /\ e.pc = d.pc /\ e.at = d.at /\ e.queue = d.queue
            /\ e.applied = d.applied /\ e.status = h
      BY DEF CallType
    <3>4. call' = [d EXCEPT !.status = h]
      BY <2>2, <2>6, <2>7, <2>9, <3>1, <3>2, Zenon
    <3>5. /\ call' \in CallType /\ call'.pc = "revert" /\ call'.at = k /\ call'.queue = <<>>
          /\ call'.applied = Applied /\ call'.status = h
      BY <3>2, <3>3, <3>4
    <3>6. k \in {0} \cup Applied /\ \A x \in Applied: x <= k
      BY <2>6, Last
    <3>7. Positions'
      BY <1>1, <2>3, <3>5, <3>6 DEF Inv, Positions, Reverting, Applying, Merging
    <3>8. Records'
      BY <1>1, <2>6, <2>8, <3>5 DEF Inv, Records, Reverting, Applying, Merging
    <3>9. Reached'
      BY <3>5 DEF Reached, Applying, Merging
    <3>10. Compensation'
      <4>1. \A x \in Applied: ~(x > k)
        BY <1>1, <3>6, CountAssumption DEF Repo
      <4> QED BY <2>8, <3>1, <3>5, <4>1 DEF Compensation, Reverting
    <3>11. Inv'
      BY <1>1, <2>3, <2>8, <3>5, <3>7, <3>8, <3>9, <3>10, CallStep DEF Inv, Shapes
    <3>12. Plain'
      BY <3>5, ElementsFew DEF Plain
    <3> QED BY <3>11, <3>12
  <2>10. CASE Events("compensating") = {}
    <3>1. PICK l \in {"preflight", "survey"}:
            l = (IF Events("plan") = {} THEN "preflight" ELSE "survey") /\ l \in Stations
      BY DEF Stations
    <3>2. /\ Of(OnSpine, "compensating") = {}
          /\ l = "preflight" => Of(OnSpine, "plan") = {}
          /\ l = "survey" => Of(OnSpine, "plan") # {}
      BY <2>10, <3>1, SpineView DEF SpineRead
    <3>3. call' = Goto(c, l, 1)
      BY <2>2, <2>7, <2>10, <3>1
    <3>4. /\ call' \in CallType /\ call'.pc = l /\ call'.at = 1 /\ call'.queue = <<>>
          /\ call'.applied = Applied
      <4>1. LET d == Goto(c, l, 1) IN
              /\ d \in CallType /\ d.pc = l /\ d.at = 1 /\ d.queue = c.queue
              /\ d.applied = c.applied
        BY <3>1, GotoFields
      <4> QED BY <2>7, <3>3, <4>1
    <3>5. 1 \in Repo
      BY CountAssumption DEF Repo
    <3>6. Positions'
      BY <1>1, <2>3, <3>4, <3>5 DEF Inv, Positions, Reverting, Applying, Merging
    <3>7. Records'
      BY <1>1, <2>6, <2>8, <3>2, <3>4 DEF Inv, Records, Reverting, Applying, Merging
    <3>8. Reached'
      <4>1. \A r \in Repo: ~(r < 1)
        BY CountAssumption DEF Repo
      <4> QED BY <3>4, <4>1 DEF Reached, Applying, Merging
    <3>9. Compensation'
      BY <2>8, <3>2, <3>4 DEF Compensation, Reverting
    <3>10. Inv'
      BY <1>1, <2>3, <2>8, <3>4, <3>6, <3>7, <3>8, <3>9, CallStep DEF Inv, Shapes
    <3>11. Plain'
      BY <3>1, <3>4, ElementsFew DEF Plain
    <3> QED BY <3>10, <3>11
  <2> QED BY <2>9, <2>10
<1> QED BY <1>2, <1>3

\* What a step that leaves branches and spine alone leaves alone.
LEMMA Frozen ==
  ASSUME UNCHANGED <<mode, git, log>>
  PROVE  /\ OnSpine' = OnSpine /\ Staged' = OnSpine \cup Elements(call'.queue)
         /\ OnSpine \subseteq Staged
         /\ UNCHANGED <<Applied, local, head, remote, merges>>
         /\ \A r: Merged(r)' = Merged(r) /\ Reverted(r)' = Reverted(r) /\ Target(r)' = Target(r)
<1>1. OnSpine' = OnSpine /\ UNCHANGED <<Applied, local, head, remote, merges>>
  BY DEF OnSpine, Applied, Events, git
<1>2. Staged' = OnSpine \cup Elements(call'.queue) /\ OnSpine \subseteq Staged
  BY <1>1 DEF Staged
<1> QED BY <1>1, <1>2, GitSame

\* The next repository of the plan, or the next loop.
LEMMA OnwardFields ==
  ASSUME NEW c \in CallType, c.at \in Repo, NEW l \in Stations, NEW next \in Stations
  PROVE  LET d == Onward(c, l, next) IN
           /\ d \in CallType /\ d.sealing = c.sealing /\ d.queue = c.queue
           /\ d.applied = c.applied /\ d.pending = c.pending /\ d.status = c.status
           /\ d.at \in Repo
           /\ \/ c.at = N /\ d.pc = next /\ d.at = 1
              \/ c.at # N /\ d.pc = l /\ d.at = c.at + 1
<1>0. PICK k \in Repo: k = c.at
  OBVIOUS
<1>1. k \in Int /\ k + 1 \in Int /\ 1 \in Repo /\ (k # N => k + 1 \in Repo)
  BY CountAssumption DEF Repo
<1>2. CASE k = N
  <2>1. LET d == Goto(c, next, 1) IN
           /\ d \in CallType /\ d.pc = next /\ d.at = 1 /\ d.sealing = c.sealing /\ d.queue = c.queue
           /\ d.applied = c.applied /\ d.pending = c.pending /\ d.status = c.status
    BY GotoFields
  <2>2. Onward(c, l, next) = Goto(c, next, 1)
    BY <1>0, <1>2 DEF Onward
  <2> QED BY <1>0, <1>1, <1>2, <2>1, <2>2
<1>3. CASE k # N
  <2>1. PICK j \in Int: j = k + 1
    BY <1>1
  <2>2. LET d == Goto(c, l, j) IN
           /\ d \in CallType /\ d.pc = l /\ d.at = j /\ d.sealing = c.sealing /\ d.queue = c.queue
           /\ d.applied = c.applied /\ d.pending = c.pending /\ d.status = c.status
    BY GotoFields
  <2>3. Onward(c, l, next) = Goto(c, l, j)
    BY <1>0, <1>3, <2>1 DEF Onward
  <2> QED BY <1>0, <1>1, <1>3, <2>1, <2>2, <2>3
<1> QED BY <1>2, <1>3

\* Without a plan on record no repository has left its candidate.
LEMMA PreflightKeeps ==
  ASSUME Inv, Preflight
  PROVE  Inv' /\ Plain'
<1>0. At("preflight") /\ "refused" \in Ways
  BY DEF Preflight, Ways
<1>1. /\ call.pc = "preflight" /\ call.queue = <<>> /\ Staged = OnSpine
      /\ call.applied = Applied /\ Applied = Repos(Staged, "applied")
      /\ \E k \in 0..N: call.applied = 1..k
      /\ result = "none"
  BY <1>0, AtFacts
<1>2. /\ call.at \in Repo /\ Of(OnSpine, "plan") = {} /\ Of(OnSpine, "compensating") = {}
      /\ \A r \in Repo: head[r] = "candidate"
  <2>1. call.at \in Repo
    BY <1>1 DEF Inv, Positions
  <2>2. Of(OnSpine, "plan") = {}
    BY <1>1 DEF Inv, Records
  <2>3. Of(OnSpine, "compensating") = {}
    BY <1>1 DEF Inv, Backward, Compensation, Reverting
  <2>4. \A r \in Repo: head[r] = "candidate"
    BY <2>2 DEF Inv, Order, Shapes
  <2> QED BY <2>1, <2>2, <2>3, <2>4
<1>3. CASE Return("refused")
  BY <1>0, <1>3, ReturnKeeps
<1>4. CASE ~Return("refused")
  <2>1. /\ LET c == Onward(call, "preflight", "apply") IN
             call' = IF call.at = N THEN Stage(c, <<Event("plan", 0, 0, "")>>) ELSE c
        /\ UNCHANGED <<mode, git, log, result>>
    BY <1>4 DEF Preflight, Keep
  <2>2. PICK c \in CallType, l \in Stations, m \in Stations:
          c = call /\ c.at \in Repo /\ l = "preflight" /\ m = "apply"
    BY <1>2 DEF Inv, Shapes, Stations, Applying
  <2>3. PICK d \in CallType:
           /\ d = Onward(c, l, m) /\ d.queue = c.queue
           /\ d.applied = c.applied /\ d.pending = c.pending /\ d.at \in Repo
           /\ \/ c.at = N /\ d.pc = m /\ d.at = 1
              \/ c.at # N /\ d.pc = l
    <3>1. LET d == Onward(c, l, m) IN
           /\ d \in CallType /\ d.sealing = c.sealing /\ d.queue = c.queue
           /\ d.applied = c.applied /\ d.pending = c.pending /\ d.status = c.status
           /\ d.at \in Repo
           /\ \/ c.at = N /\ d.pc = m /\ d.at = 1
              \/ c.at # N /\ d.pc = l /\ d.at = c.at + 1
      BY <2>2, OnwardFields, SMTT(30)
    <3> QED BY <3>1
  <2>4. /\ OnSpine' = OnSpine /\ Staged' = OnSpine \cup Elements(call'.queue)
        /\ UNCHANGED <<Applied, local, head, remote, merges>>
    BY <2>1, Frozen
  <2>5. CASE call.at # N
    <3>1. call' = d
      BY <2>1, <2>2, <2>3, <2>5
    <3>2. /\ call' \in CallType /\ call'.queue = <<>> /\ call'.applied = call.applied
          /\ call'.at \in Repo /\ call'.pc = "preflight"
      BY <1>1, <2>2, <2>3, <2>5, <3>1
    <3>3. Staged' = OnSpine
      BY <2>4, <3>2, ElementsFew
    <3>4. Positions'
      BY <1>1, <2>1, <3>2 DEF Positions, Reverting, Applying, Merging
    <3>5. Records'
      BY <1>1, <1>2, <2>4, <3>2, <3>3 DEF Inv, Records, Reverting, Applying, Merging
    <3>6. Reached' /\ Compensation'
      BY <1>2, <3>2, <3>3 DEF Reached, Compensation, Reverting, Applying, Merging
    <3>7. Inv'
      BY <1>1, <2>1, <3>2, <3>3, <3>4, <3>5, <3>6, CallStep DEF Inv, Shapes
    <3>8. Plain'
      BY <3>2, ElementsFew DEF Plain
    <3> QED BY <3>7, <3>8
  <2>6. CASE call.at = N
    <3>1. PICK x \in EventType: x = Event("plan", 0, 0, "") /\ x.ev = "plan"
      <4>1. PICK k \in Kinds, h \in Ways: k = "plan" /\ h = ""
        BY DEF Kinds, Ways
      <4>2. \E x \in EventType: x = Event(k, 0, 0, h) /\ x.ev = k
        BY EventExists
      <4> QED BY <4>1, <4>2
    <3>2. PICK q \in Seq(EventType): q = <<x>> /\ Elements(q) = {x}
      BY Queues, ElementsFew
    <3>3. LET f == Stage(d, q) IN
           /\ f \in CallType /\ f.pc = d.pc /\ f.at = d.at /\ f.sealing = TRUE /\ f.queue = q
           /\ f.applied = d.applied /\ f.pending = d.pending /\ f.status = d.status
      BY StageFields
    <3>4. call' = Stage(d, q)
      BY <2>1, <2>2, <2>3, <2>6, <3>1, <3>2
    <3>5. /\ call' \in CallType /\ call'.queue = q /\ call'.applied = call.applied /\ call'.sealing
          /\ call'.at = 1 /\ 1 \in Repo /\ call'.pc = "apply"
      BY <2>2, <2>3, <2>6, <3>3, <3>4
    <3>6. Staged' = OnSpine \cup {x} /\ Repos(Staged', "applied") = Repos(Staged, "applied")
      <4>1. Staged' = OnSpine \cup {x}
        BY <2>4, <3>2, <3>5
      <4> QED BY <1>1, <3>1, <4>1 DEF Repos, Of
    <3>7. Positions'
      BY <1>1, <2>1, <3>5 DEF Positions, Reverting, Applying, Merging
    <3>8. Records'
      BY <1>1, <1>2, <2>4, <3>1, <3>5, <3>6 DEF Inv, Records, Reverting, Applying, Merging, Of
    <3>9. Reached'
      <4>1. 1..(1 - 1) = {}
        OBVIOUS
      <4> QED BY <1>2, <2>4, <3>5, <4>1 DEF Reached, Applying, Merging
    <3>10. Compensation'
      BY <1>2, <3>1, <3>5, <3>6 DEF Compensation, Reverting, Of
    <3>11. Inv'
      BY <1>1, <2>1, <3>5, <3>6, <3>7, <3>8, <3>9, <3>10, CallStep DEF Inv, Shapes
    <3>12. Plain'
      BY <3>1, <3>2, <3>5 DEF Plain, Preparing
    <3> QED BY <3>11, <3>12
  <2> QED BY <2>5, <2>6
<1> QED BY <1>3, <1>4

\* The events that the steps below stage.
Is(x, ev, r, n, how) == x = Event(ev, r, n, how) /\ x.ev = ev /\ x.repo = r /\ x.how = how

LEMMA StagedEvents ==
  ASSUME NEW r \in Int, NEW n \in Int, NEW how \in Ways
  PROVE  /\ \E x \in EventType: Is(x, "bound", r, n, how)
         /\ \E x \in EventType: Is(x, "attempt", r, n, how)
         /\ \E x \in EventType: Is(x, "closed", r, n, how)
         /\ \E x \in EventType: Is(x, "absent", r, n, how)
         /\ \E x \in EventType: Is(x, "applied", r, n, how)
         /\ \E x \in EventType: Is(x, "compensated", r, n, how)
         /\ \E x \in EventType: Is(x, "committed", r, n, how)
         /\ \E x \in EventType: Is(x, "terminal", r, n, how)
<1>1. ASSUME NEW k \in Kinds PROVE \E x \in EventType: Is(x, k, r, n, how)
  BY EventExists DEF Is
<1>2. PICK a \in Kinds, b \in Kinds, c \in Kinds, d \in Kinds:
        a = "bound" /\ b = "attempt" /\ c = "closed" /\ d = "absent"
  BY DEF Kinds
<1>3. PICK e \in Kinds, f \in Kinds, g \in Kinds, h \in Kinds:
        e = "applied" /\ f = "compensated" /\ g = "committed" /\ h = "terminal"
  BY DEF Kinds
<1>4. /\ \E x \in EventType: Is(x, "bound", r, n, how)
      /\ \E x \in EventType: Is(x, "attempt", r, n, how)
      /\ \E x \in EventType: Is(x, "closed", r, n, how)
      /\ \E x \in EventType: Is(x, "absent", r, n, how)
  BY <1>1, <1>2
<1>5. /\ \E x \in EventType: Is(x, "applied", r, n, how)
      /\ \E x \in EventType: Is(x, "compensated", r, n, how)
      /\ \E x \in EventType: Is(x, "committed", r, n, how)
      /\ \E x \in EventType: Is(x, "terminal", r, n, how)
  BY <1>1, <1>3
<1> QED BY <1>4, <1>5

LEMMA StageOne ==
  ASSUME NEW c \in CallType, NEW x \in EventType
  PROVE  LET d == Stage(c, <<x>>) IN
           /\ d \in CallType /\ d.pc = c.pc /\ d.at = c.at /\ d.sealing = TRUE
           /\ Elements(d.queue) = {x}
           /\ d.applied = c.applied /\ d.pending = c.pending /\ d.status = c.status
<1>1. PICK q \in Seq(EventType): q = <<x>> /\ Elements(q) = {x}
  BY Queues, ElementsFew
<1>2. LET f == Stage(c, q) IN
        /\ f \in CallType /\ f.pc = c.pc /\ f.at = c.at /\ f.sealing = TRUE /\ f.queue = q
        /\ f.applied = c.applied /\ f.pending = c.pending /\ f.status = c.status
  BY StageFields
<1> QED BY <1>1, <1>2

LEMMA StageTwo ==
  ASSUME NEW c \in CallType, NEW x \in EventType, NEW y \in EventType
  PROVE  LET d == Stage(c, <<x, y>>) IN
           /\ d \in CallType /\ d.pc = c.pc /\ d.at = c.at /\ d.sealing = TRUE
           /\ Elements(d.queue) = {x, y}
           /\ d.applied = c.applied /\ d.pending = c.pending /\ d.status = c.status
<1>1. PICK q \in Seq(EventType): q = <<x, y>> /\ Elements(q) = {x, y}
  BY Queues, ElementsFew
<1>2. LET f == Stage(c, q) IN
        /\ f \in CallType /\ f.pc = c.pc /\ f.at = c.at /\ f.sealing = TRUE /\ f.queue = q
        /\ f.applied = c.applied /\ f.pending = c.pending /\ f.status = c.status
  BY StageFields
<1> QED BY <1>1, <1>2

LEMMA PreparedType ==
  ASSUME NEW r PROVE Prepared(r) \in Int
<1>1. ASSUME NEW S \in SUBSET Int
      PROVE  (IF S = {} THEN 0 ELSE CHOOSE n \in S: TRUE) \in Int
  <2>1. CASE S = {}
    BY <2>1
  <2>2. CASE S # {}
    <3>1. (CHOOSE n \in S: TRUE) \in S
      BY <2>2, Zenon
    <3>2. (CHOOSE n \in S: TRUE) \in Int
      BY <3>1
    <3> QED BY <2>2, <3>2
  <2> QED BY <2>1, <2>2
<1>2. 1..MaxCalls \in SUBSET Int
  BY CountAssumption
<1> DEFINE open == {n \in 1..MaxCalls:
                      /\ {Event("bound", r, n, ""), Event("attempt", r, n, "")} \subseteq Elements(log)
                      /\ \A e \in Elements(log): e.ev = "closed" /\ e.repo = r => e.n # n}
<1>3. open \in SUBSET Int
  BY <1>2
<1>4. Prepared(r) = IF open = {} THEN 0 ELSE CHOOSE n \in open: TRUE
  BY DEF Prepared
<1> HIDE DEF open
<1> QED BY <1>1, <1>3, <1>4

\* The terminal record is staged.
LEMMA EndFields ==
  ASSUME Shapes, NEW h \in Ways,
         call' = Stage([call EXCEPT !.pc = "end", !.status = h], <<Event("terminal", 0, 0, h)>>)
  PROVE  /\ call' \in CallType /\ call'.pc = "end" /\ call'.sealing /\ call'.status = h
         /\ call'.applied = call.applied
         /\ \E x \in EventType: Is(x, "terminal", 0, 0, h) /\ Elements(call'.queue) = {x}
<1>1. PICK c \in CallType, l \in Stations: c = call /\ l = "end"
  BY DEF Shapes, Stations
<1>2. PICK x \in EventType: Is(x, "terminal", 0, 0, h)
  BY StagedEvents
<1>3. PICK d \in CallType: /\ d = [c EXCEPT !.pc = l, !.status = h] /\ d.pc = l
                           /\ d.applied = c.applied /\ d.status = h
  <2>1. LET d == [c EXCEPT !.pc = l, !.status = h] IN
          d \in CallType /\ d.pc = l /\ d.applied = c.applied /\ d.status = h
    BY DEF CallType
  <2> QED BY <2>1
<1>4. LET e == Stage(d, <<x>>) IN
           /\ e \in CallType /\ e.pc = d.pc /\ e.at = d.at /\ e.sealing = TRUE
           /\ Elements(e.queue) = {x}
           /\ e.applied = d.applied /\ e.pending = d.pending /\ e.status = d.status
  BY StageOne
<1>5. call' = Stage(d, <<x>>)
  BY <1>1, <1>2, <1>3 DEF Is
<1> QED BY <1>1, <1>2, <1>3, <1>4, <1>5

\* A repository that is neither applied nor prepared is still on its candidate.
LEMMA SurveyKeeps ==
  ASSUME Inv, Survey
  PROVE  /\ Inv'
         /\ \/ Plain'
            \/ /\ Events("bound") = {}
               /\ call' = Stage([call EXCEPT !.pc = "end", !.status = "refused"],
                                <<Event("terminal", 0, 0, "refused")>>)
<1>0. At("survey")
  BY DEF Survey
<1>1. /\ call.pc = "survey" /\ call.queue = <<>> /\ Staged = OnSpine
      /\ call.applied = Applied /\ Applied = Repos(Staged, "applied")
      /\ \E k \in 0..N: call.applied = 1..k
      /\ result = "none"
  BY <1>0, AtFacts
<1>2. PICK c \in CallType, r \in Repo: c = call /\ r = call.at /\ c.at = r
  BY <1>1 DEF Inv, Shapes, Positions
<1>3. Of(OnSpine, "compensating") = {} /\ Of(OnSpine, "plan") # {}
  BY <1>1 DEF Inv, Backward, Compensation, Reverting, Records
<1>4. CASE Return("uncertain")
  BY <1>4, ReturnKeeps DEF Ways
<1>5. CASE /\ r \in call.applied \/ Prepared(r) # 0 \/ Clean(r)
           /\ LET next == Onward(call, "survey", "apply") IN
                call' = IF r \in call.applied THEN next
                        ELSE [next EXCEPT !.pending[r] = Prepared(r)]
           /\ UNCHANGED <<git, log>> /\ Keep
  <2>1. UNCHANGED <<mode, git, log, result>>
    BY <1>5 DEF Keep
  <2>2. /\ OnSpine' = OnSpine /\ Staged' = OnSpine \cup Elements(call'.queue)
        /\ UNCHANGED <<Applied, local, head, remote, merges>>
    BY <2>1, Frozen
  <2>3. PICK l \in Stations, m \in Stations: l = "survey" /\ m = "apply"
    BY DEF Stations, Applying
  <2>4. PICK d \in CallType:
           /\ d = Onward(c, l, m) /\ d.queue = c.queue
           /\ d.applied = c.applied /\ d.pending = c.pending /\ d.at \in Repo
           /\ \/ r = N /\ d.pc = m /\ d.at = 1
              \/ r # N /\ d.pc = l /\ d.at = r + 1
    <3>1. LET d == Onward(c, l, m) IN
           /\ d \in CallType /\ d.sealing = c.sealing /\ d.queue = c.queue
           /\ d.applied = c.applied /\ d.pending = c.pending /\ d.status = c.status
           /\ d.at \in Repo
           /\ \/ c.at = N /\ d.pc = m /\ d.at = 1
              \/ c.at # N /\ d.pc = l /\ d.at = c.at + 1
      BY <1>2, OnwardFields
    <3> QED BY <1>2, <3>1
  <2>5. PICK p \in Int: p = Prepared(r)
    BY PreparedType
  <2>6. /\ call' \in CallType /\ call'.pc = d.pc /\ call'.at = d.at /\ call'.queue = d.queue
        /\ call'.applied = d.applied
        /\ \A s \in Repo \ {r}: call'.pending[s] = d.pending[s]
        /\ r \in call.applied \/ call'.pending[r] = p
    <3>1. CASE r \in call.applied
      <4>1. call' = d
        BY <1>2, <1>5, <2>3, <2>4, <3>1
      <4> QED BY <3>1, <4>1
    <3>2. CASE r \notin call.applied
      <4>1. call' = [d EXCEPT !.pending[r] = p]
        BY <1>2, <1>5, <2>3, <2>4, <2>5, <3>2
      <4>2. LET e == [d EXCEPT !.pending[r] = p] IN
              /\ e \in CallType /\ e.pc = d.pc /\ e.at = d.at /\ e.queue = d.queue
              /\ e.applied = d.applied
              /\ \A s \in Repo \ {r}: e.pending[s] = d.pending[s]
              /\ e.pending[r] = p
        BY DEF CallType
      <4> QED BY <4>1, <4>2
    <3> QED BY <3>1, <3>2
  <2>7. call'.queue = <<>> /\ call'.applied = call.applied /\ Staged' = OnSpine
    BY <1>1, <1>2, <2>2, <2>4, <2>6, ElementsFew
  <2>8. \A s \in Repo: s <= r /\ s \notin call.applied /\ call'.pending[s] = 0 => head[s] = "candidate"
    <3>1. ASSUME NEW s \in Repo, s <= r, s \notin call.applied, call'.pending[s] = 0
          PROVE  head[s] = "candidate"
      <4>1. CASE s = r
        BY <1>5, <2>5, <2>6, <3>1, <4>1 DEF Clean
      <4>2. CASE s # r
        <5>1. s < r
          BY <3>1, <4>2 DEF Repo
        <5>2. call.pending[s] = 0
          BY <1>2, <2>4, <2>6, <3>1, <4>2
        <5> QED BY <1>1, <1>2, <3>1, <5>1, <5>2 DEF Inv, Reached
      <4> QED BY <4>1, <4>2
    <3> QED BY <3>1
  <2>9. Positions'
    BY <1>1, <2>1, <2>3, <2>4, <2>6, <2>7 DEF Positions, Reverting, Applying, Merging
  <2>10. Records'
    BY <1>1, <1>3, <2>2, <2>3, <2>4, <2>6, <2>7 DEF Inv, Records, Reverting, Applying, Merging
  <2>11. Reached'
    <3>1. CASE r = N
      <4>1. \A s \in Repo: s <= r
        BY <3>1 DEF Repo
      <4>2. 1..(1 - 1) = {}
        OBVIOUS
      <4>3. call'.pc = "apply" /\ call'.at = 1
        BY <2>3, <2>4, <2>6, <3>1
      <4> QED BY <2>2, <2>7, <2>8, <4>1, <4>2, <4>3 DEF Reached, Applying, Merging
    <3>2. CASE r # N
      <4>1. call'.pc = "survey" /\ call'.at = r + 1
        BY <2>3, <2>4, <2>6, <3>2
      <4>2. \A s \in Repo: s < r + 1 => s <= r
        BY DEF Repo
      <4> QED BY <2>2, <2>7, <2>8, <4>1, <4>2 DEF Reached, Applying, Merging
    <3> QED BY <3>1, <3>2
  <2>12. Compensation'
    BY <1>3, <2>3, <2>4, <2>6, <2>7 DEF Compensation, Reverting
  <2>13. Inv'
    BY <1>1, <2>1, <2>6, <2>7, <2>9, <2>10, <2>11, <2>12, CallStep DEF Inv, Shapes
  <2>14. Plain'
    BY <2>3, <2>4, <2>6, <2>7, ElementsFew DEF Plain
  <2> QED BY <2>13, <2>14
<1>6. CASE /\ Events("bound") = {}
           /\ call' = Stage([call EXCEPT !.pc = "end", !.status = "refused"],
                            <<Event("terminal", 0, 0, "refused")>>)
           /\ UNCHANGED <<git, log>> /\ Keep
  <2>1. UNCHANGED <<mode, git, log, result>>
    BY <1>6 DEF Keep
  <2>2. /\ OnSpine' = OnSpine /\ Staged' = OnSpine \cup Elements(call'.queue)
        /\ UNCHANGED <<Applied, local, head, remote, merges>>
    BY <2>1, Frozen
  <2>3. PICK h \in Ways: h = "refused"
    BY DEF Ways
  <2>4. PICK x \in EventType: Is(x, "terminal", 0, 0, h) /\ Elements(call'.queue) = {x}
    BY <1>6, <2>3, EndFields DEF Inv
  <2>8. /\ call' \in CallType /\ call'.pc = "end" /\ call'.sealing /\ Staged' = OnSpine \cup {x}
        /\ call'.applied = call.applied
    BY <1>6, <2>2, <2>3, <2>4, EndFields DEF Inv
  <2>9. /\ Repos(Staged', "applied") = Repos(Staged, "applied")
        /\ Of(Staged', "compensating") = Of(OnSpine, "compensating")
    BY <1>1, <2>4, <2>8 DEF Repos, Of, Is
  <2>10. Positions'
    BY <1>1, <2>1, <2>8 DEF Positions, Reverting, Applying, Merging
  <2>11. Records'
    BY <1>1, <2>2, <2>4, <2>8, <2>9 DEF Inv, Records, Reverting, Applying, Merging, Is
  <2>12. Reached' /\ Compensation'
    BY <1>3, <2>8, <2>9 DEF Reached, Compensation, Reverting, Applying, Merging
  <2>13. Inv'
    BY <1>1, <2>1, <2>8, <2>9, <2>10, <2>11, <2>12, CallStep DEF Inv, Shapes
  <2> QED BY <1>6, <2>13
<1> QED BY <1>2, <1>4, <1>5, <1>6 DEF Survey

\* A published merge is confirmed; the call goes on.
LEMMA ConfirmKeeps ==
  ASSUME Inv, Confirm
  PROVE  Inv' /\ Plain'
<1>0. At("apply")
  BY DEF Confirm
<1>1. /\ call.pc = "apply" /\ call.queue = <<>> /\ Staged = OnSpine
      /\ call.applied = Applied /\ Applied = Repos(Staged, "applied")
      /\ \E k \in 0..N: call.applied = 1..k
      /\ result = "none"
  BY <1>0, AtFacts
<1>2. PICK c \in CallType, r \in Repo: c = call /\ r = call.at /\ c.at = r /\ r \in call.applied
  BY <1>1 DEF Inv, Shapes, Positions, Applying, Confirm
<1>3. Of(OnSpine, "compensating") = {} /\ Of(OnSpine, "plan") # {}
  BY <1>1 DEF Inv, Backward, Compensation, Reverting, Records
<1>4. CASE Return("uncertain")
  BY <1>4, ReturnKeeps DEF Ways
<1>5. CASE ~Return("uncertain")
  <2>1. UNCHANGED <<mode, git, log, result>> /\ call' = Onward(call, "apply", "verify")
    BY <1>5 DEF Confirm, Keep
  <2>2. /\ OnSpine' = OnSpine /\ Staged' = OnSpine \cup Elements(call'.queue)
        /\ UNCHANGED <<Applied, local, head, remote, merges>>
    BY <2>1, Frozen
  <2>3. PICK l \in Stations, m \in Stations: l = "apply" /\ m = "verify"
    BY DEF Stations, Applying
  <2>4. LET d == Onward(c, l, m) IN
           /\ d \in CallType /\ d.sealing = c.sealing /\ d.queue = c.queue
           /\ d.applied = c.applied /\ d.pending = c.pending /\ d.status = c.status
           /\ d.at \in Repo
           /\ \/ c.at = N /\ d.pc = m /\ d.at = 1
              \/ c.at # N /\ d.pc = l /\ d.at = c.at + 1
    BY <1>2, OnwardFields
  <2>5. /\ call' \in CallType /\ call'.queue = <<>> /\ call'.applied = call.applied
        /\ call'.pending = call.pending /\ call'.at \in Repo
        /\ \/ r = N /\ call'.pc = "verify" /\ call'.at = 1
           \/ r # N /\ call'.pc = "apply" /\ call'.at = r + 1
    BY <1>1, <1>2, <2>1, <2>3, <2>4
  <2>6. Staged' = OnSpine
    BY <2>2, <2>5, ElementsFew
  <2>7. 1..r \subseteq call.applied
    <3>1. 1..(r - 1) \subseteq call.applied
      BY <1>1, <1>2 DEF Inv, Reached, Applying
    <3>2. \A k \in 1..r: k = r \/ k \in 1..(r - 1)
      BY DEF Repo
    <3> QED BY <1>2, <3>1, <3>2
  <2>8. Positions'
    BY <1>1, <2>1, <2>5 DEF Positions, Reverting, Applying, Merging
  <2>9. Records'
    BY <1>1, <1>3, <2>2, <2>5, <2>6 DEF Inv, Records, Reverting, Applying, Merging
  <2>10. Reached'
    <3>1. CASE r = N
      <4>1. call.applied = Repo
        BY <2>7, <3>1, Typed DEF Repo, Inv
      <4> QED BY <2>5, <3>1, <4>1 DEF Reached, Applying, Merging
    <3>2. CASE r # N
      <4>1. call'.pc = "apply" /\ call'.at = r + 1 /\ (r + 1) - 1 = r
        BY <2>5, <3>2 DEF Repo
      <4>2. \A s \in Repo: s \notin call.applied /\ call.pending[s] = 0 => head[s] = "candidate"
        BY <1>1 DEF Inv, Reached, Applying
      <4> QED BY <2>2, <2>5, <2>7, <4>1, <4>2 DEF Reached, Applying, Merging
    <3> QED BY <3>1, <3>2
  <2>11. Compensation'
    BY <1>3, <2>5, <2>6 DEF Compensation, Reverting
  <2>12. Inv'
    BY <1>1, <2>1, <2>5, <2>6, <2>8, <2>9, <2>10, <2>11, CallStep DEF Inv, Shapes
  <2>13. Plain'
    BY <2>5, ElementsFew DEF Plain
  <2> QED BY <2>12, <2>13
<1> QED BY <1>4, <1>5

\* recordApplied, for a merge that was pushed or has been found published.
LEMMA RecordAppliedParts ==
  ASSUME Inv, At("apply") \/ At("push"), call.at \notin call.applied, RecordApplied,
         UNCHANGED <<local, head, merges, log, result>>
  PROVE  /\ call' \in CallType /\ Control' /\ Plain'
         /\ Repos(Staged', "applied") = Repos(Staged, "applied") \cup {call.at}
<1>1. /\ call.pc \in {"apply", "push"} /\ call.queue = <<>> /\ Staged = OnSpine
      /\ call.applied = Applied /\ Applied = Repos(Staged, "applied")
      /\ \E k \in 0..N: call.applied = 1..k
      /\ result = "none"
  BY AtFacts
<1>2. PICK c \in CallType, r \in Repo: c = call /\ r = call.at /\ c.at = r /\ r \notin call.applied
  BY <1>1 DEF Inv, Shapes, Positions, Applying, Merging
<1>3. Of(OnSpine, "compensating") = {} /\ Of(OnSpine, "plan") # {}
  BY <1>1 DEF Inv, Backward, Compensation, Reverting, Records, Applying, Merging
<1>4. PICK l \in Stations, m \in Stations: l = "apply" /\ m = "verify"
  BY DEF Stations, Applying
<1>5. PICK d \in CallType:
           /\ d = Onward(c, l, m)
           /\ d.applied = c.applied /\ d.pending = c.pending /\ d.at \in Repo
           /\ \/ r = N /\ d.pc = m /\ d.at = 1
              \/ r # N /\ d.pc = l /\ d.at = r + 1
  <2>1. LET d == Onward(c, l, m) IN
           /\ d \in CallType /\ d.sealing = c.sealing /\ d.queue = c.queue
           /\ d.applied = c.applied /\ d.pending = c.pending /\ d.status = c.status
           /\ d.at \in Repo
           /\ \/ c.at = N /\ d.pc = m /\ d.at = 1
              \/ c.at # N /\ d.pc = l /\ d.at = c.at + 1
    BY <1>2, OnwardFields
  <2> QED BY <1>2, <2>1
<1>6. PICK e \in CallType: /\ e = [d EXCEPT !.applied = @ \cup {r}] /\ e.pc = d.pc /\ e.at = d.at
                           /\ e.applied = d.applied \cup {r} /\ e.pending = d.pending
  <2>1. LET e == [d EXCEPT !.applied = @ \cup {r}] IN
          /\ e \in CallType /\ e.pc = d.pc /\ e.at = d.at
          /\ e.applied = d.applied \cup {r} /\ e.pending = d.pending
    BY DEF CallType
  <2> QED BY <2>1
<1>7. PICK x \in EventType: Is(x, "applied", r, merges[r], "")
  <2>1. PICK k \in Int, n \in Int, h \in Ways: k = r /\ n = merges[r] /\ h = ""
    <3>1. r \in Int /\ merges[r] \in Int
      BY DEF Inv, Shapes, Repo
    <3>2. "" \in Ways
      BY DEF Ways
    <3> QED BY <3>1, <3>2, Zenon
  <2>2. \E x \in EventType: Is(x, "applied", k, n, h)
    BY StagedEvents
  <2> QED BY <2>1, <2>2
<1>8. LET f == Stage(e, <<x>>) IN
           /\ f \in CallType /\ f.pc = e.pc /\ f.at = e.at /\ f.sealing = TRUE
           /\ Elements(f.queue) = {x}
           /\ f.applied = e.applied /\ f.pending = e.pending /\ f.status = e.status
  BY StageOne
<1>9. call' = Stage(e, <<x>>)
  BY <1>2, <1>4, <1>5, <1>6, <1>7, Zenon DEF RecordApplied, Is
<1>10. /\ call' \in CallType /\ Elements(call'.queue) = {x} /\ call'.sealing
       /\ call'.applied = call.applied \cup {r} /\ call'.pending = call.pending
       /\ call'.at \in Repo
       /\ \/ r = N /\ call'.pc = "verify" /\ call'.at = 1
          \/ r # N /\ call'.pc = "apply" /\ call'.at = r + 1
  BY <1>2, <1>4, <1>5, <1>6, <1>8, <1>9, SMTT(30)
<1>11. OnSpine' = OnSpine /\ Staged' = OnSpine \cup {x} /\ UNCHANGED Applied
  BY <1>10 DEF OnSpine, Staged, Applied, Events
<1>12. Repos(Staged', "applied") = Repos(Staged, "applied") \cup {r}
  BY <1>1, <1>7, <1>11 DEF Repos, Of, Is
<1>13. 1..(r - 1) \subseteq call.applied
  BY <1>1, <1>2 DEF Inv, Reached, Applying, Merging
<1>14. 1..r \subseteq call'.applied
  <2>1. \A k \in 1..r: k = r \/ k \in 1..(r - 1)
    BY DEF Repo
  <2> QED BY <1>10, <1>13, <2>1
<1>15. \E k \in 0..N: call'.applied = 1..k
  <2>1. PICK k \in 0..N: call.applied = 1..k
    BY <1>1
  <2>2. k = r - 1
    <3>1. ~(r <= k)
      BY <1>2, <2>1 DEF Repo
    <3>2. k >= r - 1
      <4>1. CASE r = 1
        BY <4>1, CountAssumption
      <4>2. CASE r # 1
        <5>1. r - 1 \in 1..(r - 1)
          BY <4>2 DEF Repo
        <5>2. r - 1 \in 1..k
          BY <1>13, <2>1, <5>1
        <5> QED BY <5>2
      <4> QED BY <4>1, <4>2
    <3> QED BY <3>1, <3>2, CountAssumption DEF Repo
  <2>3. 1..(r - 1) \cup {r} = 1..r /\ r \in 0..N
    BY CountAssumption DEF Repo
  <2> QED BY <1>10, <2>1, <2>2, <2>3
<1>16. Positions'
  BY <1>1, <1>10 DEF Positions, Reverting, Applying, Merging
<1>17. Records'
  <2>1. \A y \in Staged':
          /\ y.ev \in {"applied", "compensated"} => y.repo \in Repo
          /\ y.ev = "compensated" => y.repo \in Applied /\ y.how \in {"reverted", "failed"}
          /\ y.ev = "compensating" => y.how # "refused"
    BY <1>1, <1>7, <1>11 DEF Inv, Records, Is
  <2>2. Of(Staged', "plan") # {}
    BY <1>3, <1>11 DEF Of
  <2> QED BY <1>1, <1>10, <1>11, <1>12, <1>15, <2>1, <2>2 DEF Records, Reverting, Applying, Merging
<1>18. Reached'
  <2>1. CASE r = N
    <3>1. call'.applied = Repo
      BY <1>14, <1>10, <2>1 DEF Repo, CallType
    <3> QED BY <1>10, <2>1, <3>1 DEF Reached, Applying, Merging
  <2>2. CASE r # N
    <3>1. call'.pc = "apply" /\ call'.at = r + 1 /\ (r + 1) - 1 = r
      BY <1>10, <2>2 DEF Repo
    <3>2. ASSUME NEW s \in Repo, s \notin call'.applied, call'.pending[s] = 0
          PROVE  head'[s] = "candidate"
      <4>1. s \notin call.applied /\ call.pending[s] = 0 /\ s # r
        BY <1>10, <3>2
      <4>2. s > r
        <5>1. ~(s \in 1..r)
          BY <1>14, <3>2
        <5> QED BY <5>1 DEF Repo
      <4> QED BY <1>1, <1>2, <4>1, <4>2 DEF Inv, Reached, Applying, Merging
    <3> QED BY <1>14, <3>1, <3>2 DEF Reached, Applying, Merging
  <2> QED BY <2>1, <2>2
<1>19. Compensation'
  BY <1>3, <1>7, <1>10, <1>11 DEF Compensation, Reverting, Of, Is
<1>20. Plain'
  BY <1>7, <1>10 DEF Plain, Preparing, Is
<1> QED BY <1>2, <1>10, <1>12, <1>16, <1>17, <1>18, <1>19, <1>20 DEF Control

LEMMA AgainKeeps ==
  ASSUME Inv, Again
  PROVE  Inv'
<1>0. At("again")
  BY DEF Again
<1>1. call.pc = "again" /\ call.applied = Applied
  BY <1>0, AtFacts
<1>2. head[call.at] = "base"
  BY <1>1 DEF Inv, Reached, Applying
<1>3. call' = Compensating("reverted") /\ UNCHANGED <<mode, git, log, result>>
  BY <1>2 DEF Again, Clean, Keep
<1> QED BY <1>1, <1>3, CompensatingKeeps DEF Applying, Failures

LEMMA MergeFailsKeeps ==
  ASSUME Inv, NEW how \in Failures, MergeFails(how)
  PROVE  Inv'
<1>1. \E l \in {"apply", "merge", "appraise"}: At(l)
  BY DEF MergeFails
<1>2. call.pc \in Applying /\ call.applied = Applied
  BY <1>1, AtFacts DEF Applying, Merging
<1>3. call' = Compensating(how) /\ UNCHANGED <<mode, git, log, result>>
  BY DEF MergeFails, Keep
<1> QED BY <1>2, <1>3, CompensatingKeeps

\* The merge at hand is given up, its preparation recorded or not.
LEMMA UndoParts ==
  ASSUME Inv, At("appraise") \/ At("push"), call' = [call EXCEPT !.pc = "undo"],
         UNCHANGED <<mode, git, log, result>>
  PROVE  Inv' /\ Plain'
<1>1. /\ call.pc \in {"appraise", "push"} /\ call.queue = <<>> /\ Staged = OnSpine
      /\ call.applied = Applied /\ Applied = Repos(Staged, "applied")
      /\ \E k \in 0..N: call.applied = 1..k
      /\ result = "none"
  BY AtFacts
<1>2. PICK c \in CallType, l \in Stations: c = call /\ l = "undo"
  BY DEF Inv, Shapes, Stations, Applying, Merging
<1>3. LET d == [c EXCEPT !.pc = l] IN
           /\ d \in CallType /\ d.pc = l /\ d.at = c.at /\ d.sealing = c.sealing /\ d.queue = c.queue
           /\ d.applied = c.applied /\ d.pending = c.pending /\ d.status = c.status
  BY PcFields
<1>4. /\ call' \in CallType /\ call'.pc = "undo" /\ call'.at = call.at /\ call'.queue = <<>>
      /\ call'.applied = call.applied /\ call'.pending = call.pending
  BY <1>1, <1>2, <1>3
<1>5. /\ OnSpine' = OnSpine /\ Staged' = OnSpine \cup Elements(call'.queue)
      /\ UNCHANGED <<Applied, local, head, remote, merges>>
      /\ \A r: Merged(r)' = Merged(r) /\ Reverted(r)' = Reverted(r) /\ Target(r)' = Target(r)
  BY Frozen
<1>6. Staged' = OnSpine
  BY <1>4, <1>5, ElementsFew
<1>7. Positions'
  BY <1>1, <1>4 DEF Inv, Positions, Reverting, Applying, Merging
<1>8. Records'
  BY <1>1, <1>4, <1>5, <1>6 DEF Inv, Records, Reverting, Applying, Merging
<1>9. Reached'
  BY <1>1, <1>4, <1>5 DEF Inv, Reached, Applying, Merging
<1>10. Compensation'
  BY <1>1, <1>4, <1>6 DEF Inv, Backward, Compensation, Reverting
<1>11. Inv'
  BY <1>1, <1>4, <1>6, <1>7, <1>8, <1>9, <1>10, CallStep DEF Inv, Shapes
<1>12. Plain'
  BY <1>4, ElementsFew DEF Plain
<1> QED BY <1>11, <1>12

\* The attempt is prepared and bound to the plan before the push.
LEMMA AppraiseKeeps ==
  ASSUME Inv, Appraise
  PROVE  Inv' /\ Plain'
<1>0. At("appraise") /\ UNCHANGED <<mode, git, log, result>>
  BY DEF Appraise, Keep
<1>1. /\ call.pc = "appraise" /\ call.queue = <<>> /\ Staged = OnSpine
      /\ call.applied = Applied /\ Applied = Repos(Staged, "applied")
      /\ \E k \in 0..N: call.applied = 1..k
      /\ result = "none"
  BY <1>0, AtFacts
<1>2. CASE call' = [call EXCEPT !.pc = "undo"]
  BY <1>0, <1>2, UndoParts
<1>3. CASE call' = Stage([call EXCEPT !.pc = "push"],
                         <<Event("bound", call.at, merges[call.at], ""),
                           Event("attempt", call.at, merges[call.at], "")>>)
  <2>1. PICK c \in CallType, l \in Stations: c = call /\ l = "push"
    BY DEF Inv, Shapes, Stations, Applying, Merging
  <2>2. PICK d \in CallType: /\ d = [c EXCEPT !.pc = l] /\ d.pc = l /\ d.at = c.at
                             /\ d.applied = c.applied /\ d.pending = c.pending
    <3>1. LET d == [c EXCEPT !.pc = l] IN
           /\ d \in CallType /\ d.pc = l /\ d.at = c.at /\ d.sealing = c.sealing /\ d.queue = c.queue
           /\ d.applied = c.applied /\ d.pending = c.pending /\ d.status = c.status
      BY PcFields
    <3> QED BY <3>1
  <2>3. PICK r \in Repo, k \in Int, n \in Int, h \in Ways:
          r = call.at /\ k = r /\ n = merges[r] /\ h = ""
    <3>1. call.at \in Repo
      BY <1>1 DEF Inv, Positions, Applying, Merging
    <3>2. call.at \in Int /\ merges[call.at] \in Int
      BY <3>1 DEF Inv, Shapes, Repo
    <3>3. "" \in Ways
      BY DEF Ways
    <3> QED BY <3>1, <3>2, <3>3, Zenon
  <2>4. PICK x \in EventType, y \in EventType: Is(x, "bound", k, n, h) /\ Is(y, "attempt", k, n, h)
    BY StagedEvents
  <2>5. LET e == Stage(d, <<x, y>>) IN
           /\ e \in CallType /\ e.pc = d.pc /\ e.at = d.at /\ e.sealing = TRUE
           /\ Elements(e.queue) = {x, y}
           /\ e.applied = d.applied /\ e.pending = d.pending /\ e.status = d.status
    BY StageTwo
  <2>6. call' = Stage(d, <<x, y>>)
    BY <1>3, <2>1, <2>2, <2>3, <2>4, Zenon DEF Is
  <2>7. /\ call' \in CallType /\ call'.pc = "push" /\ call'.at = call.at /\ call'.sealing
        /\ Elements(call'.queue) = {x, y}
        /\ call'.applied = call.applied /\ call'.pending = call.pending
    BY <2>1, <2>2, <2>5, <2>6
  <2>8. /\ OnSpine' = OnSpine /\ Staged' = OnSpine \cup {x, y}
        /\ UNCHANGED <<Applied, local, head, remote, merges>>
        /\ \A s: Merged(s)' = Merged(s) /\ Reverted(s)' = Reverted(s) /\ Target(s)' = Target(s)
    BY <1>0, <2>7, Frozen
  <2>9. /\ Repos(Staged', "applied") = Repos(Staged, "applied")
        /\ Of(Staged', "compensating") = Of(Staged, "compensating")
    BY <1>1, <2>4, <2>8 DEF Repos, Of, Is
  <2>10. Positions'
    BY <1>0, <1>1, <2>7 DEF Inv, Positions, Reverting, Applying, Merging
  <2>11. Records'
    BY <1>1, <2>4, <2>7, <2>8, <2>9 DEF Inv, Records, Reverting, Applying, Merging, Is
  <2>12. Reached'
    <3>1. {Event("bound", call'.at, merges'[call'.at], ""),
           Event("attempt", call'.at, merges'[call'.at], "")} \subseteq Staged'
      BY <2>3, <2>4, <2>7, <2>8 DEF Is
    <3> QED BY <1>1, <2>7, <2>8, <3>1 DEF Inv, Reached, Applying, Merging
  <2>13. Compensation'
    BY <1>1, <2>7, <2>9 DEF Inv, Backward, Compensation, Reverting
  <2>14. Inv'
    BY <1>0, <1>1, <2>7, <2>9, <2>10, <2>11, <2>12, <2>13, CallStep DEF Inv, Shapes
  <2>15. Plain'
    BY <2>4, <2>7 DEF Plain, Preparing, Is
  <2> QED BY <2>14, <2>15
<1> QED BY <1>2, <1>3 DEF Appraise

LEMMA ElementsConcat ==
  ASSUME NEW S, NEW p \in Seq(S), NEW q \in Seq(S)
  PROVE  p \o q \in Seq(S) /\ Elements(p \o q) = Elements(p) \cup Elements(q)
<1>1. PICK c \in Seq(S), m \in Nat, n \in Nat:
        /\ c = p \o q /\ Len(p) = m /\ Len(q) = n /\ Len(c) = m + n
        /\ \A i \in 1..(m + n): c[i] = IF i <= m THEN p[i] ELSE q[i - m]
  <2>1. /\ p \o q \in Seq(S) /\ Len(p \o q) = Len(p) + Len(q)
        /\ \A i \in 1..(Len(p) + Len(q)): (p \o q)[i] = IF i <= Len(p) THEN p[i] ELSE q[i - Len(p)]
    BY ConcatProperties
  <2>2. PICK m \in Nat, n \in Nat: Len(p) = m /\ Len(q) = n
    BY LenProperties
  <2>3. PICK c \in Seq(S): c = p \o q
    BY <2>1
  <2> QED BY <2>1, <2>2, <2>3, Zenon
<1>2. DOMAIN p = 1..m /\ DOMAIN q = 1..n /\ DOMAIN c = 1..(m + n)
  BY <1>1, LenProperties
<1>3. \A i \in 1..m: i \in 1..(m + n) /\ c[i] = p[i]
  BY <1>1
<1>4. \A i \in 1..n: m + i \in 1..(m + n) /\ c[m + i] = q[i]
  BY <1>1
<1>5. ASSUME NEW i \in 1..(m + n)
      PROVE  (i \in 1..m /\ c[i] = p[i]) \/ (i - m \in 1..n /\ c[i] = q[i - m])
  BY <1>1
<1>6. ASSUME NEW e, e \in Elements(c) PROVE e \in Elements(p) \cup Elements(q)
  BY <1>2, <1>5, <1>6 DEF Elements
<1>7. ASSUME NEW e, e \in Elements(p) \cup Elements(q) PROVE e \in Elements(c)
  BY <1>2, <1>3, <1>4, <1>7 DEF Elements
<1> QED BY <1>1, <1>6, <1>7

\* The records of a commit: every attempt is closed, then the change is committed.
Receipts ==
  [r \in Repo |-> Event("closed", r, merges[r], "effect-occurred-verified")]
    \o <<Event("committed", 0, 0, "")>>

LEMMA ReceiptsFacts ==
  ASSUME Shapes
  PROVE  /\ Receipts \in Seq(EventType)
         /\ \A e \in Elements(Receipts): e.ev \in {"closed", "committed"}
         /\ \E e \in Elements(Receipts): e.ev = "committed"
<1>1. PICK h \in Ways, g \in Ways: h = "effect-occurred-verified" /\ g = ""
  BY DEF Ways
<1>2. ASSUME NEW r \in Repo
      PROVE  /\ Event("closed", r, merges[r], "effect-occurred-verified") \in EventType
             /\ Event("closed", r, merges[r], "effect-occurred-verified").ev = "closed"
  <2>1. PICK k \in Int, n \in Int: k = r /\ n = merges[r]
    BY DEF Shapes, Repo
  <2>2. PICK x \in EventType: Is(x, "closed", k, n, h)
    BY StagedEvents
  <2> QED BY <1>1, <2>1, <2>2 DEF Is
<1>3. PICK x \in EventType: Is(x, "committed", 0, 0, g)
  BY StagedEvents
<1> DEFINE p == [r \in Repo |-> Event("closed", r, merges[r], "effect-occurred-verified")]
<1>4. p \in Seq(EventType) /\ DOMAIN p = Repo
  <2>1. p \in [1..N -> EventType]
    BY <1>2 DEF Repo
  <2> QED BY <2>1, CountAssumption, SeqDef DEF Repo
<1>5. \A e \in Elements(p): e.ev = "closed"
  BY <1>2, <1>4 DEF Elements
<1>6. <<x>> \in Seq(EventType) /\ Elements(<<x>>) = {x}
  BY Queues, ElementsFew
<1>7. Receipts = p \o <<x>>
  BY <1>1, <1>3, Zenon DEF Receipts, Is
<1> HIDE DEF p
<1>8. p \o <<x>> \in Seq(EventType) /\ Elements(p \o <<x>>) = Elements(p) \cup Elements(<<x>>)
  BY <1>4, <1>6, ElementsConcat, ZenonT(60)
<1> QED BY <1>3, <1>5, <1>6, <1>7, <1>8 DEF Is

LEMMA VerifyKeeps ==
  ASSUME Inv, Verify
  PROVE  /\ Inv'
         /\ \/ Plain'
            \/ call' = Compensating("reverted")
            \/ call' = Stage([call EXCEPT !.pc = "commit"], Receipts)
<1>0. At("verify") /\ UNCHANGED <<mode, git, log, result>>
  BY DEF Verify, Keep
<1>1. /\ call.pc = "verify" /\ call.queue = <<>> /\ Staged = OnSpine
      /\ call.applied = Applied /\ Applied = Repos(Staged, "applied")
      /\ \E k \in 0..N: call.applied = 1..k
      /\ result = "none"
  BY <1>0, AtFacts
<1>2. /\ OnSpine' = OnSpine /\ Staged' = OnSpine \cup Elements(call'.queue)
      /\ UNCHANGED <<Applied, local, head, remote, merges>>
  BY <1>0, Frozen
<1>3. Of(OnSpine, "compensating") = {} /\ call.applied = Repo
  BY <1>1 DEF Inv, Backward, Compensation, Reverting, Reached
<1>4. PICK c \in CallType, r \in Repo: c = call /\ r = call.at
  BY <1>1 DEF Inv, Shapes, Positions
<1>5. CASE call' = Compensating("reverted")
  <2>1. Inv'
    BY <1>0, <1>1, <1>5, CompensatingKeeps DEF Failures
  <2> QED BY <1>5, <2>1
<1>6. CASE r < N /\ call' = Goto(call, "verify", r + 1)
  <2>1. PICK j \in Int, l \in Stations: j = r + 1 /\ l = "verify" /\ j \in Repo
    BY <1>6, CountAssumption DEF Repo, Stations
  <2>2. LET d == Goto(c, l, j) IN
           /\ d \in CallType /\ d.pc = l /\ d.at = j /\ d.sealing = c.sealing /\ d.queue = c.queue
           /\ d.applied = c.applied /\ d.pending = c.pending /\ d.status = c.status
    BY GotoFields
  <2>3. /\ call' \in CallType /\ call'.pc = "verify" /\ call'.at \in Repo /\ call'.queue = <<>>
        /\ call'.applied = call.applied
    BY <1>1, <1>4, <1>6, <2>1, <2>2
  <2>4. Staged' = OnSpine
    BY <1>2, <2>3, ElementsFew
  <2>5. Positions'
    BY <1>0, <1>1, <2>3 DEF Positions, Reverting, Applying, Merging
  <2>6. Records'
    BY <1>1, <1>2, <2>3, <2>4 DEF Inv, Records, Reverting, Applying, Merging
  <2>7. Reached' /\ Compensation'
    BY <1>3, <2>3, <2>4 DEF Reached, Compensation, Reverting, Applying, Merging
  <2>8. Inv'
    BY <1>0, <1>1, <2>3, <2>4, <2>5, <2>6, <2>7, CallStep DEF Inv, Shapes
  <2>9. Plain'
    BY <2>3, ElementsFew DEF Plain
  <2> QED BY <2>8, <2>9
<1>7. CASE call' = Stage([call EXCEPT !.pc = "commit"], Receipts)
  <2>1. PICK l \in Stations, q \in Seq(EventType):
          /\ l = "commit" /\ q = Receipts /\ \A e \in Elements(q): e.ev \in {"closed", "committed"}
    BY ReceiptsFacts DEF Stations, Inv
  <2>2. PICK d \in CallType: /\ d = [c EXCEPT !.pc = l] /\ d.pc = l /\ d.applied = c.applied
    <3>1. LET d == [c EXCEPT !.pc = l] IN
           /\ d \in CallType /\ d.pc = l /\ d.at = c.at /\ d.sealing = c.sealing /\ d.queue = c.queue
           /\ d.applied = c.applied /\ d.pending = c.pending /\ d.status = c.status
      BY PcFields
    <3> QED BY <3>1
  <2>3. LET f == Stage(d, q) IN
        /\ f \in CallType /\ f.pc = d.pc /\ f.at = d.at /\ f.sealing = TRUE /\ f.queue = q
        /\ f.applied = d.applied /\ f.pending = d.pending /\ f.status = d.status
    BY StageFields
  <2>4. call' = Stage(d, q)
    BY <1>4, <1>7, <2>1, <2>2
  <2>5. /\ call' \in CallType /\ call'.pc = "commit" /\ call'.sealing /\ call'.queue = q
        /\ call'.applied = call.applied
    BY <1>4, <2>1, <2>2, <2>3, <2>4
  <2>6. Staged' = OnSpine \cup Elements(q)
    BY <1>2, <2>5
  <2>7. /\ Repos(Staged', "applied") = Repos(Staged, "applied")
        /\ Of(Staged', "compensating") = Of(OnSpine, "compensating")
    BY <1>1, <2>1, <2>6 DEF Repos, Of
  <2>8. Positions'
    BY <1>0, <1>1, <2>5 DEF Positions, Reverting, Applying, Merging
  <2>9. Records'
    BY <1>1, <1>2, <2>1, <2>5, <2>6, <2>7 DEF Inv, Records, Reverting, Applying, Merging
  <2>10. Reached' /\ Compensation'
    BY <1>3, <2>5, <2>7 DEF Reached, Compensation, Reverting, Applying, Merging
  <2>11. Inv'
    BY <1>0, <1>1, <2>5, <2>7, <2>8, <2>9, <2>10, CallStep DEF Inv, Shapes
  <2> QED BY <1>7, <2>11
<1> QED BY <1>4, <1>5, <1>6, <1>7 DEF Verify, Receipts

LEMMA CommitKeeps ==
  ASSUME Inv, Commit
  PROVE  Inv'
BY ReturnKeeps DEF Commit

LEMMA EndKeeps ==
  ASSUME Inv, End
  PROVE  Inv'
BY ReturnKeeps, Typed DEF End, Inv

\* A repository is accounted for, and the compensation goes on with the one before it.
LEMMA CompensatedFields ==
  ASSUME Inv, call.pc \in Reverting, call.at # 0, NEW ok \in BOOLEAN, RecordCompensated(ok)
  PROVE  /\ call.at \in call.applied
         /\ call' \in CallType /\ call'.pc = "revert" /\ call'.at = call.at - 1 /\ call'.sealing
         /\ call'.applied = call.applied /\ call'.status = call.status
         /\ \E x \in EventType: /\ x \in Elements(call'.queue)
                                /\ x.ev = "compensated" /\ x.repo = call.at
                                /\ x.how = (IF ok THEN "reverted" ELSE "failed")
                                /\ \A e \in Elements(call'.queue): e = x \/ e.ev = "closed"
<1>1. PICK c \in CallType, r \in Repo: c = call /\ r = call.at /\ r \in call.applied
  BY Typed DEF Inv, Shapes, Positions
<1>2. PICK j \in Int, i \in Int, n \in Int: j = r - 1 /\ i = r /\ n = merges[r]
  <2>1. r \in Int /\ r - 1 \in Int /\ merges[r] \in Int
    BY DEF Inv, Shapes, Repo
  <2> QED BY <2>1
<1>3. PICK l \in Stations, g \in Ways, h \in Ways:
        l = "revert" /\ g = "reverted" /\ h = (IF ok THEN "reverted" ELSE "failed")
  BY DEF Stations, Reverting, Ways
<1>4. PICK x \in EventType, y \in EventType: Is(x, "compensated", i, 0, h) /\ Is(y, "closed", i, n, g)
  BY StagedEvents
<1>5. PICK p \in Seq(EventType): /\ p = (IF ok THEN <<y>> ELSE <<>>)
                                 /\ \A e \in Elements(p): e = y
  <2>1. <<y>> \in Seq(EventType) /\ Elements(<<y>>) = {y} /\ Elements(<<>>) = {}
    BY Queues, ElementsFew
  <2>2. <<>> \in Seq(EventType)
    BY EmptySeq
  <2> QED BY <2>1, <2>2
<1>6. PICK q \in Seq(EventType): q = p \o <<x>> /\ Elements(q) = Elements(p) \cup {x}
  <2>1. PICK t \in Seq(EventType): t = <<x>> /\ Elements(t) = {x}
    BY Queues, ElementsFew
  <2>2. p \o t \in Seq(EventType) /\ Elements(p \o t) = Elements(p) \cup Elements(t)
    BY ElementsConcat
  <2> QED BY <2>1, <2>2
<1>7. PICK d \in CallType: /\ d = Goto(c, l, j) /\ d.pc = l /\ d.at = j
                           /\ d.applied = c.applied /\ d.status = c.status
  <2>1. LET d == Goto(c, l, j) IN
           /\ d \in CallType /\ d.pc = l /\ d.at = j /\ d.sealing = c.sealing /\ d.queue = c.queue
           /\ d.applied = c.applied /\ d.pending = c.pending /\ d.status = c.status
    BY GotoFields
  <2> QED BY <2>1
<1>8. LET f == Stage(d, q) IN
        /\ f \in CallType /\ f.pc = d.pc /\ f.at = d.at /\ f.sealing = TRUE /\ f.queue = q
        /\ f.applied = d.applied /\ f.pending = d.pending /\ f.status = d.status
  BY StageFields
<1>9. call' = Stage(d, q)
  <2>1. q = (IF ok THEN <<Event("closed", r, merges[r], "reverted")>> ELSE <<>>)
              \o <<Event("compensated", r, 0, IF ok THEN "reverted" ELSE "failed")>>
    BY <1>2, <1>3, <1>4, <1>5, <1>6, Zenon DEF Is
  <2> QED BY <1>1, <1>2, <1>3, <1>7, <2>1, Zenon DEF RecordCompensated
<1>10. /\ call' \in CallType /\ call'.pc = "revert" /\ call'.at = call.at - 1 /\ call'.sealing
       /\ call'.applied = call.applied /\ call'.status = call.status /\ call'.queue = q
  BY <1>1, <1>2, <1>3, <1>7, <1>8, <1>9
<1>11. /\ x \in Elements(call'.queue) /\ x.ev = "compensated" /\ x.repo = call.at
       /\ x.how = (IF ok THEN "reverted" ELSE "failed")
  BY <1>1, <1>2, <1>3, <1>4, <1>6, <1>10 DEF Is
<1>12. \A e \in Elements(call'.queue): e = x \/ e.ev = "closed"
  BY <1>4, <1>5, <1>6, <1>10 DEF Is
<1>13. call.at \in call.applied
  BY <1>1
<1> QED BY <1>10, <1>11, <1>12, <1>13, Zenon

LEMMA CompensatedParts ==
  ASSUME Inv, At("revert") \/ At("repush"), call.at # 0, NEW ok \in BOOLEAN, RecordCompensated(ok),
         UNCHANGED <<log, result>>
  PROVE  /\ call' \in CallType /\ Control'
         /\ Repos(Staged', "applied") = Repos(Staged, "applied")
<1>1. /\ call.pc \in Reverting /\ call.queue = <<>> /\ Staged = OnSpine
      /\ call.applied = Applied /\ Applied = Repos(Staged, "applied")
      /\ result = "none"
  BY AtFacts DEF Reverting
<1>2. PICK k \in 0..N: call.applied = 1..k
  BY AtFacts
<1>3. PICK r \in Repo: r = call.at /\ r \in call.applied
  BY <1>1, CompensatedFields, Typed DEF Inv
<1>4. /\ call' \in CallType /\ call'.pc = "revert" /\ call'.at = r - 1 /\ call'.sealing
      /\ call'.applied = call.applied /\ call'.status = call.status
  BY <1>1, <1>3, CompensatedFields
<1>5. PICK x \in EventType: /\ x \in Elements(call'.queue)
                            /\ x.ev = "compensated" /\ x.repo = r
                            /\ x.how \in {"reverted", "failed"}
                            /\ \A e \in Elements(call'.queue): e = x \/ e.ev = "closed"
  BY <1>1, <1>3, CompensatedFields
<1>6. OnSpine' = OnSpine /\ Staged' = OnSpine \cup Elements(call'.queue) /\ UNCHANGED Applied
  BY DEF OnSpine, Staged, Applied, Events
<1>7. /\ Repos(Staged', "applied") = Repos(Staged, "applied")
      /\ Of(Staged', "compensating") = Of(Staged, "compensating")
      /\ Repos(Staged, "compensated") \cup {r} \subseteq Repos(Staged', "compensated")
  BY <1>1, <1>5, <1>6 DEF Repos, Of
<1>8. r - 1 \in {0} \cup call.applied
  BY <1>2, <1>3 DEF Repo
<1>9. Positions'
  BY <1>1, <1>4, <1>8 DEF Positions, Reverting, Applying, Merging
<1>10. Records'
  <2>1. \A e \in Staged': /\ e.ev \in {"applied", "compensated"} => e.repo \in Repo
                          /\ e.ev = "compensated" => /\ e.repo \in Applied
                                                     /\ e.how \in {"reverted", "failed"}
                          /\ e.ev = "compensating" => e.how # "refused"
    BY <1>1, <1>3, <1>5, <1>6 DEF Inv, Records
  <2> QED BY <1>1, <1>2, <1>4, <1>6, <1>7, <2>1 DEF Records, Reverting, Applying, Merging
<1>11. Reached'
  BY <1>4 DEF Reached, Applying, Merging
<1>12. Compensation'
  <2>1. /\ \E e \in Of(Staged, "compensating"): e.how = call.status
        /\ \A s \in call.applied: s > r => s \in Repos(Staged, "compensated")
    BY <1>1, <1>3 DEF Inv, Backward, Compensation
  <2>2. \A s \in call.applied: s > r - 1 => s > r \/ s = r
    BY <1>2, <1>3 DEF Repo
  <2> QED BY <1>4, <1>7, <2>1, <2>2 DEF Compensation, Reverting
<1> QED BY <1>4, <1>7, <1>9, <1>10, <1>11, <1>12 DEF Control

LEMMA RevertFailsKeeps ==
  ASSUME Inv, RevertFails
  PROVE  Inv'
<1>1. At("revert") /\ call.at # 0 /\ RecordCompensated(FALSE) /\ UNCHANGED <<mode, git, log, result>>
  <2>1. At("revert") /\ RecordCompensated(FALSE) /\ UNCHANGED <<mode, git, log, result>>
    BY DEF RevertFails, Keep
  <2>2. call.at # 0
    BY DEF RevertFails
  <2> QED BY <2>1, <2>2
<1>2. call' \in CallType /\ Control' /\ Repos(Staged', "applied") = Repos(Staged, "applied")
  BY <1>1, CompensatedParts
<1> QED BY <1>1, <1>2, CallStep DEF Inv, Shapes, Control

\* A repository that an earlier call has accounted for is passed over.
LEMMA SkipKeeps ==
  ASSUME Inv, Skip
  PROVE  Inv' /\ Plain' /\ call'.pc = "revert"
<1>0. At("revert") /\ Recorded("compensated", call.at) /\ UNCHANGED <<mode, git, log, result>>
  BY DEF Skip, Keep
<1>1. /\ call.pc = "revert" /\ call.queue = <<>> /\ Staged = OnSpine
      /\ call.applied = Applied /\ Applied = Repos(Staged, "applied")
      /\ result = "none"
  BY <1>0, AtFacts
<1>2. PICK k \in 0..N: call.applied = 1..k
  BY <1>0, AtFacts
<1>3. PICK r \in Repo: r = call.at /\ r \in call.applied /\ r \in Repos(Staged, "compensated")
  <2>1. call.at \in Repos(OnSpine, "compensated")
    BY <1>0, SpineView DEF SpineRead
  <2>2. call.at \in Repo
    BY <1>1, <2>1 DEF Inv, Records, Repos, Of
  <2>3. call.at \in call.applied
    BY <1>1, <2>1 DEF Inv, Records, Repos, Of
  <2> QED BY <1>1, <2>1, <2>2, <2>3
<1>4. PICK c \in CallType, l \in Stations, j \in Int: c = call /\ l = "revert" /\ j = r - 1
  <2>1. call \in CallType /\ "revert" \in Stations /\ r - 1 \in Int
    BY DEF Inv, Shapes, Stations, Reverting, Repo
  <2> QED BY <2>1, Zenon
<1>5. LET d == Goto(c, l, j) IN
           /\ d \in CallType /\ d.pc = l /\ d.at = j /\ d.sealing = c.sealing /\ d.queue = c.queue
           /\ d.applied = c.applied /\ d.pending = c.pending /\ d.status = c.status
  BY GotoFields
<1>6. call' = Goto(c, l, j)
  BY <1>3, <1>4 DEF Skip
<1>7. /\ call' \in CallType /\ call'.pc = "revert" /\ call'.at = r - 1 /\ call'.queue = <<>>
      /\ call'.applied = call.applied /\ call'.status = call.status
  BY <1>1, <1>4, <1>5, <1>6
<1>8. OnSpine' = OnSpine /\ Staged' = OnSpine /\ UNCHANGED Applied
  BY <1>0, <1>7, ElementsFew DEF OnSpine, Staged, Applied, Events
<1>9. r - 1 \in {0} \cup call.applied
  BY <1>2, <1>3 DEF Repo
<1>10. Positions'
  BY <1>0, <1>1, <1>7, <1>9 DEF Positions, Reverting, Applying, Merging
<1>11. Records'
  BY <1>1, <1>2, <1>7, <1>8 DEF Inv, Records, Reverting, Applying, Merging
<1>12. Reached'
  BY <1>7 DEF Reached, Applying, Merging
<1>13. Compensation'
  <2>1. /\ \E e \in Of(Staged, "compensating"): e.how = call.status
        /\ \A s \in call.applied: s > r => s \in Repos(Staged, "compensated")
    BY <1>1, <1>3 DEF Inv, Backward, Compensation, Reverting
  <2>2. \A s \in call.applied: s > r - 1 => s > r \/ s = r
    BY <1>2, <1>3 DEF Repo
  <2> QED BY <1>1, <1>3, <1>7, <1>8, <2>1, <2>2 DEF Compensation, Reverting
<1>14. Inv'
  BY <1>0, <1>1, <1>7, <1>8, <1>10, <1>11, <1>12, <1>13, CallStep DEF Inv, Shapes
<1>15. Plain'
  BY <1>7, ElementsFew DEF Plain
<1> QED BY <1>7, <1>14, <1>15

\* The revert is committed and has to be pushed.
LEMMA RepushParts ==
  ASSUME Inv, At("revert"), call.at # 0, call' = [call EXCEPT !.pc = "repush"],
         mode' = "remote", Reverted(call.at)' \in Elements(local'[call.at]), UNCHANGED <<log, result>>
  PROVE  /\ call' \in CallType /\ Control' /\ Plain'
         /\ Repos(Staged', "applied") = Repos(Staged, "applied")
<1>1. /\ call.pc = "revert" /\ call.queue = <<>> /\ Staged = OnSpine
      /\ call.applied = Applied /\ Applied = Repos(Staged, "applied")
      /\ \E k \in 0..N: call.applied = 1..k
      /\ result = "none"
  BY AtFacts
<1>2. PICK c \in CallType, l \in Stations: c = call /\ l = "repush"
  BY DEF Inv, Shapes, Stations, Reverting
<1>3. LET d == [c EXCEPT !.pc = l] IN
           /\ d \in CallType /\ d.pc = l /\ d.at = c.at /\ d.sealing = c.sealing /\ d.queue = c.queue
           /\ d.applied = c.applied /\ d.pending = c.pending /\ d.status = c.status
  BY PcFields
<1>4. /\ call' \in CallType /\ call'.pc = "repush" /\ call'.at = call.at /\ call'.queue = <<>>
      /\ call'.applied = call.applied /\ call'.status = call.status
  BY <1>1, <1>2, <1>3
<1>5. OnSpine' = OnSpine /\ Staged' = Staged /\ UNCHANGED Applied
  BY <1>1, <1>4 DEF OnSpine, Staged, Applied, Events
<1>6. Positions'
  BY <1>1, <1>4 DEF Inv, Positions, Reverting, Applying, Merging
<1>7. Records'
  BY <1>1, <1>4, <1>5 DEF Inv, Records, Reverting, Applying, Merging
<1>8. Reached'
  BY <1>4 DEF Reached, Applying, Merging
<1>9. Compensation'
  <2>1. /\ Of(Staged, "compensating") # {}
        /\ \E e \in Of(Staged, "compensating"): e.how = call.status
        /\ \A s \in call.applied: s > call.at => s \in Repos(Staged, "compensated")
    BY <1>1 DEF Inv, Backward, Compensation, Reverting
  <2> QED BY <1>1, <1>4, <1>5, <2>1 DEF Compensation, Reverting
<1>10. Plain'
  BY <1>4, ElementsFew DEF Plain
<1> QED BY <1>4, <1>5, <1>6, <1>7, <1>8, <1>9, <1>10 DEF Control

\* The revert of an earlier call is found.
LEMMA ReconcileRevertKeeps ==
  ASSUME Inv, ReconcileRevert
  PROVE  Inv'
<1>1. At("revert") /\ UNCHANGED <<mode, git, log, result>>
  BY DEF ReconcileRevert, Keep
<1>2. call.at # 0
  BY DEF ReconcileRevert
<1>3. CASE call' = [call EXCEPT !.pc = "repush"] /\ mode = "remote"
  <2>1. call.pc = "revert"
    BY <1>1, AtFacts
  <2>2. call.at \in Repo
    BY <1>2, <2>1, Typed DEF Inv, Positions, Reverting
  <2>3. Reverted(call.at) \in Elements(local[call.at])
    <3>1. local[call.at] \in Seq(CommitType) /\ Tip(local[call.at], Reverted(call.at))
      BY <2>2 DEF ReconcileRevert, Inv, Shapes
    <3> QED BY <3>1, TipElement
  <2>4. /\ UNCHANGED local /\ mode' = "remote"
        /\ \A r: Reverted(r)' = Reverted(r)
    BY <1>1, <1>3, GitSame
  <2> QED BY <1>1, <1>2, <1>3, <2>3, <2>4, RepushParts, CallStep DEF Inv, Shapes, Control
<1>4. CASE \E ok \in BOOLEAN: RecordCompensated(ok)
  <2>1. PICK ok \in BOOLEAN: RecordCompensated(ok)
    BY <1>4
  <2>2. call' \in CallType /\ Control' /\ Repos(Staged', "applied") = Repos(Staged, "applied")
    BY <1>1, <1>2, <2>1, CompensatedParts
  <2> QED BY <1>1, <2>2, CallStep DEF Inv, Shapes, Control
<1> QED BY <1>3, <1>4 DEF ReconcileRevert

\* The compensation has come to its end.
LEMMA FinishKeeps ==
  ASSUME Inv, Finish
  PROVE  Inv'
<1>0. At("revert") /\ UNCHANGED <<mode, git, log, result>> /\ call.at = 0
  BY DEF Finish, Keep
<1>1. /\ call.pc = "revert" /\ call.queue = <<>> /\ Staged = OnSpine
      /\ call.applied = Applied /\ Applied = Repos(Staged, "applied")
      /\ \E k \in 0..N: call.applied = 1..k
      /\ result = "none"
  BY <1>0, AtFacts
<1>2. PICK h \in Ways:
        call' = Stage([call EXCEPT !.pc = "end", !.status = h], <<Event("terminal", 0, 0, h)>>)
  <2>1. "rollback-failed" \in Ways /\ call.status \in Ways
    BY Typed DEF Ways, Inv
  <2> QED BY <2>1, Zenon DEF Finish
<1>4. PICK x \in EventType: Is(x, "terminal", 0, 0, h) /\ Elements(call'.queue) = {x}
  BY <1>2, EndFields DEF Inv
<1>8. /\ call' \in CallType /\ call'.pc = "end" /\ call'.sealing
      /\ call'.applied = call.applied /\ Elements(call'.queue) = {x}
  BY <1>2, <1>4, EndFields DEF Inv
<1>9. OnSpine' = OnSpine /\ Staged' = OnSpine \cup {x} /\ UNCHANGED Applied
  BY <1>0, <1>8, Frozen
<1>10. Repos(Staged', "applied") = Repos(Staged, "applied")
  BY <1>1, <1>4, <1>9 DEF Repos, Of, Is
<1>11. Positions'
  BY <1>0, <1>1, <1>8 DEF Positions, Reverting, Applying, Merging
<1>12. Records'
  BY <1>1, <1>4, <1>8, <1>9, <1>10 DEF Inv, Records, Reverting, Applying, Merging, Is
<1>13. Reached' /\ Compensation'
  BY <1>8 DEF Reached, Compensation, Reverting, Applying, Merging
<1> QED BY <1>0, <1>1, <1>8, <1>10, <1>11, <1>12, <1>13, CallStep DEF Inv, Shapes

-----------------------------------------------------------------------------
(* Steps that change the branches of one repository. *)

\* What Order asks of one repository.
OrderOf(r) ==
  /\ local[r] \in Local(r)
  /\ head[r] = "candidate" => local[r] = <<>> /\ Merged(r) \notin Elements(remote[r])
  /\ head[r] = "base" => Of(OnSpine, "plan") # {} /\ 1..(r - 1) \subseteq Applied
  /\ mode = "remote" /\ Merged(r) \in Elements(remote[r]) =>
       {Event("bound", r, merges[r], ""), Event("attempt", r, merges[r], "")} \subseteq OnSpine
  /\ Reverted(r) \in Elements(remote[r]) => Of(OnSpine, "compensating") # {}
  /\ r \in Repos(Staged, "applied") =>
       /\ head[r] = "base" /\ local[r] # <<>> /\ Merged(r) \in Elements(Target(r))
       /\ Reverted(r) \in Elements(local[r]) => Of(OnSpine, "compensating") # {}

LEMMA OrderParts ==
  ASSUME Records
  PROVE  Order <=> \A r \in Repo: OrderOf(r)
<1>1. Repos(Staged, "applied") \subseteq Repo
  BY DEF Records, Repos, Of
<1> QED BY <1>1 DEF Order, OrderOf

OrderSplit == Records => (Order <=> \A r \in Repo: OrderOf(r))

LEMMA OrderNext == OrderSplit'
<1>1. OrderSplit
  BY OrderParts DEF OrderSplit
<1> QED BY <1>1, PTL

\* The other repositories are as they were.
LEMMA OrderAt ==
  ASSUME Inv, Records', NEW r \in Repo, UNCHANGED <<mode, log>>, OrderOf(r)',
         \A s \in Repo \ {r}: /\ local'[s] = local[s] /\ head'[s] = head[s]
                              /\ remote'[s] = remote[s] /\ merges'[s] = merges[s],
         Repos(Staged', "applied") \subseteq Repos(Staged, "applied") \cup {r}
  PROVE  Order'
<1>1. OnSpine' = OnSpine /\ UNCHANGED Applied
  BY DEF OnSpine, Applied, Events
<1>2. ASSUME NEW s \in Repo, s # r PROVE OrderOf(s)'
  <2>1. /\ local'[s] = local[s] /\ head'[s] = head[s]
        /\ remote'[s] = remote[s] /\ merges'[s] = merges[s]
    BY <1>2
  <2>2. Merged(s)' = Merged(s) /\ Reverted(s)' = Reverted(s) /\ Target(s)' = Target(s)
    BY <2>1 DEF Merged, Reverted, Target
  <2>3. Local(s)' = Local(s)
    BY <2>2 DEF Local
  <2>4. OrderOf(s)
    BY OrderParts DEF Inv
  <2>5. /\ local'[s] \in Local(s)'
        /\ head'[s] = "candidate" => local'[s] = <<>> /\ Merged(s)' \notin Elements(remote'[s])
        /\ head'[s] = "base" => Of(OnSpine', "plan") # {} /\ 1..(s - 1) \subseteq Applied'
        /\ Reverted(s)' \in Elements(remote'[s]) => Of(OnSpine', "compensating") # {}
    BY <1>1, <2>1, <2>2, <2>3, <2>4 DEF OrderOf
  <2>6. ASSUME mode' = "remote", Merged(s)' \in Elements(remote'[s])
        PROVE  {Event("bound", s, merges'[s], ""), Event("attempt", s, merges'[s], "")} \subseteq OnSpine'
    <3>1. {Event("bound", s, merges[s], ""), Event("attempt", s, merges[s], "")} \subseteq OnSpine
      BY <2>1, <2>2, <2>4, <2>6 DEF OrderOf
    <3> QED BY <1>1, <2>1, <3>1
  <2>7. ASSUME s \in Repos(Staged', "applied")
        PROVE  /\ head'[s] = "base" /\ local'[s] # <<>> /\ Merged(s)' \in Elements(Target(s)')
               /\ Reverted(s)' \in Elements(local'[s]) => Of(OnSpine', "compensating") # {}
    <3>1. s \in Repos(Staged, "applied")
      BY <1>2, <2>7
    <3> QED BY <1>1, <2>1, <2>2, <2>4, <3>1 DEF OrderOf
  <2> QED BY <2>5, <2>6, <2>7 DEF OrderOf
<1>3. \A s \in Repo: OrderOf(s)'
  BY <1>2
<1> QED BY <1>3, OrderNext DEF OrderSplit

LEMMA ReverseAt ==
  ASSUME Inv, NEW r \in Repo, UNCHANGED log,
         \A s \in Repo \ {r}: local'[s] = local[s] /\ merges'[s] = merges[s],
         \/ r \notin Applied
         \/ Reverted(r)' \in Elements(local'[r]) => Reverted(r) \in Elements(local[r])
         \/ \A s \in Applied: r < s => Recorded("compensated", s)
  PROVE  ReverseOrder'
<1>1. /\ Applied' = Applied /\ \A s: Recorded("compensated", s)' <=> Recorded("compensated", s)
  BY DEF Applied, Events, Recorded
<1>2. Applied \subseteq Repo
  <2>1. Applied = Repos(OnSpine, "applied") /\ OnSpine \subseteq Staged
    BY SpineView DEF SpineRead, Staged
  <2> QED BY <2>1 DEF Inv, Records, Repos, Of
<1>3. \A s \in Repo \ {r}: Reverted(s)' = Reverted(s)
  BY DEF Reverted
<1>4. ASSUME NEW s \in Applied, NEW t \in Applied, s < t, Reverted(s)' \in Elements(local'[s])
      PROVE  Recorded("compensated", t)
  <2>1. CASE s = r
    BY <1>4, <2>1 DEF Inv, Backward, ReverseOrder
  <2>2. CASE s # r
    BY <1>2, <1>3, <1>4, <2>2 DEF Inv, Backward, ReverseOrder
  <2> QED BY <2>1, <2>2
<1> QED BY <1>1, <1>4 DEF ReverseOrder

\* A repository's own commits.
LEMMA Commits ==
  ASSUME Shapes, NEW r \in Repo
  PROVE  Merged(r) \in CommitType /\ Reverted(r) \in CommitType /\ Merged(r) # Reverted(r)
BY DEF Shapes, CommitType, Merged, Reverted

LEMMA Tips ==
  ASSUME NEW m, NEW x, m # x, NEW p \in {<<>>, <<m>>, <<m, x>>}
  PROVE  /\ Tip(p, m) => p = <<m>>
         /\ Tip(p, x) => p = <<m, x>>
         /\ Append(<<m>>, x) = <<m, x>>
         /\ x \in Elements(p) => p = <<m, x>>
         /\ p # <<>> => m \in Elements(p)
<1>1. Elements(<<>>) = {} /\ Elements(<<m>>) = {m} /\ Elements(<<m, x>>) = {m, x}
  BY ElementsFew
<1>2. ~Tip(<<>>, m) /\ ~Tip(<<>>, x) /\ ~Tip(<<m>>, x) /\ ~Tip(<<m, x>>, m)
  BY DEF Tip
<1>3. Append(<<m>>, x) = <<m, x>>
  <2> DEFINE S == {m, x}
  <2>1. m \in S /\ x \in S
    OBVIOUS
  <2> HIDE DEF S
  <2>2. /\ <<m>> \in Seq(S) /\ <<m, x>> \in Seq(S) /\ Len(<<m>>) = 1 /\ Len(<<m, x>>) = 2
    BY <2>1
  <2>3. /\ Append(<<m>>, x) \in Seq(S) /\ Len(Append(<<m>>, x)) = 2
        /\ Append(<<m>>, x)[1] = m /\ Append(<<m>>, x)[2] = x
    BY <2>1, <2>2, AppendProperties
  <2>4. \A i \in 1..2: Append(<<m>>, x)[i] = <<m, x>>[i]
    BY <2>3
  <2> QED BY <2>2, <2>3, <2>4, SeqEqual
<1> QED BY <1>1, <1>2, <1>3, Zenon

LEMMA LocalTips ==
  ASSUME Inv, NEW r \in Repo
  PROVE  /\ Tip(local[r], Merged(r)) => local[r] = <<Merged(r)>>
         /\ Tip(local[r], Reverted(r)) => local[r] = <<Merged(r), Reverted(r)>>
         /\ Append(<<Merged(r)>>, Reverted(r)) = <<Merged(r), Reverted(r)>>
         /\ Reverted(r) \in Elements(local[r]) => local[r] = <<Merged(r), Reverted(r)>>
         /\ local[r] # <<>> => Merged(r) \in Elements(local[r])
<1>1. Merged(r) # Reverted(r) /\ local[r] \in {<<>>, <<Merged(r)>>, <<Merged(r), Reverted(r)>>}
  BY Commits DEF Inv, Order, Local
<1> QED BY <1>1, Tips

\* The base branch is checked out for the merge.
LEMMA CheckoutKeeps ==
  ASSUME Inv, Checkout
  PROVE  Inv' /\ Plain'
<1>0. At("apply") /\ UNCHANGED <<mode, local, remote, merges, log, result>>
  BY DEF Checkout, Keep
<1>1. /\ call.pc = "apply" /\ call.queue = <<>> /\ Staged = OnSpine
      /\ call.applied = Applied /\ Applied = Repos(Staged, "applied")
      /\ \E k \in 0..N: call.applied = 1..k
      /\ result = "none"
  BY <1>0, AtFacts
<1>2. PICK c \in CallType, l \in Stations, r \in Repo:
        c = call /\ l = "merge" /\ r = call.at /\ r \notin call.applied
  BY <1>1 DEF Inv, Shapes, Stations, Positions, Applying, Merging, Checkout
<1>3. head' = [head EXCEPT ![r] = "base"] /\ head[r] = "candidate" /\ call' = [c EXCEPT !.pc = l]
  BY <1>2 DEF Checkout
<1>4. LET d == [c EXCEPT !.pc = l] IN
           /\ d \in CallType /\ d.pc = l /\ d.at = c.at /\ d.sealing = c.sealing /\ d.queue = c.queue
           /\ d.applied = c.applied /\ d.pending = c.pending /\ d.status = c.status
  BY PcFields
<1>5. /\ call' \in CallType /\ call'.pc = "merge" /\ call'.at = r /\ call'.queue = <<>>
      /\ call'.applied = call.applied /\ call'.pending = call.pending
  BY <1>1, <1>2, <1>3, <1>4
<1>6. /\ OnSpine' = OnSpine /\ Staged' = OnSpine /\ UNCHANGED Applied
      /\ \A s: Merged(s)' = Merged(s) /\ Reverted(s)' = Reverted(s) /\ Target(s)' = Target(s)
  BY <1>0, <1>5, ElementsFew DEF OnSpine, Staged, Applied, Events, Merged, Reverted, Target
<1>7. /\ head' \in [Repo -> {"candidate", "base"}] /\ head'[r] = "base"
      /\ \A s \in Repo \ {r}: head'[s] = head[s]
  BY <1>3 DEF Inv, Shapes
<1>8. /\ local[r] = <<>> /\ Merged(r) \notin Elements(remote[r])
      /\ Reverted(r) \in Elements(remote[r]) => Of(OnSpine, "compensating") # {}
      /\ Of(OnSpine, "plan") # {} /\ Of(OnSpine, "compensating") = {}
  BY <1>1, <1>3 DEF Inv, Order, Records, Backward, Compensation, Reverting
<1>9. Shapes'
  BY <1>0, <1>5, <1>7 DEF Inv, Shapes
<1>10. Positions'
  BY <1>0, <1>1, <1>5 DEF Positions, Reverting, Applying, Merging
<1>11. Records'
  BY <1>1, <1>5, <1>6, <1>8 DEF Inv, Records, Reverting, Applying, Merging
<1>12. 1..(r - 1) \subseteq Applied
  BY <1>1, <1>2 DEF Inv, Reached, Applying
<1>13. OrderOf(r)'
  <2>1. r \notin Repos(Staged', "applied")
    BY <1>1, <1>2, <1>6
  <2>2. local'[r] = <<>> /\ local'[r] \in Local(r)'
    BY <1>0, <1>8 DEF Local
  <2> QED BY <1>0, <1>6, <1>7, <1>8, <1>12, <2>1, <2>2 DEF OrderOf
<1>14. Order'
  BY <1>0, <1>1, <1>6, <1>7, <1>11, <1>13, OrderAt
<1>15. Reached'
  <2>1. \A s \in Repo: s > r => s # r
    BY DEF Repo
  <2>2. \A s \in Repo: s \notin call.applied /\ call.pending[s] = 0 => head[s] = "candidate"
    BY <1>1 DEF Inv, Reached, Applying
  <2>3. 1..(call.at - 1) \subseteq call.applied
    BY <1>1 DEF Inv, Reached, Applying
  <2> QED BY <1>0, <1>1, <1>2, <1>5, <1>6, <1>7, <1>8, <2>1, <2>2, <2>3 DEF Reached, Applying, Merging
<1>16. Compensation'
  BY <1>5, <1>6, <1>8 DEF Compensation, Reverting
<1>17. ReverseOrder'
  BY <1>0, ReverseSame DEF Inv, Backward
<1>18. Inv'
  BY <1>9, <1>10, <1>11, <1>14, <1>15, <1>16, <1>17 DEF Inv, Backward
<1>19. Plain'
  BY <1>5, ElementsFew DEF Plain
<1> QED BY <1>18, <1>19

\* The merge commit is made on a base that nobody has moved.
LEMMA GitMergeKeeps ==
  ASSUME Inv, GitMerge
  PROVE  Inv' /\ Plain'
<1>0. At("merge") /\ UNCHANGED <<mode, head, remote, log, result>>
  BY DEF GitMerge, Keep
<1>1. /\ call.pc = "merge" /\ call.queue = <<>> /\ Staged = OnSpine
      /\ call.applied = Applied /\ Applied = Repos(Staged, "applied")
      /\ \E k \in 0..N: call.applied = 1..k
      /\ result = "none"
  BY <1>0, AtFacts
<1>2. PICK c \in CallType, l \in Stations, r \in Repo:
        c = call /\ l = "appraise" /\ r = call.at /\ r \notin call.applied /\ head[r] = "base"
  BY <1>1 DEF Inv, Shapes, Stations, Positions, Reached, Applying, Merging
<1>3. PICK m \in CommitType, n \in Nat:
        /\ n = merges[r] + 1 /\ m = [kind |-> "merge", n |-> n]
        /\ merges' = [merges EXCEPT ![r] = n] /\ local' = [local EXCEPT ![r] = <<m>>]
        /\ call' = [c EXCEPT !.pc = l]
  <2>1. merges[r] + 1 \in Nat
    BY DEF Inv, Shapes
  <2>2. PICK n \in Nat: n = merges[r] + 1
    BY <2>1
  <2>3. [kind |-> "merge", n |-> n] \in CommitType
    BY DEF CommitType
  <2>4. merges' = [merges EXCEPT ![r] = n]
    BY <1>2, <2>2 DEF GitMerge
  <2>5. local' = [local EXCEPT ![r] = <<[kind |-> "merge", n |-> n]>>] /\ call' = [c EXCEPT !.pc = l]
    BY <1>2, <2>2 DEF GitMerge
  <2> QED BY <2>2, <2>3, <2>4, <2>5
<1>4. remote[r] = <<>> /\ Elements(remote[r]) = {} /\ Elements(<<m>>) = {m}
  <2>1. remote[r] = <<>>
    BY <1>2 DEF GitMerge, Inv, Shapes
  <2> QED BY <2>1, ElementsFew
<1>5. LET d == [c EXCEPT !.pc = l] IN
           /\ d \in CallType /\ d.pc = l /\ d.at = c.at /\ d.sealing = c.sealing /\ d.queue = c.queue
           /\ d.applied = c.applied /\ d.pending = c.pending /\ d.status = c.status
  BY PcFields
<1>6. /\ call' \in CallType /\ call'.pc = "appraise" /\ call'.at = r /\ call'.queue = <<>>
      /\ call'.applied = call.applied /\ call'.pending = call.pending
  BY <1>1, <1>2, <1>3, <1>5
<1>7. OnSpine' = OnSpine /\ Staged' = OnSpine /\ UNCHANGED Applied
  BY <1>0, <1>6, ElementsFew DEF OnSpine, Staged, Applied, Events
<1>8. /\ merges' \in [Repo -> Nat] /\ merges'[r] = n
      /\ \A s \in Repo \ {r}: merges'[s] = merges[s]
  BY <1>3 DEF Inv, Shapes
<1>9. /\ local' \in [Repo -> Seq(CommitType)] /\ local'[r] = <<m>>
      /\ \A s \in Repo \ {r}: local'[s] = local[s]
  <2>1. <<m>> \in Seq(CommitType)
    <3>1. ASSUME NEW S, NEW x \in S PROVE <<x>> \in Seq(S)
      OBVIOUS
    <3> QED BY <3>1
  <2>2. PICK q \in Seq(CommitType): q = <<m>>
    BY <2>1
  <2> QED BY <1>3, <2>2 DEF Inv, Shapes
<1>10. Merged(r)' = m
  BY <1>3, <1>8 DEF Merged
<1>11. Shapes'
  BY <1>0, <1>6, <1>8, <1>9 DEF Inv, Shapes
<1>12. Positions'
  BY <1>0, <1>1, <1>6 DEF Inv, Positions, Reverting, Applying, Merging
<1>13. Records'
  BY <1>1, <1>6, <1>7 DEF Inv, Records, Reverting, Applying, Merging
<1>14. OrderOf(r)'
  <2>1. r \notin Repos(Staged', "applied")
    BY <1>1, <1>2, <1>7
  <2>2. Of(OnSpine, "plan") # {} /\ 1..(r - 1) \subseteq Applied
    BY <1>2 DEF Inv, Order
  <2>3. local'[r] \in Local(r)'
    BY <1>9, <1>10 DEF Local
  <2>4. remote'[r] = <<>> /\ Elements(remote'[r]) = {} /\ head'[r] = "base"
    BY <1>0, <1>2, <1>4
  <2> QED BY <1>7, <2>1, <2>2, <2>3, <2>4 DEF OrderOf
<1>15. Order'
  BY <1>0, <1>1, <1>7, <1>8, <1>9, <1>13, <1>14, OrderAt
<1>16. Reached'
  <2>1. \A s \in Repo: s \notin call.applied /\ call.pending[s] = 0 /\ s > r => head[s] = "candidate"
    BY <1>1, <1>2 DEF Inv, Reached, Applying, Merging
  <2>2. 1..(call.at - 1) \subseteq call.applied
    BY <1>1 DEF Inv, Reached, Applying, Merging
  <2>3. Merged(call.at)' = m
    BY <1>3, <1>6, <1>8 DEF Merged
  <2>4. Merged(call.at)' \notin Elements(remote'[call'.at]) /\ local'[call'.at] = <<Merged(call.at)'>>
    BY <1>0, <1>4, <1>6, <1>9, <2>3
  <2> QED BY <1>0, <1>2, <1>6, <2>1, <2>2, <2>4 DEF Reached, Applying, Merging
<1>17. Compensation'
  BY <1>1, <1>6, <1>7 DEF Inv, Backward, Compensation, Reverting
<1>18. ReverseOrder'
  BY <1>0, <1>1, <1>2, <1>8, <1>9, ReverseAt
<1>19. Inv'
  BY <1>11, <1>12, <1>13, <1>15, <1>16, <1>17, <1>18 DEF Inv, Backward
<1>20. Plain'
  BY <1>6, ElementsFew DEF Plain
<1> QED BY <1>19, <1>20

\* A merge that was published is found, or one that was not is taken back.
LEMMA ObserveKeeps ==
  ASSUME Inv, Observe
  PROVE  Inv' /\ Plain'
<1>0. At("apply") /\ call.at \notin call.applied
  BY DEF Observe
<1>1. /\ call.pc = "apply" /\ call.queue = <<>> /\ Staged = OnSpine
      /\ call.applied = Applied /\ Applied = Repos(Staged, "applied")
      /\ \E k \in 0..N: call.applied = 1..k
      /\ result = "none"
  BY <1>0, AtFacts
<1>2. PICK c \in CallType, r \in Repo: c = call /\ r = call.at /\ r \notin call.applied
  BY <1>0, <1>1 DEF Inv, Shapes, Positions, Applying
<1>3. CASE Return("uncertain")
  BY <1>3, ReturnKeeps DEF Ways
<1>4. CASE Current(r) /\ RecordApplied /\ UNCHANGED <<git, log>> /\ Keep
  <2>1. UNCHANGED <<mode, local, head, remote, merges, git, log, result>>
    BY <1>4 DEF Keep, git
  <2>2. /\ call' \in CallType /\ Control' /\ Plain'
        /\ Repos(Staged', "applied") = Repos(Staged, "applied") \cup {r}
    BY <1>0, <1>2, <1>4, <2>1, RecordAppliedParts
  <2>3. local[r] = <<Merged(r)>> /\ Merged(r) \in Elements(Target(r)) /\ Reverted(r) \notin Elements(local[r])
    <3>1. local[r] = <<Merged(r)>>
      BY <1>4, LocalTips DEF Current
    <3>2. Target(r) \in Seq(CommitType) /\ Tip(Target(r), Merged(r))
      BY <1>4 DEF Current, Target, Inv, Shapes
    <3>3. Merged(r) # Reverted(r) /\ Elements(<<Merged(r)>>) = {Merged(r)}
      BY Commits, ElementsFew DEF Inv
    <3> QED BY <3>1, <3>2, <3>3, TipElement
  <2>4. /\ OnSpine' = OnSpine /\ UNCHANGED Applied
        /\ \A s: Merged(s)' = Merged(s) /\ Reverted(s)' = Reverted(s) /\ Target(s)' = Target(s)
                 /\ Local(s)' = Local(s)
    BY <2>1, GitSame, Frozen
  <2>5. OrderOf(r)
    BY OrderParts DEF Inv
  <2>6. head[r] = "base" /\ local[r] # <<>>
    <3>1. local[r] # <<>>
      BY <2>3
    <3> QED BY <3>1 DEF Inv, Shapes, Order
  <2>7. OrderOf(r)'
    <3>1. /\ local'[r] \in Local(r)'
          /\ head'[r] = "candidate" => local'[r] = <<>> /\ Merged(r)' \notin Elements(remote'[r])
          /\ head'[r] = "base" => Of(OnSpine', "plan") # {} /\ 1..(r - 1) \subseteq Applied'
          /\ Reverted(r)' \in Elements(remote'[r]) => Of(OnSpine', "compensating") # {}
      BY <2>1, <2>4, <2>5 DEF OrderOf
    <3>2. ASSUME mode' = "remote", Merged(r)' \in Elements(remote'[r])
          PROVE  {Event("bound", r, merges'[r], ""), Event("attempt", r, merges'[r], "")} \subseteq OnSpine'
      <4>1. {Event("bound", r, merges[r], ""), Event("attempt", r, merges[r], "")} \subseteq OnSpine
        BY <2>1, <2>4, <2>5, <3>2 DEF OrderOf
      <4> QED BY <2>1, <2>4, <4>1
    <3> QED BY <2>1, <2>3, <2>4, <2>6, <3>1, <3>2 DEF OrderOf
  <2>8. Order'
    BY <2>1, <2>2, <2>7, OrderAt DEF Control
  <2>9. ReverseOrder'
    BY <2>1, ReverseSame DEF Inv, Backward
  <2>10. Shapes'
    BY <2>1, <2>2 DEF Inv, Shapes
  <2>11. Inv'
    BY <2>2, <2>8, <2>9, <2>10 DEF Inv, Backward, Control
  <2> QED BY <2>2, <2>11
<1>5. CASE /\ Target(r) = <<>> /\ head[r] = "base"
           /\ local' = IF local[r] = <<Merged(r)>> THEN [local EXCEPT ![r] = <<>>] ELSE local
           /\ call' = Stage([call EXCEPT !.pc = "again"],
                            <<Event("closed", r, call.pending[r], "reconciled-effect-absent"),
                              Event("absent", r, call.pending[r], "")>>)
           /\ UNCHANGED <<head, remote, merges, log>> /\ Keep
  <2>1. UNCHANGED <<mode, head, remote, merges, log, result>>
    BY <1>5 DEF Keep
  <2>2. PICK l \in Stations, g \in Ways, h \in Ways:
          l = "again" /\ g = "reconciled-effect-absent" /\ h = ""
    BY DEF Stations, Applying, Ways
  <2>3. PICK i \in Int, n \in Int: i = r /\ n = call.pending[r]
    <3>1. call.pending \in [Repo -> Int]
      BY Typed DEF Inv
    <3>2. call.pending[r] \in Int
      BY <3>1
    <3>3. r \in Int
      BY DEF Repo
    <3> QED BY <3>2, <3>3
  <2>4. PICK x \in EventType, y \in EventType: Is(x, "closed", i, n, g) /\ Is(y, "absent", i, n, h)
    BY StagedEvents
  <2>5. PICK d \in CallType: /\ d = [c EXCEPT !.pc = l] /\ d.pc = l /\ d.at = c.at
                             /\ d.applied = c.applied /\ d.pending = c.pending
    <3>1. LET d == [c EXCEPT !.pc = l] IN
           /\ d \in CallType /\ d.pc = l /\ d.at = c.at /\ d.sealing = c.sealing /\ d.queue = c.queue
           /\ d.applied = c.applied /\ d.pending = c.pending /\ d.status = c.status
      BY PcFields
    <3> QED BY <3>1
  <2>6. LET e == Stage(d, <<x, y>>) IN
           /\ e \in CallType /\ e.pc = d.pc /\ e.at = d.at /\ e.sealing = TRUE
           /\ Elements(e.queue) = {x, y}
           /\ e.applied = d.applied /\ e.pending = d.pending /\ e.status = d.status
    BY StageTwo
  <2>7. call' = Stage(d, <<x, y>>)
    BY <1>2, <1>5, <2>2, <2>3, <2>4, <2>5, Zenon DEF Is
  <2>8. /\ call' \in CallType /\ call'.pc = "again" /\ call'.at = r /\ call'.sealing
        /\ Elements(call'.queue) = {x, y}
        /\ call'.applied = call.applied /\ call'.pending = call.pending
    BY <1>2, <2>2, <2>5, <2>6, <2>7
  <2>9. /\ OnSpine' = OnSpine /\ Staged' = OnSpine \cup {x, y} /\ UNCHANGED Applied
        /\ \A s: Merged(s)' = Merged(s) /\ Reverted(s)' = Reverted(s)
    BY <2>1, <2>8 DEF OnSpine, Staged, Applied, Events, Merged, Reverted
  <2>10. /\ Repos(Staged', "applied") = Repos(Staged, "applied")
         /\ Of(Staged', "compensating") = Of(Staged, "compensating")
    BY <1>1, <2>4, <2>9 DEF Repos, Of, Is
  <2>11. OrderOf(r)
    BY OrderParts DEF Inv
  <2>12. /\ local' \in [Repo -> Seq(CommitType)] /\ local'[r] \in {<<>>, local[r]}
         /\ local'[r] # <<Merged(r)>>
         /\ \A s \in Repo \ {r}: local'[s] = local[s]
    <3>1. PICK q \in Seq(CommitType): q = <<>>
      BY EmptySeq
    <3>2. q # <<Merged(r)>>
      BY <3>1
    <3> QED BY <1>5, <3>1, <3>2 DEF Inv, Shapes
  <2>13. remote[r] = <<>> /\ Elements(remote[r]) = {} /\ (mode = "local" => local[r] = <<>>)
    <3>1. remote[r] = <<>> /\ (mode = "local" => local[r] = <<>>)
      BY <1>5 DEF Inv, Shapes, Target
    <3> QED BY <3>1, ElementsFew
  <2>14. Shapes'
    BY <2>1, <2>8, <2>12 DEF Inv, Shapes
  <2>15. Positions'
    BY <1>1, <2>1, <2>8 DEF Positions, Reverting, Applying, Merging
  <2>16. Of(OnSpine, "plan") # {} /\ 1..(r - 1) \subseteq Applied
    BY <1>5 DEF Inv, Order
  <2>17. Records'
    BY <1>1, <2>4, <2>8, <2>9, <2>10, <2>16 DEF Inv, Records, Reverting, Applying, Merging, Is
  <2>18. OrderOf(r)'
    <3>1. local'[r] \in Local(r)'
      BY <2>9, <2>11, <2>12 DEF OrderOf, Local
    <3>2. r \notin Repos(Staged', "applied")
      BY <1>1, <1>2, <2>10
    <3>3. Elements(remote'[r]) = {} /\ head'[r] = "base"
      BY <1>5, <2>1, <2>13
    <3> QED BY <2>9, <2>16, <3>1, <3>2, <3>3 DEF OrderOf
  <2>19. Order'
    BY <2>1, <2>10, <2>12, <2>17, <2>18, OrderAt
  <2>20. Reached'
    <3>1. \A s \in Repo: s \notin call.applied /\ call.pending[s] = 0 => head[s] = "candidate"
      BY <1>1 DEF Inv, Reached, Applying
    <3>2. 1..(call.at - 1) \subseteq call.applied
      BY <1>1 DEF Inv, Reached, Applying
    <3>3. Elements(remote'[r]) = {} /\ (mode' = "local" => Elements(local'[r]) = {})
      BY <2>1, <2>12, <2>13, ElementsFew
    <3>4. Elements(Target(call.at)') = {}
      BY <1>2, <2>8, <2>14, <3>3 DEF Target, Shapes
    <3>5. /\ 1..(call'.at - 1) \subseteq call'.applied
          /\ call'.at \notin call'.applied /\ head'[call'.at] = "base"
          /\ Merged(call.at)' \notin Elements(remote'[call'.at])
          /\ Merged(call.at)' \notin Elements(Target(call.at)')
      BY <1>2, <1>5, <2>1, <2>8, <3>2, <3>3, <3>4
    <3>6. \A s \in Repo: s \notin call'.applied /\ call'.pending[s] = 0 => head'[s] = "candidate"
      BY <2>1, <2>8, <3>1
    <3> QED BY <2>8, <3>5, <3>6 DEF Reached, Applying, Merging
  <2>21. Compensation'
    BY <1>1, <2>8, <2>10 DEF Inv, Backward, Compensation, Reverting
  <2>22. ReverseOrder'
    BY <1>1, <1>2, <2>1, <2>12, ReverseAt
  <2>23. Inv'
    BY <2>14, <2>15, <2>17, <2>19, <2>20, <2>21, <2>22 DEF Inv, Backward
  <2>24. Plain'
    BY <2>4, <2>8 DEF Plain, Preparing, Is
  <2> QED BY <2>23, <2>24
<1> QED BY <1>2, <1>3, <1>4, <1>5 DEF Observe

\* The merge at hand is on the target: its preparation is on record.
LEMMA PushedOrder ==
  ASSUME Inv, At("push"), UNCHANGED <<mode, local, head, merges, log>>,
         \/ mode = "local" /\ UNCHANGED remote
         \/ mode = "remote" /\ remote' = [remote EXCEPT ![call.at] = <<Merged(call.at)>>],
         Records', Repos(Staged', "applied") \subseteq Repos(Staged, "applied") \cup {call.at}
  PROVE  /\ Order'
         /\ remote' \in [Repo -> Seq(CommitType)]
         /\ mode = "local" => UNCHANGED remote
         /\ Merged(call.at) \in Elements(IF mode = "remote" THEN remote'[call.at] ELSE local[call.at])
<1>1. /\ call.pc = "push" /\ Staged = OnSpine /\ call.applied = Applied
      /\ Applied = Repos(Staged, "applied")
  BY AtFacts
<1>2. PICK r \in Repo:
        /\ r = call.at /\ r \notin call.applied /\ head[r] = "base"
        /\ Merged(r) \notin Elements(remote[r]) /\ local[r] = <<Merged(r)>>
        /\ {Event("bound", r, merges[r], ""), Event("attempt", r, merges[r], "")} \subseteq OnSpine
  BY <1>1 DEF Inv, Positions, Reached, Applying, Merging
<1>3. PICK m \in CommitType: /\ m = Merged(r) /\ m # Reverted(r) /\ <<m>> \in Seq(CommitType)
                             /\ Elements(<<m>>) = {m} /\ <<m>> # <<>>
  <2>1. ASSUME NEW S, NEW x \in S PROVE <<x>> \in Seq(S)
    OBVIOUS
  <2> QED BY <2>1, Commits, ElementsFew DEF Inv
<1>4. /\ remote' \in [Repo -> Seq(CommitType)]
      /\ \A s \in Repo \ {r}: remote'[s] = remote[s]
      /\ remote'[r] = IF mode = "remote" THEN <<m>> ELSE remote[r]
      /\ mode = "local" => UNCHANGED remote
  <2>1. PICK q \in Seq(CommitType): q = <<m>>
    BY <1>3
  <2> QED BY <1>2, <1>3, <2>1 DEF Inv, Shapes
<1>5. /\ OnSpine' = OnSpine /\ UNCHANGED Applied
      /\ \A s: Merged(s)' = Merged(s) /\ Reverted(s)' = Reverted(s)
  BY DEF OnSpine, Applied, Events, Merged, Reverted
<1>6. Local(r)' = Local(r)
  BY <1>5 DEF Local
<1>7. OrderOf(r)
  BY OrderParts DEF Inv
<1>8. mode \in {"remote", "local"} /\ (mode = "local" => Elements(remote[r]) = {})
  BY ElementsFew DEF Inv, Shapes
<1>9. m \in Elements(IF mode = "remote" THEN remote'[r] ELSE local[r])
  BY <1>2, <1>3, <1>4
<1>10. OrderOf(r)'
  <2>1. /\ local'[r] \in Local(r)' /\ head'[r] = "base" /\ local'[r] # <<>>
        /\ Of(OnSpine', "plan") # {} /\ 1..(r - 1) \subseteq Applied'
    BY <1>2, <1>3, <1>5, <1>6, <1>7 DEF OrderOf
  <2>2. Reverted(r)' \notin Elements(remote'[r]) \/ Of(OnSpine', "compensating") # {}
    BY <1>3, <1>4, <1>5, <1>7 DEF OrderOf
  <2>3. {Event("bound", r, merges'[r], ""), Event("attempt", r, merges'[r], "")} \subseteq OnSpine'
    BY <1>2, <1>5
  <2>4. Reverted(r)' \notin Elements(local'[r])
    BY <1>2, <1>3, <1>5
  <2>5. Merged(r)' \in Elements(Target(r)')
    BY <1>3, <1>5, <1>9 DEF Target
  <2> QED BY <2>1, <2>2, <2>3, <2>4, <2>5 DEF OrderOf
<1>11. Order'
  BY <1>2, <1>4, <1>10, OrderAt
<1> QED BY <1>2, <1>3, <1>4, <1>9, <1>11

LEMMA PushKeeps ==
  ASSUME Inv, Push
  PROVE  Inv' /\ Plain'
<1>0. At("push")
  BY DEF Push
<1>1. call.pc = "push" /\ result = "none"
  BY <1>0, AtFacts
<1>2. call.at \notin call.applied /\ mode \in {"remote", "local"}
  BY <1>1 DEF Inv, Shapes, Reached, Applying, Merging
<1>3. CASE Return("uncertain")
  BY <1>3, ReturnKeeps DEF Ways
<1>4. CASE call' = [call EXCEPT !.pc = "undo"] /\ UNCHANGED <<git, log>> /\ Keep
  <2>1. UNCHANGED <<mode, git, log, result>>
    BY <1>4 DEF Keep
  <2> QED BY <1>0, <1>4, <2>1, UndoParts
<1>5. CASE /\ mode = "remote" /\ remote' = [remote EXCEPT ![call.at] = <<Merged(call.at)>>]
           /\ call' = NoCall /\ result' = "uncertain"
           /\ UNCHANGED <<mode, local, head, merges, log, calls, moves>>
  <2>1. /\ call' \in CallType /\ Control' /\ Plain'
        /\ Repos(Staged', "applied") \subseteq Repos(Staged, "applied")
    BY <1>5, ResetParts
  <2>2. Order' /\ remote' \in [Repo -> Seq(CommitType)]
    BY <1>0, <1>5, <2>1, PushedOrder DEF Control
  <2>3. ReverseOrder'
    BY <1>5, ReverseSame DEF Inv, Backward
  <2>4. Shapes'
    BY <1>5, <2>1, <2>2 DEF Inv, Shapes, Ways
  <2>5. Inv'
    BY <2>1, <2>2, <2>3, <2>4 DEF Inv, Backward, Control
  <2> QED BY <2>1, <2>5
<1>6. CASE /\ \/ mode = "local" /\ UNCHANGED remote
              \/ mode = "remote" /\ remote' = [remote EXCEPT ![call.at] = <<Merged(call.at)>>]
           /\ RecordApplied
           /\ UNCHANGED <<local, head, merges, log>> /\ Keep
  <2>0. UNCHANGED <<mode, local, head, merges, log, result>>
    BY <1>6 DEF Keep
  <2>1. /\ call' \in CallType /\ Control' /\ Plain'
        /\ Repos(Staged', "applied") = Repos(Staged, "applied") \cup {call.at}
    BY <1>0, <1>2, <1>6, <2>0, RecordAppliedParts
  <2>2. Order' /\ remote' \in [Repo -> Seq(CommitType)] /\ (mode = "local" => UNCHANGED remote)
    BY <1>0, <1>6, <2>0, <2>1, PushedOrder DEF Control
  <2>3. ReverseOrder'
    BY <2>0, ReverseSame DEF Inv, Backward
  <2>4. Shapes'
    BY <2>0, <2>1, <2>2 DEF Inv, Shapes
  <2>5. Inv'
    BY <2>1, <2>2, <2>3, <2>4 DEF Inv, Backward, Control
  <2> QED BY <2>1, <2>5
<1> QED BY <1>2, <1>3, <1>4, <1>5, <1>6 DEF Push

LEMMA CrashKeeps ==
  ASSUME Inv, Crash
  PROVE  Inv' /\ Plain'
BY ResetKeeps DEF Crash

\* The port takes back a merge that it has not published.
LEMMA UndoKeeps ==
  ASSUME Inv, Undo
  PROVE  Inv'
<1>0. At("undo") /\ UNCHANGED <<mode, head, remote, merges, log, result>>
  BY DEF Undo, Keep
<1>1. /\ call.pc = "undo" /\ call.applied = Applied /\ Applied = Repos(Staged, "applied")
      /\ Staged = OnSpine
  BY <1>0, AtFacts
<1>2. PICK how \in Failures: call' = Compensating(how)
  BY DEF Undo, Failures
<1>3. /\ call' \in CallType /\ Control'
      /\ Repos(Staged', "applied") \subseteq Repos(Staged, "applied")
  BY <1>0, <1>1, <1>2, CompensatingParts DEF Applying, Merging
<1>4. PICK r \in Repo: /\ r = call.at /\ r \notin call.applied /\ head[r] = "base"
                       /\ Merged(r) \notin Elements(remote[r]) /\ local[r] = <<Merged(r)>>
  BY <1>1 DEF Inv, Positions, Reached, Applying, Merging
<1>5. CASE UNCHANGED local
  <2>1. UNCHANGED <<mode, git, log>>
    BY <1>0, <1>5 DEF git
  <2> QED BY <1>0, <1>3, <2>1, CallStep DEF Inv, Shapes, Control
<1>6. CASE local' = [local EXCEPT ![r] = Append(@, Reverted(r))]
  <2>1. PICK q \in Seq(CommitType): q = Append(local[r], Reverted(r)) /\ q = <<Merged(r), Reverted(r)>>
    <3>1. local[r] \in Seq(CommitType) /\ Reverted(r) \in CommitType
      BY Commits DEF Inv, Shapes
    <3>2. Append(local[r], Reverted(r)) \in Seq(CommitType)
      BY <3>1, ElementsAppend
    <3>3. Append(<<Merged(r)>>, Reverted(r)) = <<Merged(r), Reverted(r)>>
      BY LocalTips
    <3> QED BY <1>4, <3>2, <3>3
  <2>2. /\ local' \in [Repo -> Seq(CommitType)] /\ local'[r] = q
        /\ \A s \in Repo \ {r}: local'[s] = local[s]
    BY <1>6, <2>1 DEF Inv, Shapes
  <2>3. /\ OnSpine' = OnSpine /\ UNCHANGED Applied
        /\ \A s: Merged(s)' = Merged(s) /\ Reverted(s)' = Reverted(s)
    BY <1>0 DEF OnSpine, Applied, Events, Merged, Reverted
  <2>4. OrderOf(r)
    BY OrderParts DEF Inv
  <2>5. OrderOf(r)'
    <3>1. local'[r] \in Local(r)'
      BY <2>1, <2>2, <2>3 DEF Local
    <3>2. r \notin Repos(Staged', "applied")
      BY <1>1, <1>3, <1>4
    <3>3. Merged(r)' \notin Elements(remote'[r]) /\ head'[r] = "base"
      BY <1>0, <1>4, <2>3
    <3>4. /\ Of(OnSpine', "plan") # {} /\ 1..(r - 1) \subseteq Applied'
          /\ Reverted(r)' \in Elements(remote'[r]) => Of(OnSpine', "compensating") # {}
      BY <1>0, <1>4, <2>3, <2>4 DEF OrderOf
    <3> QED BY <3>1, <3>2, <3>3, <3>4 DEF OrderOf
  <2>6. Order'
    BY <1>0, <1>3, <2>2, <2>5, OrderAt DEF Control
  <2>7. ReverseOrder'
    BY <1>0, <1>1, <1>4, <2>2, ReverseAt
  <2>8. Shapes'
    BY <1>0, <1>3, <2>2 DEF Inv, Shapes
  <2> QED BY <1>3, <2>6, <2>7, <2>8 DEF Inv, Backward, Control
<1> QED BY <1>4, <1>5, <1>6 DEF Undo

\* git has made the merge commit and failed.
LEMMA MergeBreaksKeeps ==
  ASSUME Inv, MergeBreaks
  PROVE  Inv'
<1>0. At("merge") /\ UNCHANGED <<mode, head, remote, log, result>>
  BY DEF MergeBreaks, Keep
<1>1. /\ call.pc = "merge" /\ call.applied = Applied /\ Applied = Repos(Staged, "applied")
      /\ Staged = OnSpine
  BY <1>0, AtFacts
<1>2. PICK how \in Failures: call' = Compensating(how)
  BY DEF MergeBreaks, Failures
<1>3. /\ call' \in CallType /\ Control'
      /\ Repos(Staged', "applied") \subseteq Repos(Staged, "applied")
  BY <1>0, <1>1, <1>2, CompensatingParts DEF Applying, Merging
<1>4. PICK r \in Repo: r = call.at /\ r \notin call.applied /\ head[r] = "base"
  BY <1>1 DEF Inv, Positions, Reached, Applying, Merging
<1>5. PICK m \in CommitType, n \in Nat:
        /\ n = merges[r] + 1 /\ m = [kind |-> "merge", n |-> n]
        /\ merges' = [merges EXCEPT ![r] = n] /\ local' = [local EXCEPT ![r] = <<m>>]
  <2>1. merges[r] + 1 \in Nat
    BY DEF Inv, Shapes
  <2>2. PICK n \in Nat: n = merges[r] + 1
    BY <2>1
  <2>3. [kind |-> "merge", n |-> n] \in CommitType
    BY DEF CommitType
  <2>4. merges' = [merges EXCEPT ![r] = n]
    BY <1>4, <2>2 DEF MergeBreaks
  <2>5. local' = [local EXCEPT ![r] = <<[kind |-> "merge", n |-> n]>>]
    BY <1>4, <2>2 DEF MergeBreaks
  <2> QED BY <2>2, <2>3, <2>4, <2>5
<1>6. remote[r] = <<>> /\ Elements(remote[r]) = {}
  <2>1. remote[r] = <<>>
    BY <1>4 DEF MergeBreaks, Inv, Shapes
  <2> QED BY <2>1, ElementsFew
<1>7. OnSpine' = OnSpine /\ UNCHANGED Applied
  BY <1>0 DEF OnSpine, Applied, Events
<1>8. /\ merges' \in [Repo -> Nat] /\ merges'[r] = n
      /\ \A s \in Repo \ {r}: merges'[s] = merges[s]
  BY <1>5 DEF Inv, Shapes
<1>9. /\ local' \in [Repo -> Seq(CommitType)] /\ local'[r] = <<m>>
      /\ \A s \in Repo \ {r}: local'[s] = local[s]
  <2>1. <<m>> \in Seq(CommitType)
    <3>1. ASSUME NEW S, NEW x \in S PROVE <<x>> \in Seq(S)
      OBVIOUS
    <3> QED BY <3>1
  <2>2. PICK q \in Seq(CommitType): q = <<m>>
    BY <2>1
  <2> QED BY <1>5, <2>2 DEF Inv, Shapes
<1>10. Shapes'
  BY <1>0, <1>3, <1>8, <1>9 DEF Inv, Shapes
<1>11. OrderOf(r)'
  <2>1. r \notin Repos(Staged', "applied")
    BY <1>1, <1>3, <1>4
  <2>2. Of(OnSpine, "plan") # {} /\ 1..(r - 1) \subseteq Applied
    BY <1>4 DEF Inv, Order
  <2>3. Merged(r)' = m
    BY <1>5, <1>8 DEF Merged
  <2>4. local'[r] \in Local(r)'
    BY <1>9, <2>3 DEF Local
  <2>5. remote'[r] = <<>> /\ Elements(remote'[r]) = {} /\ head'[r] = "base"
    BY <1>0, <1>4, <1>6
  <2> QED BY <1>7, <2>1, <2>2, <2>4, <2>5 DEF OrderOf
<1>12. Order'
  BY <1>0, <1>3, <1>8, <1>9, <1>11, OrderAt DEF Control
<1>13. ReverseOrder'
  BY <1>0, <1>1, <1>4, <1>8, <1>9, ReverseAt
<1> QED BY <1>3, <1>10, <1>12, <1>13 DEF Inv, Backward, Control

\* The revert is committed once every later repository is accounted for.
LEMMA RevertKeeps ==
  ASSUME Inv, Revert
  PROVE  Inv'
<1>0. At("revert") /\ UNCHANGED <<mode, head, remote, merges, log, result>>
  BY DEF Revert, Keep
<1>1. /\ call.pc = "revert" /\ call.applied = Applied /\ Applied = Repos(Staged, "applied")
      /\ Staged = OnSpine
  BY <1>0, AtFacts
<1>2. call.at # 0
  BY DEF Revert
<1>3. PICK r \in Repo: r = call.at /\ r \in call.applied
  BY <1>1, <1>2, Typed DEF Inv, Positions, Reverting
<1>4. /\ head[r] = "base" /\ local[r] = <<Merged(r)>>
      /\ local' = [local EXCEPT ![r] = Append(@, Reverted(r))]
  BY <1>3, LocalTips DEF Revert
<1>5. PICK q \in Seq(CommitType): /\ q = Append(local[r], Reverted(r)) /\ q = <<Merged(r), Reverted(r)>>
                                  /\ Elements(q) = {Merged(r), Reverted(r)} /\ q # <<>>
  <2>1. local[r] \in Seq(CommitType) /\ Reverted(r) \in CommitType
    BY Commits DEF Inv, Shapes
  <2>2. Append(local[r], Reverted(r)) \in Seq(CommitType)
    BY <2>1, ElementsAppend
  <2>3. Append(<<Merged(r)>>, Reverted(r)) = <<Merged(r), Reverted(r)>>
    BY LocalTips
  <2>4. /\ Elements(<<Merged(r), Reverted(r)>>) = {Merged(r), Reverted(r)}
        /\ <<Merged(r), Reverted(r)>> # <<>>
    BY ElementsFew
  <2> QED BY <1>4, <2>2, <2>3, <2>4
<1>6. /\ local' \in [Repo -> Seq(CommitType)] /\ local'[r] = q
      /\ \A s \in Repo \ {r}: local'[s] = local[s]
  BY <1>4, <1>5 DEF Inv, Shapes
<1>7. /\ OnSpine' = OnSpine /\ UNCHANGED Applied
      /\ \A s: Merged(s)' = Merged(s) /\ Reverted(s)' = Reverted(s)
  BY <1>0 DEF OnSpine, Applied, Events, Merged, Reverted
<1>8. /\ Of(OnSpine, "compensating") # {}
      /\ \A s \in Applied: s > r => s \in Repos(OnSpine, "compensated")
  BY <1>1, <1>3 DEF Inv, Backward, Compensation, Reverting
<1>9. /\ call' \in CallType /\ Control'
      /\ Repos(Staged', "applied") = Repos(Staged, "applied")
  <2>1. CASE mode = "remote"
    <3>1. call' = [call EXCEPT !.pc = "repush"] /\ mode' = "remote"
      BY <1>0, <2>1 DEF Revert
    <3>2. call'.at = call.at
      <4>1. PICK c \in CallType: c = call
        BY DEF Inv, Shapes
      <4>2. [c EXCEPT !.pc = "repush"].at = c.at
        BY DEF CallType
      <4> QED BY <3>1, <4>1, <4>2
    <3>3. Reverted(call.at)' = Reverted(call.at)
      BY <1>0, <3>2 DEF Reverted
    <3>4. Reverted(call.at)' \in Elements(local'[call.at])
      BY <1>3, <1>5, <1>6, <3>3
    <3> QED BY <1>0, <1>2, <3>1, <3>4, RepushParts
  <2>2. CASE mode # "remote"
    <3>1. RecordCompensated(TRUE)
      BY <2>2 DEF Revert
    <3> QED BY <1>0, <1>2, <3>1, CompensatedParts
  <2> QED BY <2>1, <2>2
<1>10. OrderOf(r)
  BY OrderParts DEF Inv
<1>11. OrderOf(r)'
  <2>1. /\ local'[r] \in Local(r)' /\ local'[r] # <<>>
    BY <1>5, <1>6, <1>7 DEF Local
  <2>2. /\ head'[r] = "base" /\ Of(OnSpine', "plan") # {} /\ 1..(r - 1) \subseteq Applied'
        /\ Of(OnSpine', "compensating") # {}
    BY <1>0, <1>4, <1>7, <1>8, <1>10 DEF OrderOf
  <2>3. ASSUME mode' = "remote", Merged(r)' \in Elements(remote'[r])
        PROVE  {Event("bound", r, merges'[r], ""), Event("attempt", r, merges'[r], "")} \subseteq OnSpine'
    <3>1. {Event("bound", r, merges[r], ""), Event("attempt", r, merges[r], "")} \subseteq OnSpine
      BY <1>0, <1>7, <1>10, <2>3 DEF OrderOf
    <3> QED BY <1>0, <1>7, <3>1
  <2>4. Merged(r)' \in Elements(Target(r)')
    <3>1. Merged(r) \in Elements(Target(r))
      BY <1>1, <1>3, <1>10 DEF OrderOf
    <3> QED BY <1>0, <1>5, <1>6, <1>7, <3>1 DEF Target
  <2> QED BY <2>1, <2>2, <2>3, <2>4 DEF OrderOf
<1>12. Order'
  BY <1>0, <1>6, <1>9, <1>11, OrderAt DEF Control
<1>13. ReverseOrder'
  <2>1. \A s \in Applied: r < s => Recorded("compensated", s)
    <3>1. \A s \in Applied: s \in Int /\ r \in Int
      BY <1>1, Typed DEF Inv, Repo
    <3> QED BY <1>8, <3>1, SpineView DEF SpineRead
  <2> QED BY <1>0, <1>6, <2>1, ReverseAt
<1>14. Shapes'
  BY <1>0, <1>6, <1>9 DEF Inv, Shapes
<1> QED BY <1>9, <1>12, <1>13, <1>14 DEF Inv, Backward, Control

\* The revert is pushed, or not.
LEMMA RepushKeeps ==
  ASSUME Inv, Repush
  PROVE  Inv'
<1>0. At("repush") /\ UNCHANGED <<mode, local, head, merges, log, result>>
  BY DEF Repush, Keep
<1>1. /\ call.pc = "repush" /\ call.applied = Applied /\ Applied = Repos(Staged, "applied")
      /\ Staged = OnSpine
  BY <1>0, AtFacts
<1>2. call.at # 0 /\ Of(OnSpine, "compensating") # {} /\ mode = "remote"
  BY <1>1 DEF Inv, Positions, Backward, Compensation
<1>3. PICK r \in Repo: r = call.at /\ r \in call.applied
  BY <1>1, <1>2, Typed DEF Inv, Positions, Reverting
<1>4. PICK ok \in BOOLEAN: RecordCompensated(ok)
  BY DEF Repush
<1>5. /\ call' \in CallType /\ Control'
      /\ Repos(Staged', "applied") = Repos(Staged, "applied")
  BY <1>0, <1>2, <1>4, CompensatedParts
<1>6. CASE UNCHANGED remote
  <2>1. UNCHANGED <<mode, git, log>>
    BY <1>0, <1>6 DEF git
  <2> QED BY <1>0, <1>5, <2>1, CallStep DEF Inv, Shapes, Control
<1>7. CASE remote' = [remote EXCEPT ![r] = Append(@, Reverted(r))]
  <2>1. PICK q \in Seq(CommitType): /\ q = Append(remote[r], Reverted(r))
                                    /\ Elements(q) = Elements(remote[r]) \cup {Reverted(r)}
    <3>1. PICK p \in Seq(CommitType), x \in CommitType: p = remote[r] /\ x = Reverted(r)
      BY Commits DEF Inv, Shapes
    <3>2. Append(p, x) \in Seq(CommitType) /\ Elements(Append(p, x)) = Elements(p) \cup {x}
      BY ElementsAppend
    <3> QED BY <3>1, <3>2
  <2>2. /\ remote' \in [Repo -> Seq(CommitType)] /\ remote'[r] = q
        /\ \A s \in Repo \ {r}: remote'[s] = remote[s]
    BY <1>7, <2>1 DEF Inv, Shapes
  <2>3. /\ OnSpine' = OnSpine /\ UNCHANGED Applied
        /\ \A s: Merged(s)' = Merged(s) /\ Reverted(s)' = Reverted(s)
    BY <1>0 DEF OnSpine, Applied, Events, Merged, Reverted
  <2>4. OrderOf(r) /\ Merged(r) # Reverted(r)
    BY OrderParts, Commits DEF Inv
  <2>5. head[r] = "base" /\ local[r] # <<>> /\ Merged(r) \in Elements(remote[r])
    BY <1>1, <1>2, <1>3, <2>4 DEF OrderOf, Target
  <2>6. OrderOf(r)'
    <3>1. Local(r)' = Local(r)
      BY <2>3 DEF Local
    <3>2. /\ local'[r] \in Local(r)' /\ head'[r] = "base" /\ local'[r] # <<>>
          /\ Of(OnSpine', "plan") # {} /\ 1..(r - 1) \subseteq Applied'
          /\ Of(OnSpine', "compensating") # {}
      BY <1>0, <1>2, <2>3, <2>4, <2>5, <3>1 DEF OrderOf
    <3>3. {Event("bound", r, merges'[r], ""), Event("attempt", r, merges'[r], "")} \subseteq OnSpine'
      <4>1. {Event("bound", r, merges[r], ""), Event("attempt", r, merges[r], "")} \subseteq OnSpine
        BY <1>2, <2>4, <2>5 DEF OrderOf
      <4> QED BY <1>0, <2>3, <4>1
    <3>4. Merged(r)' \in Elements(Target(r)')
      BY <1>0, <1>2, <2>1, <2>2, <2>3, <2>5 DEF Target
    <3> QED BY <3>2, <3>3, <3>4 DEF OrderOf
  <2>7. Order'
    BY <1>0, <1>5, <2>2, <2>6, OrderAt DEF Control
  <2>8. ReverseOrder'
    BY <1>0, ReverseSame DEF Inv, Backward
  <2>9. Shapes'
    BY <1>0, <1>2, <1>5, <2>2 DEF Inv, Shapes
  <2> QED BY <1>5, <2>7, <2>8, <2>9 DEF Inv, Backward, Control
<1> QED BY <1>3, <1>6, <1>7 DEF Repush

\* A commit of others is neither a merge nor a revert.
LEMMA MoveKeeps ==
  ASSUME Inv, NEW r \in Repo, Move(r)
  PROVE  Inv'
<1>0. /\ UNCHANGED <<mode, local, head, merges, log, call, result>> /\ mode = "remote"
      /\ remote' = [remote EXCEPT ![r] = Append(@, [kind |-> "other", n |-> 0])]
  BY DEF Move
<1>1. PICK p \in Seq(CommitType), x \in CommitType:
        p = remote[r] /\ x = [kind |-> "other", n |-> 0] /\ x # Merged(r) /\ x # Reverted(r)
  <2>1. [kind |-> "other", n |-> 0] \in CommitType /\ remote[r] \in Seq(CommitType)
    BY DEF CommitType, Inv, Shapes
  <2>2. [kind |-> "other", n |-> 0] # Merged(r) /\ [kind |-> "other", n |-> 0] # Reverted(r)
    BY DEF Merged, Reverted
  <2> QED BY <2>1, <2>2
<1>2. Append(p, x) \in Seq(CommitType) /\ Elements(Append(p, x)) = Elements(p) \cup {x}
  BY ElementsAppend
<1>3. /\ remote' \in [Repo -> Seq(CommitType)] /\ remote'[r] = Append(p, x)
      /\ \A s \in Repo \ {r}: remote'[s] = remote[s]
  BY <1>0, <1>1, <1>2 DEF Inv, Shapes
<1>4. /\ OnSpine' = OnSpine /\ Staged' = Staged /\ UNCHANGED Applied
      /\ \A s: Merged(s)' = Merged(s) /\ Reverted(s)' = Reverted(s)
  BY <1>0 DEF OnSpine, Staged, Applied, Events, Merged, Reverted
<1>5. ASSUME NEW s \in Repo
      PROVE  /\ Merged(s) \in Elements(remote'[s]) <=> Merged(s) \in Elements(remote[s])
             /\ Reverted(s) \in Elements(remote'[s]) <=> Reverted(s) \in Elements(remote[s])
  BY <1>1, <1>2, <1>3
<1>6. ASSUME NEW s \in Repo
      PROVE  Merged(s) \in Elements(Target(s)') <=> Merged(s) \in Elements(Target(s))
  BY <1>0, <1>5 DEF Target
<1>7. Shapes'
  BY <1>0, <1>3 DEF Inv, Shapes
<1>8. Positions' /\ Records'
  BY <1>0, <1>4 DEF Inv, Positions, Records
<1>9. OrderOf(r)
  BY OrderParts DEF Inv
<1>10. OrderOf(r)'
  <2>1. Local(r)' = Local(r)
    BY <1>4 DEF Local
  <2>2. /\ local'[r] \in Local(r)'
        /\ head'[r] = "candidate" => local'[r] = <<>> /\ Merged(r)' \notin Elements(remote'[r])
        /\ head'[r] = "base" => Of(OnSpine', "plan") # {} /\ 1..(r - 1) \subseteq Applied'
        /\ Reverted(r)' \in Elements(remote'[r]) => Of(OnSpine', "compensating") # {}
    BY <1>0, <1>4, <1>5, <1>9, <2>1 DEF OrderOf
  <2>3. ASSUME mode' = "remote", Merged(r)' \in Elements(remote'[r])
        PROVE  {Event("bound", r, merges'[r], ""), Event("attempt", r, merges'[r], "")} \subseteq OnSpine'
    <3>1. Merged(r) \in Elements(remote[r])
      BY <1>4, <1>5, <2>3
    <3>2. {Event("bound", r, merges[r], ""), Event("attempt", r, merges[r], "")} \subseteq OnSpine
      BY <1>0, <1>9, <3>1 DEF OrderOf
    <3> QED BY <1>0, <1>4, <3>2
  <2>4. ASSUME r \in Repos(Staged', "applied")
        PROVE  /\ head'[r] = "base" /\ local'[r] # <<>> /\ Merged(r)' \in Elements(Target(r)')
               /\ Reverted(r)' \in Elements(local'[r]) => Of(OnSpine', "compensating") # {}
    BY <1>0, <1>4, <1>6, <1>9, <2>4 DEF OrderOf
  <2> QED BY <2>2, <2>3, <2>4 DEF OrderOf
<1>11. Order'
  BY <1>0, <1>3, <1>4, <1>8, <1>10, OrderAt
<1>12. Reached'
  <2>1. call.pc \in Applying => call.at \in Repo
    BY DEF Inv, Positions
  <2>2. /\ Merged(call.at)' = Merged(call.at)
        /\ call.at \in Repo => /\ Merged(call.at) \in Elements(remote'[call.at])
                                    <=> Merged(call.at) \in Elements(remote[call.at])
                               /\ Merged(call.at) \in Elements(Target(call.at)')
                                    <=> Merged(call.at) \in Elements(Target(call.at))
    <3>1. Merged(call.at)' = Merged(call.at)
      BY <1>0 DEF Merged
    <3>2. ASSUME call.at \in Repo
          PROVE  /\ Merged(call.at) \in Elements(remote'[call.at])
                      <=> Merged(call.at) \in Elements(remote[call.at])
                 /\ Merged(call.at) \in Elements(Target(call.at)')
                      <=> Merged(call.at) \in Elements(Target(call.at))
      <4>1. Merged(call.at) \in Elements(remote'[call.at]) <=> Merged(call.at) \in Elements(remote[call.at])
        BY <1>5, <3>2
      <4> QED BY <1>0, <4>1 DEF Target
    <3> QED BY <3>1, <3>2
  <2>3. Reached
    BY DEF Inv
  <2> QED BY <1>0, <1>4, <2>1, <2>2, <2>3 DEF Reached, Applying, Merging
<1>13. Compensation'
  BY <1>0, <1>4 DEF Inv, Backward, Compensation
<1>14. ReverseOrder'
  BY <1>0, ReverseSame DEF Inv, Backward
<1> QED BY <1>7, <1>8, <1>11, <1>12, <1>13, <1>14 DEF Inv, Backward

-----------------------------------------------------------------------------
(* The theorems. *)

LEMMA InitInv ==
  ASSUME Init
  PROVE  Inv
<1>1. PICK c \in CallType: /\ c = NoCall /\ c.pc = "idle" /\ c.queue = <<>> /\ c.applied = {}
  BY NoCallFields
<1>2. call = c /\ Elements(call.queue) = {} /\ OnSpine = {} /\ Staged = {} /\ Applied = {}
  <2>1. call = c /\ Elements(call.queue) = {} /\ OnSpine = {}
    BY <1>1, ElementsFew DEF Init, OnSpine
  <2> QED BY <2>1, SpineView DEF Staged, SpineRead, Repos, Of
<1>3. Shapes
  <2>1. <<>> \in Seq(CommitType) /\ <<>> \in Seq(EventType)
    BY EmptySeq
  <2>2. PICK p \in Seq(CommitType), q \in Seq(EventType): p = <<>> /\ q = <<>>
    BY <2>1
  <2>3. local \in [Repo -> Seq(CommitType)] /\ remote \in [Repo -> Seq(CommitType)] /\ log \in Seq(EventType)
    BY <2>2 DEF Init
  <2>4. head \in [Repo -> {"candidate", "base"}] /\ merges \in [Repo -> Nat]
    BY DEF Init
  <2>5. mode \in {"remote", "local"} /\ result \in Ways \cup {"none", "committed"}
    BY ModeAssumption DEF Init
  <2>6. \A r \in Repo: remote[r] = <<>>
    BY DEF Init
  <2> QED BY <1>1, <1>2, <2>3, <2>4, <2>5, <2>6 DEF Shapes
<1>4. Positions /\ Records /\ Reached /\ Compensation
  BY <1>1, <1>2 DEF Positions, Records, Reached, Compensation, Of, Applying, Merging, Reverting
<1>5. Order
  <2>1. \A r \in Repo: local[r] = <<>> /\ remote[r] = <<>> /\ head[r] = "candidate"
    BY DEF Init
  <2>2. Repos(Staged, "applied") = {}
    BY <1>2 DEF Repos, Of
  <2> QED BY <2>1, <2>2, ElementsFew DEF Order, Local
<1>6. ReverseOrder
  BY <1>2 DEF ReverseOrder
<1> QED BY <1>3, <1>4, <1>5, <1>6 DEF Inv, Backward

LEMMA StutterKeeps ==
  ASSUME Inv, UNCHANGED vars
  PROVE  Inv'
<1>1. UNCHANGED <<mode, git, log, call, result>>
  BY DEF vars
<1>2. /\ UNCHANGED <<OnSpine, Staged, Applied, local, head, remote, merges>>
      /\ \A r: Merged(r)' = Merged(r) /\ Reverted(r)' = Reverted(r) /\ Target(r)' = Target(r)
  BY <1>1, Frozen DEF Staged
<1>3. Positions' /\ Records'
  BY <1>1, <1>2 DEF Inv, Positions, Records
<1>4. Reached'
  BY <1>1, <1>2 DEF Inv, Reached
<1>5. Compensation'
  BY <1>1, <1>2 DEF Inv, Backward, Compensation
<1> QED BY <1>1, <1>2, <1>3, <1>4, <1>5, CallStep DEF Inv, Shapes

LEMMA StepKeeps ==
  ASSUME Inv, [Next]_vars
  PROVE  Inv'
<1>1. ASSUME NEW how \in {"reverted", "uncertain", "rollback-failed"}, MergeFails(how) PROVE Inv'
  BY <1>1, MergeFailsKeeps DEF Failures
<1>2. ASSUME NEW r \in Repo, Move(r) PROVE Inv'
  BY <1>2, MoveKeeps
<1> QED BY <1>1, <1>2, StutterKeeps, ApplyKeeps, LoadKeeps, StageEventKeeps, SealKeeps, ThrowKeeps,
           CrashKeeps, PreflightKeeps, SurveyKeeps, ConfirmKeeps, ObserveKeeps, AgainKeeps,
           CheckoutKeeps, GitMergeKeeps, MergeBreaksKeeps, AppraiseKeeps, PushKeeps, UndoKeeps, VerifyKeeps, CommitKeeps,
           SkipKeeps, RevertKeeps, ReconcileRevertKeeps, RepushKeeps, RevertFailsKeeps, FinishKeeps,
           EndKeeps DEF Next

LEMMA Invariance == Spec => []Inv
<1>1. Init => Inv
  BY InitInv
<1>2. Inv /\ [Next]_vars => Inv'
  BY StepKeeps
<1> QED BY <1>1, <1>2, PTL DEF Spec

\* Whatever crashes, throws or is pushed by others, a merge of this transaction
\* that is on a remote was bound to the plan and prepared on the spine before:
\* GitMergePort pushes only after sealPreparedPublication.
THEOREM PushIsPrepared == Spec => []PreparedFirst
<1>1. Inv => PreparedFirst
  BY DEF Inv, Order, PreparedFirst, OnSpine
<1> QED BY <1>1, Invariance, PTL

\* Over all calls of apply, compensate() reverts a completed merge only when
\* each later one is recorded as compensated.
THEOREM RevertedInReverse == Spec => []ReverseOrder
<1>1. Inv => ReverseOrder
  BY DEF Inv, Backward
<1> QED BY <1>1, Invariance, PTL

-----------------------------------------------------------------------------
(* How a transaction ends. *)

\* A step of a transaction that has not ended.
LEMMA OutcomeActive ==
  ASSUME result' = "none", call'.pc \notin {"commit", "end"},
         \A e \in Staged': e.ev # "terminal",
         Of(Staged', "committed") # {} =>
           /\ call'.pc \in Reverting
           /\ Of(OnSpine', "compensating") = {} => \A r \in Repo: Carries(r)'
           /\ \A e \in Of(Staged', "compensating"): e.how = "uncertain",
         \A e \in Staged': e.ev = "compensated" /\ e.how = "reverted" =>
                             Reverted(e.repo)' \in Elements(Target(e.repo)'),
         \A e \in Staged': e.ev = "compensating" /\ e.how = "reverted" =>
                             \A r \in Repo \ Applied': ~Carries(r)'
  PROVE  Outcome'
<1>1. Of(Staged', "terminal") = {}
  BY DEF Of
<1> QED BY <1>1 DEF Outcome

\* The transaction has not ended while a call is at work, unless the call undoes
\* what it could not seal as committed.
LEMMA OpenFacts ==
  ASSUME Outcome, call.pc \notin {"idle", "load", "commit", "end"}
  PROVE  /\ \A e \in Staged: e.ev # "terminal"
         /\ call.pc \notin Reverting => \A e \in Staged: e.ev \notin {"committed", "terminal"}
<1>1. Of(Staged, "terminal") = {}
  BY DEF Outcome
<1>2. call.pc \notin Reverting => Of(Staged, "committed") = {}
  BY DEF Outcome
<1> QED BY <1>1, <1>2 DEF Of

\* A plain step that leaves the branches alone.
LEMMA OutcomePlain ==
  ASSUME Inv, Outcome, Plain', UNCHANGED <<mode, git, log>>, result' = "none",
         \A e \in Staged: e.ev # "terminal",
         Of(Staged, "committed") # {} => call'.pc \in Reverting
  PROVE  Outcome'
<1>1. /\ OnSpine' = OnSpine /\ Staged' = OnSpine \cup Elements(call'.queue) /\ OnSpine \subseteq Staged
      /\ UNCHANGED Applied
  BY Frozen
<1>2. \A r: Reverted(r)' = Reverted(r) /\ Target(r)' = Target(r) /\ (Carries(r)' <=> Carries(r))
  BY GitSame
<1>3. \A e \in Staged': e \in OnSpine \/ e.ev \in Preparing
  BY <1>1 DEF Plain
<1>4. \A e \in Staged': e.ev # "terminal"
  BY <1>1, <1>3 DEF Preparing
<1>5. ASSUME NEW e \in Staged', e.ev = "compensated", e.how = "reverted"
      PROVE  Reverted(e.repo)' \in Elements(Target(e.repo)')
  <2>1. e \in Staged
    BY <1>1, <1>3, <1>5 DEF Preparing
  <2> QED BY <1>2, <1>5, <2>1 DEF Outcome
<1>6. ASSUME NEW e \in Staged', e.ev = "compensating", e.how = "reverted"
      PROVE  \A r \in Repo \ Applied': ~Carries(r)'
  <2>1. e \in Staged
    BY <1>1, <1>3, <1>6 DEF Preparing
  <2> QED BY <1>1, <1>2, <1>6, <2>1 DEF Outcome
<1>7. Of(Staged', "committed") # {} =>
        /\ call'.pc \in Reverting
        /\ Of(OnSpine', "compensating") = {} => \A r \in Repo: Carries(r)'
        /\ \A e \in Of(Staged', "compensating"): e.how = "uncertain"
  <2>1. /\ Of(Staged', "committed") \subseteq Of(Staged, "committed")
        /\ Of(Staged', "compensating") \subseteq Of(Staged, "compensating")
    BY <1>1, <1>3 DEF Preparing, Of
  <2> QED BY <1>1, <1>2, <2>1 DEF Outcome
<1> QED BY <1>4, <1>5, <1>6, <1>7, OutcomeActive DEF Plain

\* A plain step that changes the branches of a repository not yet applied.
LEMMA OutcomeMerging ==
  ASSUME Inv, Outcome, Plain', call.pc \in Applying, UNCHANGED log,
         result' \in {"none", "uncertain"}, NEW r, r \notin Applied,
         \A s \in Repo \ {r}: Reverted(s)' = Reverted(s) /\ Target(s)' = Target(s)
  PROVE  Outcome'
<1>0. call.pc \notin {"idle", "load", "commit", "end"} \cup Reverting
  BY DEF Applying, Merging, Reverting
<1>1. OnSpine' = OnSpine /\ Staged' = OnSpine \cup Elements(call'.queue) /\ OnSpine \subseteq Staged
  BY DEF OnSpine, Staged
<1>2. \A e \in Staged: e.ev \notin {"committed", "terminal", "compensating"}
  <2>1. \A e \in Staged: e.ev \notin {"committed", "terminal"}
    BY <1>0, OpenFacts
  <2>2. Of(Staged, "compensating") = {}
    BY <1>0 DEF Inv, Backward, Compensation
  <2> QED BY <2>1, <2>2 DEF Of
<1>3. \A e \in Staged': e \in OnSpine \/ e.ev \in Preparing
  BY <1>1 DEF Plain
<1>4. \A e \in Staged': e.ev \notin {"committed", "terminal", "compensating"}
  BY <1>1, <1>2, <1>3 DEF Preparing
<1>5. ASSUME NEW e \in Staged', e.ev = "compensated", e.how = "reverted"
      PROVE  Reverted(e.repo)' \in Elements(Target(e.repo)')
  <2>1. e \in Staged
    BY <1>1, <1>3, <1>5 DEF Preparing
  <2>2. e.repo \in Repo /\ e.repo \in Applied
    BY <1>5, <2>1 DEF Inv, Records
  <2>3. Reverted(e.repo) \in Elements(Target(e.repo))
    BY <1>5, <2>1 DEF Outcome
  <2> QED BY <2>2, <2>3
<1>6. Of(Staged', "committed") = {} /\ Of(Staged', "terminal") = {}
  BY <1>4 DEF Of
<1> QED BY <1>4, <1>5, <1>6 DEF Outcome, Plain

\* The call is gone; what it has answered is on record.
LEMMA OutcomeReset ==
  ASSUME Inv, Outcome, call'.pc \in {"idle", "load"}, call'.queue = <<>>,
         UNCHANGED <<mode, git, log>>,
         result' = "committed" => Of(OnSpine, "committed") # {},
         result' = "reverted" => \A r \in Repo: ~Carries(r),
         result' = "refused" /\ mode = "remote" => \A r \in Repo: ~Carries(r)
  PROVE  Outcome'
<1>2. OnSpine' = OnSpine /\ Staged' = OnSpine /\ OnSpine \subseteq Staged /\ UNCHANGED Applied
  BY ElementsFew, Frozen
<1>3. \A r: Reverted(r)' = Reverted(r) /\ Target(r)' = Target(r) /\ (Carries(r)' <=> Carries(r))
  BY GitSame
<1>4. Of(Staged', "committed") # {} =>
        /\ Of(OnSpine', "compensating") = {} => \A r \in Repo: Carries(r)'
        /\ \A e \in Of(Staged', "compensating"): e.how = "uncertain"
  BY <1>2, <1>3 DEF Outcome, Of
<1>5. ASSUME NEW e \in Staged'
      PROVE  /\ e.ev = "compensated" /\ e.how = "reverted" =>
                  Reverted(e.repo)' \in Elements(Target(e.repo)')
             /\ e.ev = "compensating" /\ e.how = "reverted" => \A r \in Repo \ Applied': ~Carries(r)'
             /\ e.ev = "terminal" /\ e.how = "reverted" => \A r \in Repo: ~Carries(r)'
             /\ e.ev = "terminal" /\ e.how = "refused" /\ mode' = "remote" => \A r \in Repo: ~Carries(r)'
  <2>1. e \in Staged
    BY <1>2
  <2> QED BY <1>2, <1>3, <2>1 DEF Outcome
<1>6. /\ result' = "committed" => Of(OnSpine', "committed") # {}
      /\ result' = "reverted" => \A r \in Repo: ~Carries(r)'
      /\ result' = "refused" /\ mode' = "remote" => \A r \in Repo: ~Carries(r)'
  BY <1>2, <1>3
<1> QED BY <1>4, <1>5, <1>6 DEF Outcome

\* The spine takes an event, or is sealed.
LEMMA OutcomeStage ==
  ASSUME Inv, Outcome, UNCHANGED <<mode, git, result>>, Waits
  PROVE  Outcome'
<1>1. \A r: Reverted(r)' = Reverted(r) /\ Target(r)' = Target(r) /\ (Carries(r)' <=> Carries(r))
  BY GitSame
<1>2. Applied \subseteq Applied'
  BY SpineView, SpineViewNext DEF SpineRead, Repos, Of, Waits
<1>3. ASSUME NEW e \in Staged'
      PROVE  /\ e.ev = "compensated" /\ e.how = "reverted" =>
                  Reverted(e.repo)' \in Elements(Target(e.repo)')
             /\ e.ev = "compensating" /\ e.how = "reverted" => \A r \in Repo \ Applied': ~Carries(r)'
             /\ e.ev = "terminal" /\ e.how = "reverted" => \A r \in Repo: ~Carries(r)'
             /\ e.ev = "terminal" /\ e.how = "refused" /\ mode' = "remote" => \A r \in Repo: ~Carries(r)'
  BY <1>1, <1>2 DEF Outcome, Waits
<1>4. /\ result' = "committed" => Of(OnSpine', "committed") # {}
      /\ result' = "reverted" => \A r \in Repo: ~Carries(r)'
      /\ result' = "refused" /\ mode' = "remote" => \A r \in Repo: ~Carries(r)'
  BY <1>1 DEF Outcome, Of, Waits
<1>5. Of(Staged', "committed") # {} /\ Of(OnSpine', "compensating") = {} => \A r \in Repo: Carries(r)'
  <2>1. Of(OnSpine, "compensating") \subseteq Of(OnSpine', "compensating")
    BY DEF Of, Waits
  <2> QED BY <1>1, <2>1 DEF Outcome, Waits
<1> QED BY <1>3, <1>4, <1>5 DEF Outcome, Waits

\* A repository that is on its candidate has nothing published.
LEMMA CandidateClean ==
  ASSUME Inv, NEW r \in Repo, head[r] = "candidate"
  PROVE  ~Carries(r)
<1>1. local[r] = <<>> /\ Merged(r) \notin Elements(remote[r])
  BY DEF Inv, Order
<1>2. Merged(r) \notin Elements(local[r])
  BY <1>1, ElementsFew
<1> QED BY <1>1, <1>2 DEF Carries, Target

\* Nothing is published of the repositories after the one at hand.
LEMMA Beyond ==
  ASSUME Inv, call.pc \in Applying, call.applied = Applied, call.at \notin call.applied,
         NEW r \in Repo, r \notin Applied, r # call.at
  PROVE  head[r] = "candidate"
<1>1. call.at \in Repo /\ 1..(call.at - 1) \subseteq Applied
  BY DEF Inv, Positions, Reached
<1>2. call.at \in 1..(r - 1)
  <2>1. ~(r \in 1..(call.at - 1))
    BY <1>1
  <2> QED BY <1>1, <2>1 DEF Repo
<1>3. ~(1..(r - 1) \subseteq Applied)
  BY <1>2
<1> QED BY <1>3 DEF Inv, Order, Shapes

LEMMA OutcomeCompensating ==
  ASSUME Inv, Outcome, NEW how \in Failures, call' = Compensating(how),
         call.pc \in {"verify"} \cup Applying, call.applied = Applied, UNCHANGED <<log, result>>,
         how = "reverted" => \A r \in Repo \ Applied: ~Carries(r)',
         \A s \in Applied: Reverted(s)' = Reverted(s) /\ Target(s)' = Target(s)
  PROVE  Outcome'
<1>0. /\ call.pc \notin {"idle", "load", "commit", "end"} \cup Reverting /\ how \in Ways
  BY DEF Applying, Merging, Reverting, Failures, Ways
<1>1. PICK x \in EventType: x = Event("compensating", 0, 0, how) /\ x.ev = "compensating" /\ x.how = how
  BY <1>0, EventFields DEF Kinds
<1>2. call'.pc = "revert" /\ call'.queue = <<x>>
  BY <1>0, <1>1, CompensatingFields
<1>3. /\ OnSpine' = OnSpine /\ Staged' = OnSpine \cup {x} /\ UNCHANGED Applied /\ OnSpine \subseteq Staged
  BY <1>2, ElementsFew DEF OnSpine, Staged, Applied, Events
<1>4. \A e \in Staged: e.ev \notin {"committed", "terminal", "compensating"}
  <2>1. \A e \in Staged: e.ev \notin {"committed", "terminal"}
    BY <1>0, OpenFacts
  <2>2. Of(Staged, "compensating") = {}
    BY <1>0 DEF Inv, Backward, Compensation
  <2> QED BY <2>1, <2>2 DEF Of
<1>5. ASSUME NEW e \in Staged', e.ev = "compensated", e.how = "reverted"
      PROVE  Reverted(e.repo)' \in Elements(Target(e.repo)')
  <2>1. e \in Staged
    BY <1>1, <1>3, <1>5
  <2>2. e.repo \in Applied
    BY <1>5, <2>1 DEF Inv, Records
  <2> QED BY <1>5, <2>1, <2>2 DEF Outcome
<1>6. ASSUME NEW e \in Staged', e.ev = "compensating", e.how = "reverted"
      PROVE  \A r \in Repo \ Applied': ~Carries(r)'
  BY <1>1, <1>3, <1>4, <1>6
<1>7. (\A e \in Staged': e.ev # "terminal") /\ Of(Staged', "committed") = {}
  BY <1>1, <1>3, <1>4 DEF Of
<1>8. result' = "none"
  BY <1>0 DEF Inv, Positions
<1> QED BY <1>2, <1>5, <1>6, <1>7, <1>8, OutcomeActive

\* The commit receipt is staged, the seal throws, and the call compensates: the
\* branches still carry the change until the compensation is on record.
LEMMA OutcomeOvertaken ==
  ASSUME Inv, Outcome, call.pc = "commit", call' = Compensating("uncertain"),
         UNCHANGED <<mode, git, log, result>>
  PROVE  Outcome'
<1>1. PICK how \in Ways: how = "uncertain"
  BY DEF Ways
<1>2. PICK x \in EventType: x = Event("compensating", 0, 0, how) /\ x.ev = "compensating" /\ x.how = how
  BY EventFields DEF Kinds
<1>3. call'.pc = "revert" /\ call'.queue = <<x>>
  BY <1>1, <1>2, CompensatingFields
<1>4. OnSpine' = OnSpine /\ Staged' = OnSpine \cup {x} /\ UNCHANGED Applied /\ OnSpine \subseteq Staged
  BY <1>3, ElementsFew, Frozen
<1>5. \A r: Reverted(r)' = Reverted(r) /\ Target(r)' = Target(r) /\ (Carries(r)' <=> Carries(r))
  BY GitSame
<1>6. Of(Staged, "terminal") = {} /\ Of(OnSpine, "compensating") = {}
  <2>1. Of(Staged, "compensating") = {}
    BY DEF Inv, Backward, Compensation, Reverting
  <2> QED BY <1>4, <2>1 DEF Outcome, Of
<1>7. /\ Of(Staged', "committed") # {} => \A r \in Repo: Carries(r)'
      /\ \A e \in Of(Staged', "compensating"): e.how = "uncertain"
  <2>1. Of(Staged', "committed") \subseteq Of(Staged, "committed")
    BY <1>2, <1>4 DEF Of
  <2>2. \A e \in Of(Staged', "compensating"): e = x
    BY <1>4, <1>6 DEF Of
  <2> QED BY <1>1, <1>2, <1>5, <1>6, <2>1, <2>2 DEF Outcome
<1>8. \A e \in Staged': e.ev # "terminal"
  BY <1>2, <1>4, <1>6 DEF Of
<1>9. ASSUME NEW e \in Staged', e.ev = "compensated", e.how = "reverted"
      PROVE  Reverted(e.repo)' \in Elements(Target(e.repo)')
  <2>1. e \in Staged
    BY <1>2, <1>4, <1>9
  <2> QED BY <1>5, <1>9, <2>1 DEF Outcome
<1>10. \A e \in Staged': ~(e.ev = "compensating" /\ e.how = "reverted")
  BY <1>1, <1>2, <1>4, <1>6 DEF Of
<1>11. result' = "none"
  BY DEF Inv, Positions
<1> QED BY <1>3, <1>7, <1>8, <1>9, <1>10, <1>11, OutcomeActive DEF Reverting

\* A revert is made, found, pushed or given up.
LEMMA OutcomeReverting ==
  ASSUME Inv, Outcome, call.pc \in Reverting, UNCHANGED <<merges, log, result>>,
         NEW r \in Applied, call'.pc \in Reverting, Staged = OnSpine,
         \A s \in Repo \ {r}: Target(s)' = Target(s),
         Reverted(r) \in Elements(Target(r)) => Reverted(r) \in Elements(Target(r)'),
         \A e \in Elements(call'.queue):
            \/ e.ev \in Preparing
            \/ /\ e.ev = "compensated"
               /\ e.how = "reverted" => e.repo = r /\ Reverted(r) \in Elements(Target(r)')
  PROVE  Outcome'
<1>0. call.pc \notin {"idle", "load", "commit", "end"}
  BY DEF Reverting
<1>1. /\ OnSpine' = OnSpine /\ Staged' = OnSpine \cup Elements(call'.queue) /\ UNCHANGED Applied
      /\ OnSpine \subseteq Staged
  BY DEF OnSpine, Staged, Applied, Events
<1>2. \A s: Merged(s)' = Merged(s) /\ Reverted(s)' = Reverted(s)
  BY DEF Merged, Reverted
<1>3. (\A e \in Staged: e.ev # "terminal") /\ Of(OnSpine, "compensating") # {}
  BY <1>0, OpenFacts DEF Inv, Backward, Compensation
<1>4. (\A e \in Staged': e.ev # "terminal") /\ Of(OnSpine', "compensating") # {}
  BY <1>1, <1>3 DEF Preparing
<1>5. ASSUME NEW e \in Staged', e.ev = "compensated", e.how = "reverted"
      PROVE  Reverted(e.repo)' \in Elements(Target(e.repo)')
  <2>1. CASE e \in OnSpine
    <3>1. e \in Staged
      BY <1>1, <2>1
    <3>2. e.repo \in Repo /\ Reverted(e.repo) \in Elements(Target(e.repo))
      BY <1>5, <3>1 DEF Inv, Records, Outcome
    <3>3. CASE e.repo = r
      BY <1>2, <3>2, <3>3
    <3>4. CASE e.repo # r
      BY <1>2, <3>2, <3>4
    <3> QED BY <3>3, <3>4
  <2>2. CASE e \in Elements(call'.queue)
    BY <1>2, <1>5, <2>2 DEF Preparing
  <2> QED BY <1>1, <2>1, <2>2
<1>6. ASSUME NEW e \in Staged', e.ev = "compensating", e.how = "reverted", NEW s \in Repo \ Applied'
      PROVE  ~Carries(s)'
  <2>1. e \in Staged
    BY <1>1, <1>6 DEF Preparing
  <2>2. ~Carries(s) /\ Target(s)' = Target(s)
    BY <1>1, <1>6, <2>1 DEF Outcome
  <2> QED BY <1>2, <2>2 DEF Carries
<1>7. result' = "none"
  BY <1>0 DEF Inv, Positions
<1>8. Of(Staged', "committed") # {} => \A e \in Of(Staged', "compensating"): e.how = "uncertain"
  <2>1. /\ Of(Staged', "committed") \subseteq Of(Staged, "committed")
        /\ Of(Staged', "compensating") \subseteq Of(Staged, "compensating")
    BY <1>1 DEF Preparing, Of
  <2> QED BY <2>1 DEF Outcome
<1> QED BY <1>4, <1>5, <1>6, <1>7, <1>8, OutcomeActive DEF Reverting

LEMMA OutcomeCompensated ==
  ASSUME Inv, Outcome, call.pc \in Reverting, call.at # 0, Staged = OnSpine, UNCHANGED <<merges, log, result>>,
         NEW ok \in BOOLEAN, RecordCompensated(ok), NEW r, r = call.at,
         \A s \in Repo \ {r}: Target(s)' = Target(s),
         Reverted(r) \in Elements(Target(r)) => Reverted(r) \in Elements(Target(r)'),
         ok => Reverted(r) \in Elements(Target(r)')
  PROVE  Outcome'
<1>1. r \in call.applied /\ call'.pc = "revert"
  BY CompensatedFields
<1>2. PICK x \in EventType: /\ x.ev = "compensated" /\ x.repo = r
                            /\ x.how = (IF ok THEN "reverted" ELSE "failed")
                            /\ \A e \in Elements(call'.queue): e = x \/ e.ev = "closed"
  BY CompensatedFields
<1>3. r \in Applied
  BY <1>1 DEF Inv, Records
<1>4. \A e \in Elements(call'.queue):
         \/ e.ev \in Preparing
         \/ /\ e.ev = "compensated"
            /\ e.how = "reverted" => e.repo = r /\ Reverted(r) \in Elements(Target(r)')
  BY <1>2 DEF Preparing
<1> QED BY <1>1, <1>3, <1>4, OutcomeReverting DEF Reverting

LEMMA OutcomeEnd ==
  ASSUME Inv, Outcome, call.pc \notin {"idle", "load", "commit", "end"}, NEW h \in Ways,
         call' = Stage([call EXCEPT !.pc = "end", !.status = h], <<Event("terminal", 0, 0, h)>>),
         UNCHANGED <<mode, git, log, result>>,
         h = "reverted" => \A r \in Repo: ~Carries(r),
         h = "refused" /\ mode = "remote" => \A r \in Repo: ~Carries(r)
  PROVE  Outcome'
<1>1. call'.pc = "end" /\ call'.status = h
  BY EndFields DEF Inv
<1>2. PICK x \in EventType: x.ev = "terminal" /\ x.how = h /\ Elements(call'.queue) = {x}
  BY EndFields DEF Inv, Is
<1>3. OnSpine' = OnSpine /\ Staged' = OnSpine \cup {x} /\ OnSpine \subseteq Staged /\ UNCHANGED Applied
  BY <1>2, Frozen
<1>4. \A r: Reverted(r)' = Reverted(r) /\ Target(r)' = Target(r) /\ (Carries(r)' <=> Carries(r))
  BY GitSame
<1>5. \A e \in Staged: e.ev # "terminal"
  BY OpenFacts
<1>6. /\ x \in Of(Staged', "terminal")
      /\ Of(Staged', "committed") # {} =>
           /\ Of(OnSpine', "compensating") = {} => \A r \in Repo: Carries(r)'
           /\ \A e \in Of(Staged', "compensating"): e.how = "uncertain"
           /\ call'.pc \in {"idle", "load", "commit", "end"}
  <2>1. /\ Of(Staged', "committed") \subseteq Of(Staged, "committed")
        /\ Of(Staged', "compensating") \subseteq Of(Staged, "compensating")
    BY <1>2, <1>3 DEF Of
  <2>2. x \in Of(Staged', "terminal")
    BY <1>2, <1>3 DEF Of
  <2> QED BY <1>1, <1>3, <1>4, <2>1, <2>2 DEF Outcome
<1>7. ASSUME NEW e \in Staged'
      PROVE  /\ e.ev = "compensated" /\ e.how = "reverted" =>
                  Reverted(e.repo)' \in Elements(Target(e.repo)')
             /\ e.ev = "compensating" /\ e.how = "reverted" => \A r \in Repo \ Applied': ~Carries(r)'
             /\ e.ev = "terminal" /\ e.how = "reverted" => \A r \in Repo: ~Carries(r)'
             /\ e.ev = "terminal" /\ e.how = "refused" /\ mode' = "remote" => \A r \in Repo: ~Carries(r)'
  <2>1. CASE e = x
    BY <1>2, <1>4, <2>1
  <2>2. CASE e \in Staged
    BY <1>3, <1>4, <1>5, <2>2 DEF Outcome
  <2> QED BY <1>3, <2>1, <2>2
<1>8. result' = "none"
  BY DEF Inv, Positions
<1> QED BY <1>1, <1>2, <1>6, <1>7, <1>8 DEF Outcome

\* The change is on every target, and nothing is being undone.
LEMMA AllCarry ==
  ASSUME Inv, At("verify")
  PROVE  \A r \in Repo: Carries(r)
<1>1. /\ call.pc = "verify" /\ Staged = OnSpine /\ call.applied = Applied
      /\ Applied = Repos(Staged, "applied")
  BY AtFacts
<1>2. call.applied = Repo /\ Of(OnSpine, "compensating") = {}
  BY <1>1 DEF Inv, Reached, Backward, Compensation, Reverting
<1>3. \A r \in Repo: /\ Merged(r) \in Elements(Target(r))
                     /\ Reverted(r) \notin Elements(local[r]) /\ Reverted(r) \notin Elements(remote[r])
  <2>1. \A r \in Repo: OrderOf(r) /\ r \in Repos(Staged, "applied")
    BY <1>1, <1>2, OrderParts DEF Inv
  <2> QED BY <1>2, <2>1 DEF OrderOf
<1> QED BY <1>3 DEF Carries, Target

LEMMA OutcomeCommit ==
  ASSUME Inv, Outcome, At("verify"), UNCHANGED <<mode, git, log, result>>,
         call' = Stage([call EXCEPT !.pc = "commit"], Receipts)
  PROVE  Outcome'
<1>0. call.pc = "verify" /\ result = "none"
  BY AtFacts
<1>1. PICK l \in Stations, q \in Seq(EventType), c \in CallType:
        /\ l = "commit" /\ q = Receipts /\ c = call
        /\ \A e \in Elements(q): e.ev \in {"closed", "committed"}
        /\ \E e \in Elements(q): e.ev = "committed"
  BY ReceiptsFacts DEF Stations, Inv, Shapes
<1>2. PICK d \in CallType: /\ d = [c EXCEPT !.pc = l] /\ d.pc = l /\ d.applied = c.applied
  <2>1. LET d == [c EXCEPT !.pc = l] IN
         /\ d \in CallType /\ d.pc = l /\ d.at = c.at /\ d.sealing = c.sealing /\ d.queue = c.queue
         /\ d.applied = c.applied /\ d.pending = c.pending /\ d.status = c.status
    BY PcFields
  <2> QED BY <2>1
<1>3. LET f == Stage(d, q) IN
      /\ f \in CallType /\ f.pc = d.pc /\ f.at = d.at /\ f.sealing = TRUE /\ f.queue = q
      /\ f.applied = d.applied /\ f.pending = d.pending /\ f.status = d.status
  BY StageFields
<1>4. call' = Stage(d, q)
  BY <1>1, <1>2
<1>5. call'.pc = "commit" /\ call'.queue = q /\ call'.applied = Repo
  <2>1. call.applied = Repo
    BY <1>0 DEF Inv, Reached
  <2> QED BY <1>1, <1>2, <1>3, <1>4, <2>1
<1>6. OnSpine' = OnSpine /\ Staged' = OnSpine \cup Elements(q) /\ OnSpine \subseteq Staged /\ UNCHANGED Applied
  BY <1>5, Frozen
<1>7. \A r: Reverted(r)' = Reverted(r) /\ Target(r)' = Target(r) /\ (Carries(r)' <=> Carries(r))
  BY GitSame
<1>8. \A e \in Staged: e.ev \notin {"committed", "terminal"}
  BY <1>0, OpenFacts DEF Reverting
<1>9. Of(Staged', "committed") # {} /\ \A r \in Repo: Carries(r)'
  BY <1>1, <1>6, <1>7, AllCarry DEF Of
<1>10. ASSUME NEW e \in Staged'
       PROVE  /\ e.ev = "compensated" /\ e.how = "reverted" =>
                   Reverted(e.repo)' \in Elements(Target(e.repo)')
              /\ e.ev = "compensating" /\ e.how = "reverted" => \A r \in Repo \ Applied': ~Carries(r)'
              /\ e.ev # "terminal"
  <2>1. CASE e \in Elements(q)
    BY <1>1, <2>1
  <2>2. CASE e \in Staged
    BY <1>6, <1>7, <1>8, <2>2 DEF Outcome
  <2> QED BY <1>6, <2>1, <2>2
<1>11. Of(Staged', "terminal") = {} /\ Of(Staged', "compensating") = {}
  <2>1. Of(Staged, "compensating") = {}
    BY <1>0 DEF Inv, Backward, Compensation, Reverting
  <2> QED BY <1>1, <1>6, <1>10, <2>1 DEF Of
<1> QED BY <1>0, <1>5, <1>9, <1>10, <1>11 DEF Outcome

LEMMA OutcomeMove ==
  ASSUME Inv, Outcome, NEW r \in Repo, Move(r)
  PROVE  Outcome'
<1>0. /\ UNCHANGED <<mode, local, head, merges, log, call, result>> /\ mode = "remote"
      /\ remote' = [remote EXCEPT ![r] = Append(@, [kind |-> "other", n |-> 0])]
  BY DEF Move
<1>1. PICK p \in Seq(CommitType), x \in CommitType:
        p = remote[r] /\ x = [kind |-> "other", n |-> 0] /\ x # Merged(r) /\ x # Reverted(r)
  <2>1. [kind |-> "other", n |-> 0] \in CommitType /\ remote[r] \in Seq(CommitType)
    BY DEF CommitType, Inv, Shapes
  <2>2. [kind |-> "other", n |-> 0] # Merged(r) /\ [kind |-> "other", n |-> 0] # Reverted(r)
    BY DEF Merged, Reverted
  <2> QED BY <2>1, <2>2
<1>2. Append(p, x) \in Seq(CommitType) /\ Elements(Append(p, x)) = Elements(p) \cup {x}
  BY ElementsAppend
<1>3. remote'[r] = Append(p, x) /\ \A s \in Repo \ {r}: remote'[s] = remote[s]
  BY <1>0, <1>1, <1>2 DEF Inv, Shapes
<1>4. /\ OnSpine' = OnSpine /\ Staged' = Staged /\ UNCHANGED Applied
      /\ \A s: Merged(s)' = Merged(s) /\ Reverted(s)' = Reverted(s)
  BY <1>0 DEF OnSpine, Staged, Applied, Events, Merged, Reverted
<1>5. ASSUME NEW s \in Repo
      PROVE  /\ Merged(s) \in Elements(Target(s)') <=> Merged(s) \in Elements(Target(s))
             /\ Reverted(s) \in Elements(Target(s)') <=> Reverted(s) \in Elements(Target(s))
  BY <1>0, <1>1, <1>2, <1>3 DEF Target
<1>6. \A s \in Repo: Carries(s)' <=> Carries(s)
  BY <1>4, <1>5 DEF Carries
<1>7. \A e \in Staged: e.ev = "compensated" => e.repo \in Repo
  BY DEF Inv, Records
<1>8. ASSUME NEW e \in Staged, e.ev = "compensated", e.how = "reverted"
      PROVE  Reverted(e.repo)' \in Elements(Target(e.repo)')
  BY <1>4, <1>5, <1>7, <1>8 DEF Outcome
<1> QED BY <1>0, <1>4, <1>6, <1>8 DEF Outcome

\* The call goes on.
LEMMA OutcomeWorking ==
  ASSUME Inv, Outcome, Plain', UNCHANGED <<mode, git, log, result>>,
         call.pc \notin {"idle", "load", "commit", "end"},
         call.pc \in Reverting => call'.pc \in Reverting
  PROVE  Outcome'
<1>1. result' = "none"
  BY DEF Inv, Positions
<1>2. \A e \in Staged: e.ev # "terminal"
  BY OpenFacts
<1>3. Of(Staged, "committed") # {} => call'.pc \in Reverting
  BY DEF Outcome
<1> QED BY <1>1, <1>2, <1>3, OutcomePlain

\* What the call answers from the spine.
LEMMA OutcomeLoad ==
  ASSUME Inv, Outcome, Load
  PROVE  Outcome'
<1>0. At("load")
  BY DEF Load
<1>1. call.pc = "load" /\ Staged = OnSpine
  BY <1>0, AtFacts
<1>2. ASSUME NEW how, Return(how), how \in {"uncertain"}
      PROVE  Outcome'
  BY <1>2, NoCallFields, OutcomeReset DEF Return
<1>3. CASE Return("committed") /\ Events("committed") # {}
  <2>1. Of(OnSpine, "committed") # {}
    BY <1>3, SpineView DEF SpineRead
  <2> QED BY <1>3, <2>1, NoCallFields, OutcomeReset DEF Return
<1>4. CASE Events("terminal") # {} /\ Return(Sole("terminal").how)
  <2>1. PICK e \in Staged: e = Sole("terminal") /\ e.ev = "terminal" /\ e.how \in Ways
    BY <1>1, <1>4, SpineView, SpineEvents DEF SpineRead, Inv, Of
  <2>2. result' = e.how /\ e.how # "committed" /\ call' = NoCall /\ UNCHANGED <<mode, git, log>>
    BY <1>4, <2>1 DEF Return, Ways
  <2>3. /\ e.how = "reverted" => \A r \in Repo: ~Carries(r)
        /\ e.how = "refused" /\ mode = "remote" => \A r \in Repo: ~Carries(r)
    BY <2>1 DEF Outcome
  <2> QED BY <2>2, <2>3, NoCallFields, OutcomeReset
<1>5. CASE Events("committed") = {} /\ Events("terminal") = {} /\ UNCHANGED <<git, log>> /\ Keep
  <2>1. \A e \in Staged: e.ev \notin {"committed", "terminal"}
    BY <1>1, <1>5, SpineView DEF SpineRead, Of
  <2>2. Plain'
    BY LoadKeeps
  <2>3. UNCHANGED <<mode, git, log, result>> /\ result = "none"
    BY <1>1, <1>5 DEF Keep, Inv, Positions
  <2>4. Of(Staged, "committed") = {}
    BY <2>1 DEF Of
  <2> QED BY <2>1, <2>2, <2>3, <2>4, OutcomePlain
<1> QED BY <1>2, <1>3, <1>4, <1>5 DEF Load

\* An effect-free refusal before the plan is on record.
LEMMA OutcomePreflight ==
  ASSUME Inv, Outcome, Preflight
  PROVE  Outcome'
<1>0. At("preflight")
  BY DEF Preflight
<1>1. call.pc = "preflight" /\ Staged = OnSpine /\ result = "none"
  BY <1>0, AtFacts
<1>2. CASE Return("refused")
  <2>1. Of(OnSpine, "plan") = {}
    BY <1>1 DEF Inv, Records
  <2>2. \A r \in Repo: head[r] = "candidate"
    BY <2>1 DEF Inv, Order, Shapes
  <2>3. \A r \in Repo: ~Carries(r)
    BY <2>2, CandidateClean
  <2> QED BY <1>2, <2>3, NoCallFields, OutcomeReset DEF Return
<1>3. CASE ~Return("refused")
  <2>1. UNCHANGED <<mode, git, log, result>>
    BY <1>3 DEF Preflight, Keep
  <2>2. Plain'
    BY PreflightKeeps
  <2> QED BY <1>1, <2>1, <2>2, OutcomeWorking DEF Reverting
<1> QED BY <1>2, <1>3

\* The refusal of a plan that no attempt is bound to.
LEMMA OutcomeSurvey ==
  ASSUME Inv, Outcome, Survey
  PROVE  Outcome'
<1>0. At("survey")
  BY DEF Survey
<1>1. call.pc = "survey" /\ Staged = OnSpine /\ result = "none"
  BY <1>0, AtFacts
<1>2. CASE Return("uncertain")
  BY <1>2, NoCallFields, OutcomeReset DEF Return
<1>3. CASE ~Return("uncertain")
  <2>1. UNCHANGED <<mode, git, log, result>>
    BY <1>3 DEF Survey, Keep
  <2>2. CASE Plain'
    BY <1>1, <2>1, <2>2, OutcomeWorking DEF Reverting
  <2>3. CASE ~Plain'
    <3>1. call' = Stage([call EXCEPT !.pc = "end", !.status = "refused"],
                        <<Event("terminal", 0, 0, "refused")>>)
      BY <2>3, SurveyKeeps
    <3>2. Events("bound") = {}
      BY <2>3, SurveyKeeps
    <3>3. \A r \in Repo: mode = "remote" => ~Carries(r)
      <4>1. ASSUME NEW r \in Repo, mode = "remote", Merged(r) \in Elements(remote[r]) PROVE FALSE
        <5>1. Event("bound", r, merges[r], "") \in OnSpine
          BY <4>1 DEF Inv, Order
        <5>2. Event("bound", r, merges[r], "").ev = "bound"
          BY DEF Event
        <5>3. Of(OnSpine, "bound") = {}
          BY <3>2, SpineView DEF SpineRead
        <5> QED BY <5>1, <5>2, <5>3 DEF Of
      <4> QED BY <4>1 DEF Carries, Target
    <3>4. PICK h \in Ways: h = "refused"
      BY DEF Ways
    <3> QED BY <1>1, <2>1, <3>1, <3>3, <3>4, OutcomeEnd
  <2> QED BY <2>2, <2>3
<1> QED BY <1>2, <1>3

LEMMA OutcomeFinish ==
  ASSUME Inv, Outcome, Finish
  PROVE  Outcome'
<1>0. At("revert") /\ UNCHANGED <<mode, git, log, result>> /\ call.at = 0
  BY DEF Finish, Keep
<1>1. call.pc = "revert" /\ Staged = OnSpine /\ call.applied = Applied
  BY <1>0, AtFacts
<1> DEFINE failed == \E e \in Elements(log): e.ev = "compensated" /\ e.how = "failed"
<1>2. PICK h \in Ways:
        /\ h = IF failed THEN "rollback-failed" ELSE call.status
        /\ call' = Stage([call EXCEPT !.pc = "end", !.status = h], <<Event("terminal", 0, 0, h)>>)
  <2>1. "rollback-failed" \in Ways /\ call.status \in Ways
    BY Typed DEF Ways, Inv
  <2> QED BY <2>1, Zenon DEF Finish
<1>3. PICK e \in Staged: e.ev = "compensating" /\ e.how = call.status /\ e.how # "refused"
  <2>1. PICK e \in Of(Staged, "compensating"): e.how = call.status
    BY <1>1 DEF Inv, Backward, Compensation, Reverting
  <2> QED BY <2>1 DEF Of, Inv, Records
<1>4. h # "refused"
  BY <1>2, <1>3
<1>5. ASSUME h = "reverted", NEW r \in Repo PROVE ~Carries(r)
  <2>1. ~failed /\ e.how = "reverted"
    BY <1>2, <1>3, <1>5
  <2>2. CASE r \notin Applied
    BY <1>3, <2>1, <2>2 DEF Outcome
  <2>3. CASE r \in Applied
    <3>1. r > 0
      BY DEF Repo
    <3>2. r \in Repos(Staged, "compensated")
      BY <1>0, <1>1, <2>3, <3>1 DEF Inv, Backward, Compensation, Reverting
    <3>3. PICK y \in Staged: y.ev = "compensated" /\ y.repo = r
      BY <3>2 DEF Repos, Of
    <3>4. y.how = "reverted"
      BY <1>1, <2>1, <3>3 DEF Inv, Records, OnSpine
    <3>5. Reverted(r) \in Elements(Target(r))
      BY <3>3, <3>4 DEF Outcome
    <3> QED BY <3>5 DEF Carries
  <2> QED BY <2>2, <2>3
<1> HIDE DEF failed
<1> QED BY <1>0, <1>1, <1>2, <1>4, <1>5, OutcomeEnd

\* The call answers that it does not know.
LEMMA OutcomeUncertain ==
  ASSUME Inv, Outcome, Return("uncertain")
  PROVE  Outcome'
BY NoCallFields, OutcomeReset DEF Return

\* The actions that leave the branches alone and record no compensation.
LEMMA OutcomeCrash ==
  ASSUME Inv, Outcome, Crash
  PROVE  Outcome'
BY NoCallFields, OutcomeReset DEF Crash

LEMMA OutcomeApply ==
  ASSUME Inv, Outcome, Apply
  PROVE  Outcome'
<1>1. PICK c \in CallType: c = NoCall /\ c.queue = <<>>
  BY NoCallFields
<1>2. /\ call'.pc = "load" /\ call'.queue = <<>>
      /\ UNCHANGED <<mode, git, log>> /\ result' = "none"
  <2>1. "load" \in Stations /\ 1 \in Int
    BY DEF Stations
  <2>2. PICK l \in Stations: l = "load"
    BY <2>1
  <2>3. PICK d: d = Goto(c, l, 1)
    OBVIOUS
  <2>4. d \in CallType /\ d.pc = l /\ d.queue = c.queue
    BY <2>1, <2>3, GotoFields
  <2>5. call' = d /\ UNCHANGED <<mode, git, log>> /\ result' = "none"
    BY <1>1, <2>2, <2>3 DEF Apply
  <2> QED BY <1>1, <2>2, <2>4, <2>5
<1> QED BY <1>2, OutcomeReset

LEMMA OutcomeSpine ==
  ASSUME Inv, Outcome, StageEvent \/ Seal
  PROVE  Outcome'
<1>1. UNCHANGED <<mode, git, result>>
  BY DEF StageEvent, Seal, Keep
<1>2. Waits
  BY StageEventKeeps, SealKeeps
<1> QED BY <1>1, <1>2, OutcomeStage

LEMMA OutcomeThrow ==
  ASSUME Inv, Outcome, Throw
  PROVE  Outcome'
<1>0. call.pc \in {"push", "commit"} /\ UNCHANGED <<mode, git, log, result>>
  BY DEF Throw, Keep
<1>1. CASE call.pc = "push"
  <2>1. Plain'
    BY <1>1, ThrowKeeps
  <2> QED BY <1>0, <1>1, <2>1, OutcomeWorking DEF Reverting
<1>2. CASE call.pc = "commit"
  <2>1. call' = Compensating("uncertain")
    BY <1>2 DEF Throw
  <2> QED BY <1>0, <1>2, <2>1, OutcomeOvertaken
<1> QED BY <1>0, <1>1, <1>2

LEMMA OutcomeConfirm ==
  ASSUME Inv, Outcome, Confirm
  PROVE  Outcome'
<1>1. CASE Return("uncertain")
  BY <1>1, OutcomeUncertain
<1>2. CASE ~Return("uncertain")
  <2>1. UNCHANGED <<mode, git, log, result>> /\ call.pc = "apply"
    BY <1>2 DEF Confirm, Keep, At
  <2>2. Plain'
    BY ConfirmKeeps
  <2> QED BY <2>1, <2>2, OutcomeWorking DEF Reverting
<1> QED BY <1>1, <1>2

LEMMA OutcomeAppraise ==
  ASSUME Inv, Outcome, Appraise
  PROVE  Outcome'
<1>1. UNCHANGED <<mode, git, log, result>> /\ call.pc = "appraise"
  BY DEF Appraise, Keep, At
<1>2. Plain'
  BY AppraiseKeeps
<1> QED BY <1>1, <1>2, OutcomeWorking DEF Reverting

LEMMA OutcomeSkip ==
  ASSUME Inv, Outcome, Skip
  PROVE  Outcome'
<1>1. UNCHANGED <<mode, git, log, result>> /\ call.pc = "revert"
  BY DEF Skip, Keep, At
<1>2. Plain' /\ call'.pc = "revert"
  BY SkipKeeps
<1> QED BY <1>1, <1>2, OutcomeWorking DEF Reverting

\* What the call answers is on record.
LEMMA OutcomeAnswer ==
  ASSUME Inv, Outcome, Commit \/ End
  PROVE  Outcome'
<1>1. CASE Commit
  <2>1. call.pc = "commit" /\ Staged = OnSpine
    BY <1>1, AtFacts DEF Commit
  <2>2. Of(OnSpine, "committed") # {}
    BY <2>1 DEF Outcome
  <2> QED BY <1>1, <2>2, NoCallFields, OutcomeReset DEF Commit, Return
<1>2. CASE End
  <2>1. call.pc = "end" /\ call.status \in Ways
    BY <1>2, AtFacts, Typed DEF End, Inv
  <2>2. PICK e \in Of(Staged, "terminal"): e.how = call.status
    BY <2>1 DEF Outcome
  <2>3. e \in Staged /\ e.ev = "terminal"
    BY <2>2 DEF Of
  <2>4. /\ call.status = "reverted" => \A r \in Repo: ~Carries(r)
        /\ call.status = "refused" /\ mode = "remote" => \A r \in Repo: ~Carries(r)
    BY <2>2, <2>3 DEF Outcome
  <2>5. call.status # "committed"
    BY <2>1 DEF Ways
  <2>6. call' = NoCall /\ result' = call.status /\ UNCHANGED <<mode, git, log>>
    BY <1>2 DEF End, Return
  <2> QED BY <2>4, <2>5, <2>6, NoCallFields, OutcomeReset
<1> QED BY <1>1, <1>2

\* Nothing is published of what is not recorded as applied.
LEMMA OutcomeGiveUp ==
  ASSUME Inv, Outcome, NEW how \in Failures, call' = Compensating(how), NEW l, At(l),
         l \in {"verify"} \cup Applying, UNCHANGED <<mode, git, log, result>>,
         how = "reverted" => \A r \in Repo \ Applied: ~Carries(r)
  PROVE  Outcome'
<1>1. call.pc = l /\ call.applied = Applied
  BY AtFacts DEF Applying, Merging
<1>2. \A r: Reverted(r)' = Reverted(r) /\ Target(r)' = Target(r) /\ (Carries(r)' <=> Carries(r))
  BY GitSame
<1> QED BY <1>1, <1>2, OutcomeCompensating

LEMMA NotMerged ==
  ASSUME Inv, NEW l, At(l), l \in Applying, call.at \notin call.applied,
         Merged(call.at) \notin Elements(Target(call.at))
  PROVE  \A r \in Repo \ Applied: ~Carries(r)
<1>1. call.pc = l /\ call.applied = Applied
  BY AtFacts DEF Applying, Merging
<1>2. ASSUME NEW r \in Repo \ Applied, r # call.at PROVE ~Carries(r)
  BY <1>1, <1>2, Beyond, CandidateClean
<1> QED BY <1>2 DEF Carries

\* The actions that give up: what the last merge has left is not published.
LEMMA OutcomeAgain ==
  ASSUME Inv, Outcome, Again
  PROVE  Outcome'
<1>0. At("again") /\ UNCHANGED <<mode, git, log, result>>
  BY DEF Again, Keep
<1>1. call.pc = "again" /\ call.queue = <<>>
  BY <1>0, AtFacts
<1>2. CASE call' = Compensating("reverted")
  <2>1. /\ call.at \notin call.applied /\ Merged(call.at) \notin Elements(Target(call.at))
    BY <1>1 DEF Inv, Reached, Applying
  <2>2. \A r \in Repo \ Applied: ~Carries(r)
    BY <1>0, <2>1, NotMerged DEF Applying
  <2>3. PICK how \in Failures: how = "reverted"
    BY DEF Failures
  <2> QED BY <1>0, <1>2, <2>2, <2>3, OutcomeGiveUp DEF Applying
<1>3. CASE call' = [call EXCEPT !.pc = "apply", !.pending[call.at] = 0]
  <2>1. PICK c \in CallType, r \in Repo: c = call /\ r = call.at
    BY <1>1 DEF Inv, Shapes, Positions, Applying
  <2>2. PICK l \in Stations: l = "apply"
    BY DEF Stations, Applying
  <2>3. LET d == [c EXCEPT !.pc = l, !.pending[r] = 0] IN d.pc = l /\ d.queue = c.queue
    BY DEF CallType
  <2>4. call'.pc = "apply" /\ call'.queue = <<>>
    BY <1>1, <1>3, <2>1, <2>2, <2>3
  <2>5. Plain'
    BY <2>4, ElementsFew DEF Plain
  <2> QED BY <1>0, <1>1, <2>5, OutcomeWorking DEF Reverting
<1> QED BY <1>2, <1>3 DEF Again

LEMMA OutcomeMergeFails ==
  ASSUME Inv, Outcome, NEW how \in Failures, MergeFails(how)
  PROVE  Outcome'
<1>0. call' = Compensating(how) /\ UNCHANGED <<mode, git, log, result>>
  BY DEF MergeFails, Keep
<1>1. CASE At("apply") /\ call.at \notin call.applied /\ call.pending[call.at] = 0
  <2>1. call.pc = "apply" /\ call.at \in Repo
    BY <1>1, AtFacts DEF Inv, Positions, Applying
  <2>2. head[call.at] = "candidate"
    BY <1>1, <2>1 DEF Inv, Reached, Applying
  <2>3. local[call.at] = <<>> /\ Merged(call.at) \notin Elements(remote[call.at])
    BY <2>1, <2>2 DEF Inv, Order
  <2>4. Merged(call.at) \notin Elements(Target(call.at))
    BY <2>3, ElementsFew DEF Target
  <2>5. \A r \in Repo \ Applied: ~Carries(r)
    BY <1>1, <2>4, NotMerged DEF Applying
  <2> QED BY <1>0, <1>1, <2>5, OutcomeGiveUp DEF Applying
<1>2. CASE At("merge")
  <2>1. call.pc = "merge"
    BY <1>2, AtFacts
  <2>2. /\ call.at \notin call.applied /\ local[call.at] = <<>>
        /\ Merged(call.at) \notin Elements(remote[call.at])
    BY <2>1 DEF Inv, Reached, Applying, Merging
  <2>3. Merged(call.at) \notin Elements(Target(call.at))
    BY <2>2, ElementsFew DEF Target
  <2>4. \A r \in Repo \ Applied: ~Carries(r)
    BY <1>2, <2>2, <2>3, NotMerged DEF Applying, Merging
  <2> QED BY <1>0, <1>2, <2>4, OutcomeGiveUp DEF Applying, Merging
<1>3. CASE how = "uncertain" /\ At("appraise")
  BY <1>0, <1>3, OutcomeGiveUp DEF Applying, Merging
<1> QED BY <1>1, <1>2, <1>3 DEF MergeFails

LEMMA OutcomeVerify ==
  ASSUME Inv, Outcome, Verify
  PROVE  Outcome'
<1>0. At("verify") /\ UNCHANGED <<mode, git, log, result>>
  BY DEF Verify, Keep
<1>1. call.pc = "verify" /\ call.applied = Applied
  BY <1>0, AtFacts
<1>2. CASE Plain'
  BY <1>0, <1>1, <1>2, OutcomeWorking DEF Reverting
<1>3. CASE call' = Compensating("reverted")
  <2>1. Applied = Repo
    BY <1>1 DEF Inv, Reached
  <2>2. PICK how \in Failures: how = "reverted"
    BY DEF Failures
  <2> QED BY <1>0, <1>3, <2>1, <2>2, OutcomeGiveUp
<1>4. CASE call' = Stage([call EXCEPT !.pc = "commit"], Receipts)
  BY <1>0, <1>4, OutcomeCommit
<1> QED BY <1>2, <1>3, <1>4, VerifyKeeps

LEMMA OutcomeUndo ==
  ASSUME Inv, Outcome, Undo
  PROVE  Outcome'
<1>0. /\ At("undo") /\ UNCHANGED <<mode, head, remote, merges, log, result>>
  BY DEF Undo, Keep
<1>1. /\ call.pc = "undo" /\ call.applied = Applied
  BY <1>0, AtFacts
<1>2. PICK r \in Repo: /\ r = call.at /\ r \notin Applied /\ local[r] = <<Merged(r)>>
                       /\ Merged(r) \notin Elements(remote[r])
  BY <1>1 DEF Inv, Positions, Reached, Applying, Merging
<1>3. \A s: Merged(s)' = Merged(s) /\ Reverted(s)' = Reverted(s)
  BY <1>0 DEF Merged, Reverted
<1>4. CASE local' = [local EXCEPT ![call.at] = Append(@, Reverted(call.at))] /\ call' = Compensating("reverted")
  <2>1. PICK p \in Seq(CommitType), x \in CommitType: p = local[r] /\ x = Reverted(r)
    BY Commits DEF Inv, Shapes
  <2>2. Elements(Append(p, x)) = Elements(p) \cup {x}
    BY ElementsAppend
  <2>3. local'[r] = Append(p, x) /\ \A s \in Repo \ {r}: local'[s] = local[s]
    BY <1>2, <1>4, <2>1 DEF Inv, Shapes
  <2>4. Reverted(r) \in Elements(local'[r])
    BY <2>1, <2>2, <2>3
  <2>5. \A s \in Repo \ {r}: Target(s)' = Target(s)
    BY <1>0, <2>3 DEF Target
  <2>6. ~Carries(r)'
    BY <1>0, <1>2, <1>3, <2>4 DEF Carries, Target
  <2>7. ASSUME NEW s \in Repo \ Applied PROVE ~Carries(s)'
    <3>1. CASE s = r
      BY <2>6, <3>1
    <3>2. CASE s # r
      <4>1. ~Carries(s)
        BY <1>1, <1>2, <3>2, Beyond, CandidateClean DEF Applying, Merging
      <4> QED BY <1>3, <2>5, <3>2, <4>1 DEF Carries
    <3> QED BY <3>1, <3>2
  <2>8. \A s \in Applied: s \in Repo \ {r}
    <3>1. Applied \subseteq Repo
      BY <1>1, Typed DEF Inv
    <3> QED BY <1>2, <3>1
  <2>9. PICK how \in Failures: how = "reverted"
    BY DEF Failures
  <2> QED BY <1>0, <1>1, <1>3, <1>4, <2>5, <2>7, <2>8, <2>9, OutcomeCompensating DEF Applying, Merging
<1>5. CASE call' = Compensating("rollback-failed") /\ UNCHANGED local
  <2>1. PICK how \in Failures: how = "rollback-failed"
    BY DEF Failures
  <2>2. UNCHANGED <<mode, git, log, result>>
    BY <1>0, <1>5 DEF git
  <2> QED BY <1>0, <1>5, <2>1, <2>2, OutcomeGiveUp DEF Applying, Merging
<1> QED BY <1>4, <1>5 DEF Undo

\* The actions that merge, publish, or take back what was not published.
LEMMA OutcomeCheckout ==
  ASSUME Inv, Outcome, Checkout
  PROVE  Outcome'
<1>1. /\ At("apply") /\ UNCHANGED <<mode, local, remote, merges, log, result>>
      /\ call.at \notin call.applied
  BY DEF Checkout, Keep
<1>2. call.pc = "apply" /\ call.applied = Applied /\ result = "none"
  BY <1>1, AtFacts
<1>3. \A s: Reverted(s)' = Reverted(s) /\ Target(s)' = Target(s)
  BY <1>1 DEF Reverted, Target
<1>4. Plain'
  BY CheckoutKeeps
<1>5. call.pc \in Applying /\ call.at \notin Applied /\ result' = "none"
  BY <1>1, <1>2 DEF Applying
<1> QED BY <1>1, <1>3, <1>4, <1>5, OutcomeMerging

LEMMA OutcomeGitMerge ==
  ASSUME Inv, Outcome, GitMerge
  PROVE  Outcome'
<1>1. /\ At("merge") /\ UNCHANGED <<mode, remote, log, result>>
      /\ merges' = [merges EXCEPT ![call.at] = @ + 1]
      /\ local' = [local EXCEPT ![call.at] = <<[kind |-> "merge", n |-> merges[call.at] + 1]>>]
  BY DEF GitMerge, Keep
<1>2. call.pc = "merge" /\ call.applied = Applied /\ result = "none"
  BY <1>1, AtFacts
<1>3. \A s \in Repo \ {call.at}: merges'[s] = merges[s] /\ local'[s] = local[s]
  BY <1>1 DEF Inv, Shapes
<1>4. \A s \in Repo \ {call.at}: Reverted(s)' = Reverted(s) /\ Target(s)' = Target(s)
  BY <1>1, <1>3 DEF Reverted, Target
<1>5. Plain'
  BY GitMergeKeeps
<1>6. call.pc \in Applying /\ call.at \notin Applied /\ result' = "none"
  BY <1>1, <1>2 DEF Inv, Reached, Applying, Merging
<1> QED BY <1>1, <1>4, <1>5, <1>6, OutcomeMerging

LEMMA OutcomeMergeBreaks ==
  ASSUME Inv, Outcome, MergeBreaks
  PROVE  Outcome'
<1>1. /\ At("merge") /\ UNCHANGED <<mode, remote, log, result>>
      /\ merges' = [merges EXCEPT ![call.at] = @ + 1]
      /\ local' = [local EXCEPT ![call.at] = <<[kind |-> "merge", n |-> merges[call.at] + 1]>>]
  BY DEF MergeBreaks, Keep
<1>2. call.pc = "merge" /\ call.applied = Applied
  BY <1>1, AtFacts
<1>3. \A s \in Repo \ {call.at}: merges'[s] = merges[s] /\ local'[s] = local[s]
  BY <1>1 DEF Inv, Shapes
<1>4. \A s \in Repo \ {call.at}: Reverted(s)' = Reverted(s) /\ Target(s)' = Target(s)
  BY <1>1, <1>3 DEF Reverted, Target
<1>5. call.at \notin Applied /\ Applied \subseteq Repo
  BY <1>2, Typed DEF Inv, Reached, Applying, Merging
<1>6. PICK how \in Failures: how = "rollback-failed" /\ call' = Compensating(how)
  BY DEF MergeBreaks, Failures
<1>7. \A s \in Applied: Reverted(s)' = Reverted(s) /\ Target(s)' = Target(s)
  BY <1>4, <1>5
<1> QED BY <1>1, <1>2, <1>6, <1>7, OutcomeCompensating DEF Applying, Merging

LEMMA OutcomePush ==
  ASSUME Inv, Outcome, Push
  PROVE  Outcome'
<1>1. /\ At("push") /\ UNCHANGED <<mode, local, merges, log>>
  BY DEF Push, Keep, Return, git
<1>2. call.pc = "push" /\ call.applied = Applied /\ result = "none"
  BY <1>1, AtFacts
<1>3. PICK r \in Repo: r = call.at /\ r \notin Applied
  BY <1>2 DEF Inv, Positions, Reached, Applying, Merging
<1>4. \/ UNCHANGED remote
      \/ remote' = [remote EXCEPT ![r] = <<Merged(r)>>]
  BY <1>3 DEF Push, Return, git
<1>5. \A s \in Repo \ {r}: remote'[s] = remote[s]
  BY <1>4 DEF Inv, Shapes
<1>6. \A s \in Repo \ {r}: Reverted(s)' = Reverted(s) /\ Target(s)' = Target(s)
  BY <1>1, <1>5 DEF Reverted, Target
<1>7. result' \in {"none", "uncertain"}
  BY <1>2 DEF Push, Keep, Return
<1>8. Plain'
  BY PushKeeps
<1>9. call.pc \in Applying
  BY <1>2 DEF Applying, Merging
<1> QED BY <1>1, <1>3, <1>6, <1>7, <1>8, <1>9, OutcomeMerging

LEMMA OutcomeObserve ==
  ASSUME Inv, Outcome, Observe
  PROVE  Outcome'
<1>1. /\ At("apply") /\ UNCHANGED <<mode, remote, merges, log>> /\ call.at \notin call.applied
  BY DEF Observe, Keep, Return, git
<1>2. call.pc = "apply" /\ call.applied = Applied /\ result = "none"
  BY <1>1, AtFacts
<1>3. PICK r \in Repo: r = call.at /\ r \notin Applied
  BY <1>1, <1>2 DEF Inv, Positions, Applying
<1>4. \/ UNCHANGED local
      \/ local' = [local EXCEPT ![r] = <<>>]
  BY <1>3 DEF Observe, Return, git
<1>5. \A s \in Repo \ {r}: local'[s] = local[s]
  BY <1>4 DEF Inv, Shapes
<1>6. \A s \in Repo \ {r}: Reverted(s)' = Reverted(s) /\ Target(s)' = Target(s)
  BY <1>1, <1>5 DEF Reverted, Target
<1>7. result' \in {"none", "uncertain"}
  BY <1>2 DEF Observe, Keep, Return
<1>8. Plain'
  BY ObserveKeeps
<1>9. call.pc \in Applying
  BY <1>2 DEF Applying
<1> QED BY <1>1, <1>3, <1>6, <1>7, <1>8, <1>9, OutcomeMerging

\* The actions of the compensation: a revert that is recorded is published.
LEMMA OutcomeRevert ==
  ASSUME Inv, Outcome, Revert
  PROVE  Outcome'
<1>1. /\ At("revert") /\ UNCHANGED <<mode, head, remote, merges, log, result>> /\ call.at > 0
      /\ local' = [local EXCEPT ![call.at] = Append(@, Reverted(call.at))]
  BY DEF Revert, Keep
<1>2. call.pc = "revert" /\ call.applied = Applied /\ call.queue = <<>> /\ Staged = OnSpine
  BY <1>1, AtFacts
<1>3. PICK r \in Repo: r = call.at /\ r \in Applied /\ r # 0
  <2>1. call.at \in call.applied /\ call.applied \subseteq Repo
    BY <1>1, <1>2, Typed DEF Inv, Positions, Reverting
  <2> QED BY <1>1, <1>2, <2>1
<1>4. PICK p \in Seq(CommitType), x \in CommitType: p = local[r] /\ x = Reverted(r)
  BY Commits DEF Inv, Shapes
<1>5. Elements(Append(p, x)) = Elements(p) \cup {x}
  BY ElementsAppend
<1>6. local'[r] = Append(p, x) /\ \A s \in Repo \ {r}: local'[s] = local[s]
  BY <1>1, <1>3, <1>4 DEF Inv, Shapes
<1>7. /\ \A s \in Repo \ {r}: Target(s)' = Target(s)
      /\ Reverted(r) \in Elements(Target(r)) => Reverted(r) \in Elements(Target(r)')
      /\ mode = "local" => Reverted(r) \in Elements(Target(r)')
  BY <1>1, <1>4, <1>5, <1>6 DEF Target
<1>8. CASE mode = "remote" /\ call' = [call EXCEPT !.pc = "repush"]
  <2>1. PICK c \in CallType, l \in Stations: c = call /\ l = "repush"
    BY DEF Inv, Shapes, Stations, Reverting
  <2>2. LET d == [c EXCEPT !.pc = l] IN d.pc = l /\ d.queue = c.queue
    BY PcFields
  <2>3. call'.pc = "repush" /\ Elements(call'.queue) = {}
    BY <1>2, <1>8, <2>1, <2>2, ElementsFew
  <2> QED BY <1>1, <1>2, <1>3, <1>7, <2>3, OutcomeReverting DEF Reverting
<1>9. CASE mode # "remote" /\ RecordCompensated(TRUE)
  <2>1. mode = "local"
    BY <1>9 DEF Inv, Shapes
  <2> QED BY <1>1, <1>2, <1>3, <1>7, <1>9, <2>1, OutcomeCompensated DEF Reverting
<1> QED BY <1>8, <1>9 DEF Revert

LEMMA OutcomeReconcile ==
  ASSUME Inv, Outcome, ReconcileRevert
  PROVE  Outcome'
<1>1. /\ At("revert") /\ UNCHANGED <<mode, git, log, result>> /\ call.at > 0
      /\ Tip(local[call.at], Reverted(call.at))
  BY DEF ReconcileRevert, Keep
<1>2. call.pc = "revert" /\ call.applied = Applied /\ call.queue = <<>> /\ Staged = OnSpine
  BY <1>1, AtFacts
<1>3. PICK r \in Repo: r = call.at /\ r \in Applied /\ r # 0
  <2>1. call.at \in call.applied /\ call.applied \subseteq Repo
    BY <1>1, <1>2, Typed DEF Inv, Positions, Reverting
  <2> QED BY <1>1, <1>2, <2>1
<1>4. \A s: Target(s)' = Target(s) /\ merges' = merges
  BY <1>1, GitSame
<1>5. CASE call' = [call EXCEPT !.pc = "repush"]
  <2>1. PICK c \in CallType, l \in Stations: c = call /\ l = "repush"
    BY DEF Inv, Shapes, Stations, Reverting
  <2>2. LET d == [c EXCEPT !.pc = l] IN d.pc = l /\ d.queue = c.queue
    BY PcFields
  <2>3. call'.pc = "repush" /\ Elements(call'.queue) = {}
    BY <1>2, <1>5, <2>1, <2>2, ElementsFew
  <2>4. Plain'
    BY <2>3 DEF Plain
  <2> QED BY <1>1, <1>2, <2>3, <2>4, OutcomeWorking DEF Reverting
<1>6. CASE RecordCompensated(mode = "remote" => Tip(remote[call.at], Reverted(call.at)))
  <2>1. PICK ok \in BOOLEAN: ok <=> (mode = "remote" => Tip(remote[r], Reverted(r)))
    OBVIOUS
  <2>2. RecordCompensated(ok)
    BY <1>3, <1>6, <2>1 DEF RecordCompensated
  <2>3. Tip(local[r], Reverted(r)) /\ local[r] \in Seq(CommitType) /\ remote[r] \in Seq(CommitType)
    BY <1>1, <1>3 DEF Inv, Shapes
  <2>4. ok => Reverted(r) \in Elements(Target(r))
    BY <2>1, <2>3, TipElement DEF Target
  <2> QED BY <1>1, <1>2, <1>3, <1>4, <2>2, <2>4, OutcomeCompensated DEF Reverting
<1> QED BY <1>5, <1>6 DEF ReconcileRevert

LEMMA OutcomeRepush ==
  ASSUME Inv, Outcome, Repush
  PROVE  Outcome'
<1>1. At("repush") /\ UNCHANGED <<mode, local, head, merges, log, result>>
  BY DEF Repush, Keep
<1>2. call.pc = "repush" /\ call.applied = Applied /\ Staged = OnSpine
  BY <1>1, AtFacts
<1>3. PICK r \in Repo: r = call.at /\ r # 0
  <2>1. call.at \in call.applied /\ call.applied \subseteq Repo /\ call.at # 0
    BY <1>2, Typed DEF Inv, Positions, Reverting
  <2> QED BY <2>1
<1>4. mode = "remote"
  BY <1>2 DEF Inv, Backward, Compensation
<1>5. ASSUME NEW ok \in BOOLEAN, RecordCompensated(ok),
             remote' = [remote EXCEPT ![r] = Append(@, Reverted(r))]
      PROVE  Outcome'
  <2>1. PICK p \in Seq(CommitType), x \in CommitType: p = remote[r] /\ x = Reverted(r)
    BY Commits DEF Inv, Shapes
  <2>2. Elements(Append(p, x)) = Elements(p) \cup {x}
    BY ElementsAppend
  <2>3. remote'[r] = Append(p, x) /\ \A s \in Repo \ {r}: remote'[s] = remote[s]
    BY <1>5, <2>1 DEF Inv, Shapes
  <2>4. /\ \A s \in Repo \ {r}: Target(s)' = Target(s)
        /\ Reverted(r) \in Elements(Target(r)')
    BY <1>1, <1>4, <2>1, <2>2, <2>3 DEF Target
  <2> QED BY <1>1, <1>2, <1>3, <1>5, <2>4, OutcomeCompensated DEF Reverting
<1>6. ASSUME RecordCompensated(FALSE), UNCHANGED remote
      PROVE  Outcome'
  <2>1. \A s: Target(s)' = Target(s)
    BY <1>1, <1>6 DEF Target
  <2> QED BY <1>1, <1>2, <1>3, <1>6, <2>1, OutcomeCompensated DEF Reverting
<1> QED BY <1>3, <1>5, <1>6 DEF Repush

LEMMA OutcomeRevertFails ==
  ASSUME Inv, Outcome, RevertFails
  PROVE  Outcome'
<1>1. At("revert") /\ UNCHANGED <<mode, git, log, result>> /\ call.at > 0 /\ RecordCompensated(FALSE)
  BY DEF RevertFails, Keep
<1>2. call.pc = "revert" /\ call.at # 0 /\ Staged = OnSpine
  BY <1>1, AtFacts DEF Inv, Shapes, CallType
<1>3. UNCHANGED merges /\ \A s: Target(s)' = Target(s)
  BY <1>1, GitSame
<1> QED BY <1>1, <1>2, <1>3, OutcomeCompensated DEF Reverting

LEMMA InitOutcome ==
  ASSUME Init
  PROVE  Outcome
<1>1. log = <<>> /\ call = NoCall /\ result = "none"
  BY DEF Init
<1>2. call.pc = "idle" /\ call.queue = <<>>
  BY <1>1, NoCallFields
<1>3. Staged = {}
  BY <1>1, <1>2, ElementsFew DEF Staged, OnSpine
<1> QED BY <1>1, <1>2, <1>3 DEF Outcome, Of

LEMMA StutterOutcome ==
  ASSUME Outcome, UNCHANGED vars
  PROVE  Outcome'
<1>1. UNCHANGED <<mode, git, log, call, result>>
  BY DEF vars
<1>2. /\ UNCHANGED <<OnSpine, Staged, Applied>>
      /\ \A r: /\ Reverted(r)' = Reverted(r) /\ Target(r)' = Target(r)
               /\ Carries(r)' <=> Carries(r)
  BY <1>1, Frozen, GitSame DEF Staged
<1> QED BY <1>1, <1>2 DEF Outcome

LEMMA StepOutcome ==
  ASSUME Inv, Outcome, [Next]_vars
  PROVE  Outcome'
<1>1. ASSUME NEW how \in {"reverted", "uncertain", "rollback-failed"}, MergeFails(how) PROVE Outcome'
  BY <1>1, OutcomeMergeFails DEF Failures
<1>2. ASSUME NEW r \in Repo, Move(r) PROVE Outcome'
  BY <1>2, OutcomeMove
<1> QED BY <1>1, <1>2, StutterOutcome, OutcomeApply, OutcomeLoad, OutcomeSpine, OutcomeThrow,
           OutcomeCrash, OutcomePreflight, OutcomeSurvey, OutcomeConfirm, OutcomeObserve, OutcomeAgain,
           OutcomeCheckout, OutcomeGitMerge, OutcomeMergeBreaks, OutcomeAppraise, OutcomePush,
           OutcomeUndo, OutcomeVerify, OutcomeAnswer, OutcomeSkip, OutcomeRevert, OutcomeReconcile, OutcomeRepush,
           OutcomeRevertFails, OutcomeFinish DEF Next

LEMMA OutcomeInvariance == Spec => [](Inv /\ Outcome)
<1>1. Init => Inv /\ Outcome
  BY InitInv, InitOutcome
<1>2. Inv /\ Outcome /\ [Next]_vars => Inv' /\ Outcome'
  BY StepKeeps, StepOutcome
<1> QED BY <1>1, <1>2, PTL DEF Spec

\* Where a receipt and a compensation are both on record, it is that of the receipt.
LEMMA OvertakenFacts ==
  ASSUME Outcome, Of(OnSpine, "committed") # {}, Of(OnSpine, "compensating") # {}
  PROVE  Overtaken
<1>1. Events("committed") # {} /\ Events("compensating") # {}
  BY SpineView DEF SpineRead
<1>2. PICK i \in Events("compensating"): TRUE
  BY <1>1
<1>3. log[i] \in Of(Staged, "compensating") /\ Of(Staged, "committed") # {}
  BY <1>2 DEF Events, Staged, OnSpine, Elements, Of
<1> QED BY <1>1, <1>2, <1>3 DEF Outcome, Overtaken

\* What apply answers and what it records of the end is true of the published
\* branches, whatever call crashes or throws and whatever others push: reverted is
\* on none of them, refused on no remote, and committed on all unless the seal of
\* the commit receipt has failed and compensate() is on record after it.
THEOREM EndsAsItSays == Spec => []EndIsTrue
<1>1. ASSUME Inv, Outcome PROVE EndIsTrue
  <2>1. /\ \A i \in Events("terminal"): log[i] \in Staged /\ log[i].ev = "terminal"
        /\ Events("committed") # {} => Of(Staged, "committed") # {}
    BY DEF Events, Staged, OnSpine, Elements, Of
  <2>2. \A i \in Events("terminal"): log[i].how # "committed"
    <3>1. \A i \in Events("terminal"): log[i] \in Of(OnSpine, "terminal")
      BY DEF Events, Of, OnSpine, Elements
    <3> QED BY <1>1, <3>1, SpineEvents DEF Inv, Ways
  <2>3. /\ Of(OnSpine, "committed") # {} => Of(Staged, "committed") # {}
        /\ \A ev: Events(ev) # {} <=> Of(OnSpine, ev) # {}
    BY SpineView DEF Of, Staged, SpineRead
  <2>4. "committed" \in Claims => Of(OnSpine, "committed") # {}
    BY <1>1, <2>2, <2>3 DEF Claims, Outcome
  <2>5. ASSUME NEW how \in {"reverted", "refused"}, how \in Claims
        PROVE  result = how \/ \E e \in Staged: e.ev = "terminal" /\ e.how = how
    BY <2>1, <2>5 DEF Claims
  <2>6. "reverted" \in Claims => \A r \in Repo: ~Carries(r)
    BY <1>1, <2>5 DEF Outcome
  <2>7. "refused" \in Claims /\ mode = "remote" => \A r \in Repo: ~Carries(r)
    BY <1>1, <2>5 DEF Outcome
  <2>8. "committed" \in Claims /\ ~Overtaken => \A r \in Repo: Carries(r)
    BY <1>1, <2>3, <2>4, OvertakenFacts DEF Outcome
  <2> QED BY <2>6, <2>7, <2>8 DEF EndIsTrue
<1> QED BY <1>1, OutcomeInvariance, PTL

\* A transaction that is on record as terminal, or as committed and not overtaken by
\* a compensation, is left alone by every step of every call of apply: the worktrees
\* do not change, and only others push.
THEOREM EndedIsQuiet == Spec => FinalIsQuiet
<1> DEFINE Over == Events("terminal") # {} \/ (Events("committed") # {} /\ ~Overtaken)
           Quiet == Over => /\ UNCHANGED <<local, merges>>
                            /\ \A r \in Repo: \A c \in Elements(remote'[r]):
                                 c.kind = "other" \/ c \in Elements(remote[r])
<1>1. ASSUME Inv, Outcome, Next PROVE Quiet
  <2> SUFFICES ASSUME Over PROVE Quiet
    OBVIOUS
  <2>1. call.pc \in {"idle", "load", "commit", "end"} \/ call.sealing
    <3>1. \/ Of(OnSpine, "terminal") # {}
          \/ Of(OnSpine, "committed") # {} /\ Of(OnSpine, "compensating") = {}
      BY <1>1, SpineView, OvertakenFacts DEF SpineRead
    <3>2. Of(OnSpine, "terminal") \subseteq Of(Staged, "terminal")
          /\ Of(OnSpine, "committed") \subseteq Of(Staged, "committed")
      BY DEF Of, Staged
    <3>3. CASE Of(OnSpine, "terminal") # {}
      BY <1>1, <3>2, <3>3 DEF Outcome
    <3>4. CASE Of(OnSpine, "committed") # {} /\ Of(OnSpine, "compensating") = {}
      <4>1. call.pc \in {"idle", "load", "commit", "end"} \cup Reverting
        BY <1>1, <3>2, <3>4 DEF Outcome
      <4>2. ASSUME call.pc \in Reverting, ~call.sealing PROVE FALSE
        <5>1. Staged = OnSpine
          BY <1>1, <4>2, AtFacts DEF At
        <5>2. Of(Staged, "compensating") # {}
          BY <1>1, <4>2 DEF Inv, Backward, Compensation
        <5> QED BY <3>4, <5>1, <5>2
      <4> QED BY <4>1, <4>2
    <3> QED BY <3>1, <3>3, <3>4
  <2>2. CASE UNCHANGED git
    BY <2>2 DEF git
  <2>3. ASSUME NEW r \in Repo, Move(r) PROVE Quiet
    <3>1. PICK p \in Seq(CommitType), x \in CommitType: p = remote[r] /\ x = [kind |-> "other", n |-> 0]
      BY <1>1 DEF Inv, Shapes, CommitType
    <3>2. Elements(Append(p, x)) = Elements(p) \cup {x}
      BY ElementsAppend
    <3>3. remote'[r] = Append(p, x) /\ \A s \in Repo \ {r}: remote'[s] = remote[s]
      BY <1>1, <2>3, <3>1 DEF Move, Inv, Shapes
    <3>4. UNCHANGED <<local, merges>>
      BY <2>3 DEF Move
    <3>5. ASSUME NEW s \in Repo, NEW c \in Elements(remote'[s])
          PROVE  c.kind = "other" \/ c \in Elements(remote[s])
      <4>1. CASE s = r
        <5>1. x.kind = "other"
          BY <3>1
        <5>2. c \in Elements(Append(p, x))
          BY <3>3, <4>1
        <5>3. c = x \/ c \in Elements(p)
          BY <3>2, <5>2
        <5> QED BY <3>1, <4>1, <5>1, <5>3
      <4>2. CASE s # r
        BY <3>3, <4>2
      <4> QED BY <4>1, <4>2
    <3> QED BY <3>4, <3>5
  <2>4. UNCHANGED git \/ \E r \in Repo: Move(r)
    <3>1. \A l \in Applying \cup Reverting: ~At(l)
      BY <2>1 DEF Applying, Merging, Reverting, At
    <3>2. UNCHANGED git \/ (\E r \in Repo: Move(r)) \/ Observe \/ Checkout \/ GitMerge \/ MergeBreaks
            \/ Push \/ Undo \/ Revert \/ Repush
      BY <1>1 DEF Next, Apply, Load, StageEvent, Seal, Throw, Crash, Preflight, Survey, Confirm, Again,
                  Appraise, MergeFails, Verify, Commit, Skip, ReconcileRevert, RevertFails, Finish, End,
                  Return
    <3> QED BY <3>1, <3>2 DEF Observe, Checkout, GitMerge, MergeBreaks, Push, Undo, Revert, Repush,
                              Applying, Merging, Reverting
  <2> HIDE DEF Over, Quiet
  <2> QED BY <2>2, <2>3, <2>4
<1>2. Inv /\ Outcome /\ [Next]_vars => [Quiet]_vars
  BY <1>1
<1> QED BY <1>2, OutcomeInvariance, PTL DEF Spec, FinalIsQuiet
=============================================================================
