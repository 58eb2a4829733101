------------------------- MODULE FileSystemLockProofs -------------------------
(***************************************************************************)
(* Proofs about FileSystemLock for every set of tasks, every assignment of *)
(* tasks to processes and every number of calls: the promise chain of      *)
(* InProcessLock lets one task of a process past at a time, and the lock   *)
(* file is exclusive until a process dies or a wait outlasts its window.   *)
(***************************************************************************)
EXTENDS FileSystemLock, TLAPS

Active(t) == pc[t] \in Acquiring \cup Holding
Busy(t) == pc[t] = "queued" \/ Active(t)

\* Nothing but its own turn keeps t from running: t is past the queue, or the
\* gate it awaits is open.
Free(t) == Active(t) \/ (pc[t] = "queued" /\ prev[t] \in opened)

\* The calls and gates so far: a gate that has been opened is not one of the
\* future, nor that of a call under way.
Gates ==
  /\ calls \in [Task -> Nat]
  /\ \A t \in Task : Busy(t) => calls[t] # 0 /\ Id(t) \notin opened
  /\ \A t \in Task, n \in Nat : n > calls[t] => [task |-> t, call |-> n] \notin opened
  /\ NoGate \in opened

\* The tail is the gate of a busy task, or there is none and no task is busy.
LastGate ==
  \A t \in Task :
    /\ tails[Host[t]] = NoGate => ~Busy(t)
    /\ tails[Host[t]] # NoGate =>
         \E u \in Task : Host[u] = Host[t] /\ Busy(u) /\ tails[Host[t]] = Id(u)

\* The order of the chain.  r numbers the busy tasks of a process: a task that
\* is free comes first, the owner of the tail last, and a gate that is awaited
\* and still closed is the gate of the busy task just before.
Ranked(r) ==
  /\ \A t, u \in Task : Host[t] = Host[u] /\ Busy(t) /\ Busy(u) =>
       /\ r[t] = r[u] => t = u
       /\ Free(t) => r[t] <= r[u]
       /\ tails[Host[t]] = Id(t) => r[u] <= r[t]
  /\ \A t \in Task : pc[t] = "queued" /\ prev[t] \notin opened =>
       \E u \in Task : Host[u] = Host[t] /\ Busy(u) /\ prev[t] = Id(u) /\ r[t] = r[u] + 1

Queue == Gates /\ LastGate /\ \E r \in [Task -> Nat] : Ranked(r)

\* Until a process dies or a window elapses nobody takes a file over, and who
\* has created the file finds it at the path until he unlinks it.
Possession ==
  (alive = Proc /\ expired = {}) =>
    \A t \in Task :
      /\ pc[t] # "rename"
      /\ pc[t] \in {"write"} \cup Holding => carrier.by = Id(t)

\* What a task has read is a file with an owner, or no file.
Owners ==
  \A t \in Task : seen[t].by = NoGate => seen[t] = NoFile

Inv == TypeOK /\ Queue /\ Owners /\ Possession

-----------------------------------------------------------------------------
\* The identity of a call is an identity the type invariant knows.
LEMMA IdType ==
  ASSUME NEW t \in Task, NEW n, n \in 0..MaxCalls[t]
  PROVE  [task |-> t, call |-> n] \in Ids
BY DEF Ids

\* So is the absence of one.
LEMMA NoGateType == NoGate \in Ids
BY DEF Ids

\* Writing through the descriptor keeps a file a file of the same owner.
LEMMA WrittenType ==
  ASSUME TypeOK, NEW t \in Task, calls[t] # 0
  PROVE  /\ Written(t) \in [by : Ids, written : BOOLEAN]
         /\ Written(t).by = carrier.by
         /\ Written(t).by = NoGate => Written(t) = NoFile
<1>1. carrier \in [by : Ids, written : BOOLEAN]
  BY DEF TypeOK
<1>2. CASE carrier.by = Id(t)
  <2>1. Written(t) = [by |-> carrier.by, written |-> TRUE]
    BY <1>1, <1>2 DEF Written
  <2>2. carrier.by # NoGate
    BY <1>2 DEF Id, NoGate
  <2> QED BY <1>1, <2>1, <2>2
<1>3. CASE carrier.by # Id(t)
  BY <1>1, <1>3 DEF Written, TypeOK
<1> QED BY <1>2, <1>3

-----------------------------------------------------------------------------
(* What the promise chain sees of a step. *)

\* The chain is untouched; a task at most moves on inside its turn.
Inside ==
  /\ UNCHANGED <<tails, prev, opened, calls>>
  /\ \A t \in Task : (pc'[t] = "queued" <=> pc[t] = "queued") /\ (Active(t)' <=> Active(t))

\* t ends its turn.
Ends(t) ==
  /\ Active(t)
  /\ Finish(t)
  /\ UNCHANGED <<prev, calls>>

\* A process dies.
Dies(h) ==
  /\ \A t \in Task : Host[t] = h => ~Busy(t)'
  /\ \A t \in Task : Host[t] # h => pc'[t] = pc[t] /\ prev'[t] = prev[t]
  /\ \A t \in Task : Host[t] # h => tails'[Host[t]] = tails[Host[t]]
  /\ \A t \in Task : Host[t] = h => tails'[Host[t]] = NoGate
  /\ UNCHANGED <<opened, calls>>

\* Every step of the specification is one of these to the chain.
LEMMA ChainView ==
  ASSUME TypeOK, [Next]_vars
  PROVE  \/ Inside
         \/ \E t \in Task : Enqueue(t)
         \/ \E t \in Task : Start(t)
         \/ \E t \in Task : Ends(t)
         \/ \E h \in Proc : Dies(h)
<1> USE DEF Acquiring, Holding, Active, Inside, At, Goto
<1>0. pc \in [Task -> {"idle", "queued", "dead"} \cup Acquiring \cup Holding]
  BY DEF TypeOK
<1>1. CASE UNCHANGED vars
  BY <1>1 DEF vars
<1>2. ASSUME NEW t \in Task, Step(t) \/ WriteFails(t) \/ Throws(t) \/ Expire(t)
      PROVE  Inside \/ Start(t) \/ Ends(t)
  <2>1. CASE Start(t)
    BY <2>1
  <2>2. CASE Create(t)
    BY <1>0, <2>2 DEF Create
  <2>3. CASE Write(t)
    BY <1>0, <2>3 DEF Write
  <2>4. CASE Read(t)
    BY <1>0, <2>4 DEF Read
  <2>5. CASE Exists(t)
    <3>1. CASE carrier = NoFile
      BY <1>0, <2>5, <3>1 DEF Exists
    <3>2. CASE carrier # NoFile
      BY <2>5, <3>2 DEF Exists, Ends
    <3> QED BY <3>1, <3>2
  <2>6. CASE Decide(t)
    <3>1. UNCHANGED <<prev, calls>> /\ pc[t] = "decide"
      BY <2>6 DEF Decide
    <3>2. CASE Finish(t)
      BY <3>1, <3>2 DEF Ends
    <3>3. CASE Goto(t, "create") /\ UNCHANGED <<tails, opened>>
      BY <1>0, <3>1, <3>3
    <3>4. CASE Goto(t, "rename") /\ UNCHANGED <<tails, opened>>
      BY <1>0, <3>1, <3>4
    <3> QED BY <2>6, <3>2, <3>3, <3>4 DEF Decide
  <2>7. CASE Rename(t)
    BY <1>0, <2>7 DEF Rename
  <2>8. CASE Leave(t)
    BY <1>0, <2>8 DEF Leave
  <2>9. CASE Verify(t)
    <3>1. CASE Finish(t)
      BY <2>9, <3>1 DEF Verify, Ends
    <3>2. CASE Goto(t, "unlink") /\ UNCHANGED <<tails, opened>>
      BY <1>0, <2>9, <3>2 DEF Verify
    <3> QED BY <2>9, <3>1, <3>2 DEF Verify
  <2>10. CASE Unlink(t)
    BY <2>10 DEF Unlink, Ends
  <2>11. CASE WriteFails(t)
    BY <2>11 DEF WriteFails, Ends
  <2>12. CASE Expire(t)
    BY <2>12 DEF Expire
  <2>13. CASE Throws(t)
    BY <2>13 DEF Throws, Ends
  <2> QED BY <1>2, <2>1, <2>2, <2>3, <2>4, <2>5, <2>6, <2>7, <2>8, <2>9,
             <2>10, <2>11, <2>12, <2>13 DEF Step
<1>3. ASSUME NEW h \in Proc, Crash(h)
      PROVE  Dies(h)
  <2>1. tails \in [Proc -> Ids]
    BY DEF TypeOK
  <2>2. \A t \in Task : Host[t] \in Proc
    BY DEF Proc
  <2> QED BY <1>3, <2>1, <2>2 DEF Crash, Dies, Busy
<1> QED BY <1>1, <1>2, <1>3 DEF Next

-----------------------------------------------------------------------------
(* Each kind of step keeps the chain. *)

\* A step inside a turn leaves the chain as it was.
LEMMA QueueInside ==
  ASSUME Queue, Inside
  PROVE  Queue'
<1>1. \A t \in Task : Id(t)' = Id(t)
  BY DEF Inside, Id
<1>2. \A t \in Task : /\ Busy(t)' <=> Busy(t)
                      /\ Free(t)' <=> Free(t)
                      /\ (pc[t] = "queued")' <=> pc[t] = "queued"
  BY DEF Inside, Busy, Free
<1> USE <1>1, <1>2 DEF Inside
<1>3. Gates'
  BY DEF Queue, Gates
<1>4. LastGate'
  BY DEF Queue, LastGate
<1>5. ASSUME NEW r \in [Task -> Nat], Ranked(r)
      PROVE  Ranked(r)'
  BY <1>5 DEF Ranked
<1> QED BY <1>3, <1>4, <1>5 DEF Queue

\* InProcessLock.withLock chains a new gate behind the tail: the chain stays one
\* line, with the new task at its end.
LEMMA QueueEnqueue ==
  ASSUME TypeOK, Queue, NEW t \in Task, Enqueue(t)
  PROVE  Queue'
<1> USE DEF Acquiring, Holding
<1>0. /\ pc[t] = "idle" /\ calls \in [Task -> Nat]
      /\ pc' = [pc EXCEPT ![t] = "queued"]
      /\ calls' = [calls EXCEPT ![t] = calls[t] + 1]
      /\ prev' = [prev EXCEPT ![t] = tails[Host[t]]]
      /\ tails' = [tails EXCEPT ![Host[t]] = Id(t)']
      /\ opened' = opened
  BY DEF Enqueue, At, Goto, Queue, Gates
<1>1. /\ pc \in [Task -> {"idle", "queued", "dead"} \cup Acquiring \cup Holding]
      /\ prev \in [Task -> Ids]
      /\ tails \in [Proc -> Ids]
      /\ \A u \in Task : Host[u] \in Proc
  BY DEF TypeOK, Proc
<1>2. /\ ~Busy(t) /\ ~Free(t)
      /\ Busy(t)'
      /\ pc'[t] = "queued" /\ prev'[t] = tails[Host[t]]
      /\ Id(t)' = [task |-> t, call |-> calls[t] + 1]
      /\ calls'[t] = calls[t] + 1
      /\ \A u \in Task : Host[u] = Host[t] => tails'[Host[u]] = Id(t)'
  BY <1>0, <1>1 DEF Busy, Active, Free, Id
<1>3. \A u \in Task \ {t} : /\ Busy(u)' <=> Busy(u)
                            /\ Free(u)' <=> Free(u)
                            /\ Active(u)' <=> Active(u)
                            /\ pc'[u] = pc[u] /\ prev'[u] = prev[u]
                            /\ Id(u)' = Id(u) /\ calls'[u] = calls[u]
                            /\ Host[u] # Host[t] => tails'[Host[u]] = tails[Host[u]]
  BY <1>0, <1>1 DEF Busy, Active, Free, Id
<1>4. Id(t)' \notin opened
  BY <1>0, <1>2 DEF Queue, Gates
<1>5. Id(t)' # NoGate
  BY <1>0, <1>2 DEF NoGate
<1>6. Gates'
  <2>1. \A u \in Task : Busy(u)' => calls'[u] # 0 /\ Id(u)' \notin opened'
    BY <1>0, <1>2, <1>3, <1>4 DEF Queue, Gates
  <2>2. \A u \in Task, n \in Nat : n > calls'[u] => [task |-> u, call |-> n] \notin opened'
    BY <1>0, <1>2, <1>3 DEF Queue, Gates
  <2> QED BY <1>0, <2>1, <2>2 DEF Queue, Gates
<1>7. LastGate'
  <2>1. ASSUME NEW u \in Task, Host[u] = Host[t]
        PROVE  /\ tails'[Host[u]] # NoGate
               /\ Host[t] = Host[u] /\ Busy(t)' /\ tails'[Host[u]] = Id(t)'
    BY <1>2, <1>5, <2>1
  <2>2. ASSUME NEW u \in Task, Host[u] # Host[t]
        PROVE  /\ tails'[Host[u]] = NoGate => ~Busy(u)'
               /\ tails'[Host[u]] # NoGate =>
                    \E v \in Task : Host[v] = Host[u] /\ Busy(v)' /\ tails'[Host[u]] = Id(v)'
    BY <1>2, <1>3, <2>2 DEF Queue, LastGate
  <2> QED BY <2>1, <2>2 DEF LastGate
<1>8. PICK r \in [Task -> Nat] : Ranked(r)
  BY DEF Queue
<1>9. \A u \in Task : u # t => Id(u)' # Id(t)'
  BY DEF Id
\* Nobody is queued: t is the first of the chain, whatever its rank.
<1>10. CASE tails[Host[t]] = NoGate
  <2>1. \A u \in Task : Host[u] = Host[t] => ~Busy(u)
    BY <1>10 DEF Queue, LastGate
  <2>2. prev'[t] \in opened'
    BY <1>0, <1>2, <1>10 DEF Queue, Gates
  <2>3. ASSUME NEW u \in Task, NEW v \in Task,
               Host[u] = Host[v], Busy(u)', Busy(v)'
        PROVE  /\ r[u] = r[v] => u = v
               /\ Free(u)' => r[u] <= r[v]
               /\ tails'[Host[u]] = Id(u)' => r[v] <= r[u]
    <3>1. CASE u = t \/ v = t
      <4>1. u = v
        BY <1>3, <2>1, <2>3, <3>1
      <4> QED BY <1>8, <4>1
    <3>2. CASE u # t /\ v # t
      <4>1. Host[u] # Host[t] /\ Busy(u) /\ Busy(v)
        BY <1>3, <2>1, <2>3, <3>2
      <4> QED BY <1>3, <1>8, <2>3, <3>2, <4>1 DEF Ranked
    <3> QED BY <3>1, <3>2
  <2>4. ASSUME NEW u \in Task, pc'[u] = "queued", prev'[u] \notin opened'
        PROVE  \E v \in Task : /\ Host[v] = Host[u] /\ Busy(v)'
                               /\ prev'[u] = Id(v)' /\ r[u] = r[v] + 1
    <3>1. u # t
      BY <2>2, <2>4
    <3>2. PICK v \in Task : /\ Host[v] = Host[u] /\ Busy(v)
                            /\ prev[u] = Id(v) /\ r[u] = r[v] + 1
      BY <1>0, <1>3, <1>8, <2>4, <3>1 DEF Ranked
    <3> QED BY <1>2, <1>3, <3>1, <3>2
  <2>5. Ranked(r)'
    BY <2>3, <2>4 DEF Ranked
  <2> QED BY <1>6, <1>7, <2>5 DEF Queue
\* Otherwise t comes just after the owner of the tail.
<1>11. CASE tails[Host[t]] # NoGate
  <2>1. PICK w \in Task : Host[w] = Host[t] /\ Busy(w) /\ tails[Host[t]] = Id(w)
    BY <1>11 DEF Queue, LastGate
  <2>2. w # t /\ Id(w)' = Id(w) /\ Id(w) \notin opened
    BY <1>2, <1>3, <2>1 DEF Queue, Gates
  <2>3. DEFINE q == [r EXCEPT ![t] = r[w] + 1]
  <2>4. /\ q \in [Task -> Nat]
        /\ q[t] = r[w] + 1
        /\ \A u \in Task : u # t => q[u] = r[u]
    BY <1>8
  <2> HIDE DEF q
  <2>5. ~Free(t)'
    BY <1>0, <1>2, <2>1, <2>2 DEF Free, Active
  <2>6. \A u \in Task : Host[u] = Host[t] /\ Busy(u) => r[u] <= r[w]
    BY <1>8, <2>1 DEF Ranked
  <2>7. ASSUME NEW u \in Task, NEW v \in Task,
               Host[u] = Host[v], Busy(u)', Busy(v)'
        PROVE  /\ q[u] = q[v] => u = v
               /\ Free(u)' => q[u] <= q[v]
               /\ tails'[Host[u]] = Id(u)' => q[v] <= q[u]
    <3>1. CASE u = t /\ v = t
      BY <2>4, <3>1
    <3>2. CASE u = t /\ v # t
      <4>1. r[v] <= r[w] /\ r[v] \in Nat /\ r[w] \in Nat
        BY <1>3, <1>8, <2>6, <2>7, <3>2
      <4> QED BY <2>4, <2>5, <3>2, <4>1
    <3>3. CASE u # t /\ v = t
      <4>1. r[u] <= r[w] /\ r[u] \in Nat /\ r[w] \in Nat
        BY <1>3, <1>8, <2>6, <2>7, <3>3
      <4>2. tails'[Host[u]] # Id(u)'
        BY <1>2, <1>9, <2>7, <3>3
      <4> QED BY <2>4, <3>3, <4>1, <4>2
    <3>4. CASE u # t /\ v # t
      <4>1. Busy(u) /\ Busy(v) /\ (Free(u)' <=> Free(u)) /\ q[u] = r[u] /\ q[v] = r[v]
        BY <1>3, <2>4, <2>7, <3>4
      <4>2. tails'[Host[u]] = Id(u)' => tails[Host[u]] = Id(u)
        BY <1>2, <1>3, <1>9, <2>7, <3>4
      <4> QED BY <1>8, <2>7, <4>1, <4>2 DEF Ranked
    <3> QED BY <3>1, <3>2, <3>3, <3>4
  <2>8. ASSUME NEW u \in Task, pc'[u] = "queued", prev'[u] \notin opened'
        PROVE  \E v \in Task : /\ Host[v] = Host[u] /\ Busy(v)'
                               /\ prev'[u] = Id(v)' /\ q[u] = q[v] + 1
    <3>1. CASE u = t
      BY <1>2, <1>3, <2>1, <2>2, <2>4, <3>1
    <3>2. CASE u # t
      <4>1. PICK v \in Task : /\ Host[v] = Host[u] /\ Busy(v)
                              /\ prev[u] = Id(v) /\ r[u] = r[v] + 1
        BY <1>0, <1>3, <1>8, <2>8, <3>2 DEF Ranked
      <4> QED BY <1>2, <1>3, <2>4, <3>2, <4>1
    <3> QED BY <3>1, <3>2
  <2>9. Ranked(q)'
    BY <2>7, <2>8 DEF Ranked
  <2> QED BY <1>6, <1>7, <2>4, <2>9 DEF Queue
<1> QED BY <1>10, <1>11

\* The task whose awaited gate is open starts its turn: it was first already.
LEMMA QueueStart ==
  ASSUME TypeOK, Queue, NEW t \in Task, Start(t)
  PROVE  Queue'
<1> USE DEF Acquiring, Holding
<1>0. /\ pc[t] = "queued" /\ prev[t] \in opened
      /\ pc' = [pc EXCEPT ![t] = "create"]
      /\ prev' = [prev EXCEPT ![t] = NoGate]
      /\ UNCHANGED <<tails, opened, calls>>
  BY DEF Start, At, Goto
<1>1. /\ pc \in [Task -> {"idle", "queued", "dead"} \cup Acquiring \cup Holding]
      /\ prev \in [Task -> Ids]
  BY DEF TypeOK
<1>2. /\ Busy(t) /\ Free(t) /\ Busy(t)' /\ Free(t)' /\ pc'[t] # "queued"
      /\ Id(t)' = Id(t)
  BY <1>0, <1>1 DEF Busy, Active, Free, Id
<1>3. \A u \in Task \ {t} : /\ Busy(u)' <=> Busy(u)
                            /\ Free(u)' <=> Free(u)
                            /\ pc'[u] = pc[u] /\ prev'[u] = prev[u]
                            /\ Id(u)' = Id(u)
  BY <1>0, <1>1 DEF Busy, Active, Free, Id
<1>4. Gates'
  BY <1>0, <1>2, <1>3 DEF Queue, Gates
<1>5. LastGate'
  BY <1>0, <1>2, <1>3 DEF Queue, LastGate
<1>6. ASSUME NEW r \in [Task -> Nat], Ranked(r)
      PROVE  Ranked(r)'
  BY <1>0, <1>2, <1>3, <1>6 DEF Ranked
<1> QED BY <1>4, <1>5, <1>6 DEF Queue

\* The finally block opens the gate and drops the tail if it is still its own:
\* only the next task of the line becomes free, and a tail is dropped only when
\* nobody is behind it.
LEMMA QueueEnds ==
  ASSUME TypeOK, Queue, NEW t \in Task, Ends(t)
  PROVE  Queue'
<1> USE DEF Acquiring, Holding
<1>0. /\ Active(t)
      /\ opened' = opened \cup {Id(t)}
      /\ tails' = [tails EXCEPT ![Host[t]] =
                     IF tails[Host[t]] = Id(t) THEN NoGate ELSE tails[Host[t]]]
      /\ pc' = [pc EXCEPT ![t] = "idle"]
      /\ UNCHANGED <<prev, calls>>
  BY DEF Ends, Finish, Goto
<1>1. /\ pc \in [Task -> {"idle", "queued", "dead"} \cup Acquiring \cup Holding]
      /\ tails \in [Proc -> Ids]
      /\ \A u \in Task : Host[u] \in Proc
  BY DEF TypeOK, Proc
<1>2. Busy(t) /\ Free(t) /\ ~Busy(t)' /\ ~Free(t)' /\ pc'[t] # "queued"
  BY <1>0, <1>1 DEF Busy, Active, Free
<1>3. \A u \in Task \ {t} : /\ Busy(u)' <=> Busy(u)
                            /\ Active(u)' <=> Active(u)
                            /\ pc'[u] = pc[u]
  BY <1>0, <1>1 DEF Busy, Active
<1>4. \A u \in Task : Id(u)' = Id(u) /\ (Id(u) = Id(t) => u = t)
  BY <1>0 DEF Id
<1>5. \A u \in Task : Host[u] # Host[t] => tails'[Host[u]] = tails[Host[u]]
  BY <1>0, <1>1
<1>6. \A u \in Task : Host[u] = Host[t] =>
        tails'[Host[u]] = IF tails[Host[t]] = Id(t) THEN NoGate ELSE tails[Host[t]]
  BY <1>0, <1>1
<1>7. Gates'
  <2>1. \A u \in Task, n \in Nat : n > calls[u] => [task |-> u, call |-> n] # Id(t)
    BY DEF Queue, Gates, Id
  <2> QED BY <1>0, <1>2, <1>3, <1>4, <2>1 DEF Queue, Gates
<1>8. PICK r \in [Task -> Nat] : Ranked(r)
  BY DEF Queue
\* t, being free, comes first.
<1>9. \A u \in Task : Host[u] = Host[t] /\ Busy(u) /\ u # t => r[u] >= r[t] + 1
  BY <1>2, <1>8 DEF Ranked
<1>10. LastGate'
  <2>1. ASSUME NEW u \in Task, Host[u] # Host[t]
        PROVE  /\ tails'[Host[u]] = NoGate => ~Busy(u)'
               /\ tails'[Host[u]] # NoGate =>
                    \E v \in Task : Host[v] = Host[u] /\ Busy(v)' /\ tails'[Host[u]] = Id(v)'
    BY <1>2, <1>3, <1>4, <1>5, <2>1 DEF Queue, LastGate
  <2>2. ASSUME NEW u \in Task, Host[u] = Host[t], tails[Host[t]] # Id(t)
        PROVE  /\ tails'[Host[u]] = NoGate => ~Busy(u)'
               /\ tails'[Host[u]] # NoGate =>
                    \E v \in Task : Host[v] = Host[u] /\ Busy(v)' /\ tails'[Host[u]] = Id(v)'
    BY <1>2, <1>3, <1>4, <1>6, <2>2 DEF Queue, LastGate
  \* The tail is t's own: t comes last as well as first.
  <2>3. ASSUME NEW u \in Task, Host[u] = Host[t], tails[Host[t]] = Id(t), u # t
        PROVE  ~Busy(u)
    <3>1. Busy(u) => r[u] <= r[t]
      BY <1>2, <1>8, <2>3 DEF Ranked
    <3> QED BY <1>8, <1>9, <2>3, <3>1
  <2> QED BY <1>2, <1>3, <1>6, <2>1, <2>2, <2>3 DEF LastGate
<1>11. ASSUME NEW u \in Task, NEW v \in Task, Host[u] = Host[v], Busy(u)', Busy(v)'
       PROVE  /\ r[u] = r[v] => u = v
              /\ Free(u)' => r[u] <= r[v]
              /\ tails'[Host[u]] = Id(u)' => r[v] <= r[u]
  <2>1. u # t /\ v # t /\ Busy(u) /\ Busy(v)
    BY <1>2, <1>3, <1>11
  <2>2. Free(u)' => r[u] <= r[v]
    <3>1. CASE Free(u)
      BY <1>8, <1>11, <2>1, <3>1 DEF Ranked
    <3>2. CASE ~Free(u) /\ Free(u)'
      <4>1. pc[u] = "queued" /\ prev[u] = Id(t) /\ prev[u] \notin opened
        BY <1>0, <1>3, <2>1, <3>2 DEF Free
      <4>2. Host[u] = Host[t] /\ r[u] = r[t] + 1
        BY <1>4, <1>8, <4>1 DEF Ranked
      <4>3. r[v] >= r[t] + 1
        BY <1>9, <1>11, <2>1, <4>2
      <4> QED BY <4>2, <4>3
    <3> QED BY <3>1, <3>2
  <2>3. tails'[Host[u]] = Id(u)' => tails[Host[u]] = Id(u)
    <3>1. Id(u) # NoGate
      BY <2>1 DEF Queue, Gates
    <3> QED BY <1>4, <1>5, <1>6, <3>1
  <2> QED BY <1>8, <1>11, <2>1, <2>2, <2>3 DEF Ranked
<1>12. ASSUME NEW u \in Task, pc'[u] = "queued", prev'[u] \notin opened'
       PROVE  \E v \in Task : /\ Host[v] = Host[u] /\ Busy(v)'
                              /\ prev'[u] = Id(v)' /\ r[u] = r[v] + 1
  <2>1. u # t /\ pc[u] = "queued" /\ prev[u] \notin opened /\ prev[u] # Id(t)
    BY <1>0, <1>2, <1>3, <1>12
  <2>2. PICK v \in Task : /\ Host[v] = Host[u] /\ Busy(v)
                          /\ prev[u] = Id(v) /\ r[u] = r[v] + 1
    BY <1>8, <2>1 DEF Ranked
  <2> QED BY <1>0, <1>3, <1>4, <2>1, <2>2
<1>13. Ranked(r)'
  BY <1>11, <1>12 DEF Ranked
<1> QED BY <1>7, <1>8, <1>10, <1>13 DEF Queue

\* A process that dies takes its whole chain with it and no other.
LEMMA QueueDies ==
  ASSUME Queue, NEW h \in Proc, Dies(h)
  PROVE  Queue'
<1>1. \A u \in Task : Host[u] = h => /\ ~Busy(u)' /\ ~Free(u)' /\ pc'[u] # "queued"
                                     /\ tails'[Host[u]] = NoGate
  BY DEF Dies, Busy, Free
<1>2. \A u \in Task : Host[u] # h => /\ Busy(u)' <=> Busy(u)
                                     /\ Free(u)' <=> Free(u)
                                     /\ pc'[u] = pc[u] /\ prev'[u] = prev[u]
                                     /\ tails'[Host[u]] = tails[Host[u]]
  BY DEF Dies, Busy, Free, Active
<1>3. /\ opened' = opened /\ calls' = calls
      /\ \A u \in Task : Id(u)' = Id(u)
  BY DEF Dies, Id
<1>4. Gates'
  BY <1>1, <1>2, <1>3 DEF Queue, Gates
<1>5. LastGate'
  BY <1>1, <1>2, <1>3 DEF Queue, LastGate
<1>6. ASSUME NEW r \in [Task -> Nat], Ranked(r)
      PROVE  Ranked(r)'
  BY <1>1, <1>2, <1>3, <1>6 DEF Ranked
<1> QED BY <1>4, <1>5, <1>6 DEF Queue

-----------------------------------------------------------------------------
\* The finally block keeps the types.
LEMMA FinishType ==
  ASSUME TypeOK, NEW t \in Task, Finish(t)
  PROVE  /\ tails' \in [Proc -> Ids]
         /\ opened' \subseteq Ids
         /\ pc' \in [Task -> {"idle", "queued", "dead"} \cup Acquiring \cup Holding]
<1>1. Id(t) \in Ids
  BY IdType DEF TypeOK, Id
<1> QED BY <1>1, NoGateType DEF Finish, Goto, TypeOK

\* A step keeps the types of the state and the owner of whatever was read.
LEMMA TypeStep ==
  ASSUME TypeOK, Queue, Owners, [Next]_vars
  PROVE  TypeOK' /\ Owners'
<1> USE DEF Acquiring, Holding, At, Goto
<1> DEFINE File == [by : Ids, written : BOOLEAN]
           Place == {"idle", "queued", "dead"} \cup Acquiring \cup Holding
<1>0. /\ tails \in [Proc -> Ids] /\ prev \in [Task -> Ids] /\ opened \subseteq Ids
      /\ carrier \in File /\ (carrier.by = NoGate => carrier = NoFile)
      /\ seen \in [Task -> File]
      /\ expired \subseteq Ids /\ alive \subseteq Proc
      /\ pc \in [Task -> Place]
      /\ \A t \in Task : calls[t] \in 0..MaxCalls[t]
  BY DEF TypeOK
<1>1. NoGate \in Ids /\ NoFile \in File /\ NoFile.by = NoGate
  BY NoGateType DEF NoFile
<1>2. \A t \in Task : Id(t) \in Ids
  BY <1>0, IdType DEF Id
<1>3. \A t \in Task : Host[t] \in Proc
  BY DEF Proc
<1>4. \A t \in Task : pc[t] \in Acquiring \cup Holding => calls[t] # 0 /\ Id(t) # NoGate
  BY DEF Queue, Gates, Busy, Active
<1> HIDE DEF File, Place
<1> DEFINE Kept ==
         /\ tails' \in [Proc -> Ids] /\ prev' \in [Task -> Ids] /\ opened' \subseteq Ids
         /\ carrier' \in File /\ (carrier'.by = NoGate => carrier' = NoFile)
         /\ seen' \in [Task -> File]
         /\ expired' \subseteq Ids /\ alive' \subseteq Proc
         /\ pc' \in [Task -> Place]
         /\ \A u \in Task : calls'[u] \in 0..MaxCalls[u]
         /\ \A u \in Task : seen'[u].by = NoGate => seen'[u] = NoFile
<1>5. SUFFICES Kept
  BY DEF TypeOK, Owners, File, Place, NoFile, NoGate, Ids, Proc
<1>6. \A u \in Task : seen[u].by = NoGate => seen[u] = NoFile
  BY DEF Owners
<1> USE DEF Place
<1>7. CASE UNCHANGED vars
  BY <1>0, <1>6, <1>7 DEF vars
<1>8. ASSUME NEW t \in Task, Enqueue(t)
      PROVE  Kept
  <2>0. /\ calls[t] < MaxCalls[t] /\ calls[t] \in Nat /\ MaxCalls[t] \in Nat
        /\ calls \in [Task -> Nat]
    BY <1>8, MaxCallsAssumption DEF Enqueue, Queue, Gates
  <2>1. calls[t] + 1 \in 0..MaxCalls[t] /\ calls \in [Task -> Nat]
    BY <2>0
  <2>2. Id(t)' \in Ids
    BY <1>8, <2>1, IdType DEF Enqueue, Id
  <2> QED BY <1>0, <1>3, <1>6, <1>8, <2>1, <2>2 DEF Enqueue
<1>9. ASSUME NEW t \in Task, Finish(t)
      PROVE  tails' \in [Proc -> Ids] /\ opened' \subseteq Ids /\ pc' \in [Task -> Place]
  BY <1>9, FinishType
<1>10. ASSUME NEW t \in Task, Forget(t)
       PROVE  /\ seen' \in [Task -> File]
              /\ \A u \in Task : seen'[u].by = NoGate => seen'[u] = NoFile
  BY <1>0, <1>1, <1>6, <1>10 DEF Forget
<1>11. ASSUME NEW t \in Task, Step(t)
       PROVE  Kept
  <2>1. CASE Start(t)
    BY <1>0, <1>1, <1>6, <2>1 DEF Start
  <2>2. CASE Create(t)
    <3>1. [by |-> Id(t), written |-> FALSE] \in File /\ Id(t) # NoGate
      BY <1>2, <1>4, <2>2 DEF Create, File
    <3>2. CASE carrier = NoFile
      <4>1. carrier' = [by |-> Id(t), written |-> FALSE] /\ pc' = [pc EXCEPT ![t] = "write"]
        BY <2>2, <3>2 DEF Create
      <4>2. carrier'.by = Id(t)
        BY <4>1
      <4> QED BY <1>0, <1>6, <2>2, <3>1, <4>1, <4>2 DEF Create
    <3>3. CASE carrier # NoFile
      BY <1>0, <1>6, <2>2, <3>3 DEF Create
    <3> QED BY <3>2, <3>3
  <2>3. CASE Write(t)
    <3>1. Written(t) \in File /\ (Written(t).by = NoGate => Written(t) = NoFile)
      BY <1>4, <2>3, WrittenType DEF Write, File
    <3> QED BY <1>0, <1>6, <2>3, <3>1 DEF Write
  <2>4. CASE Read(t)
    BY <1>0, <1>6, <2>4 DEF Read
  <2>5. CASE Exists(t)
    BY <1>0, <1>1, <1>6, <1>9, <1>10, <2>5 DEF Exists
  <2>6. CASE Decide(t)
    <3>1. UNCHANGED <<prev, carrier, expired, alive, calls>> /\ Forget(t)
      BY <2>6 DEF Decide
    <3>2. CASE Finish(t)
      BY <1>0, <1>9, <1>10, <3>1, <3>2
    <3>3. CASE /\ UNCHANGED <<tails, opened>>
               /\ Goto(t, "create") \/ Goto(t, "rename")
      BY <1>0, <1>10, <3>1, <3>3
    <3> QED BY <2>6, <3>2, <3>3 DEF Decide
  <2>7. CASE Rename(t)
    BY <1>0, <1>1, <1>6, <2>7 DEF Rename
  <2>8. CASE Leave(t)
    BY <1>0, <1>6, <2>8 DEF Leave
  <2>9. CASE Verify(t)
    BY <1>0, <1>6, <1>9, <2>9 DEF Verify
  <2>10. CASE Unlink(t)
    BY <1>0, <1>1, <1>6, <1>9, <2>10 DEF Unlink
  <2> QED BY <1>11, <2>1, <2>2, <2>3, <2>4, <2>5, <2>6, <2>7, <2>8, <2>9, <2>10 DEF Step
<1>12. ASSUME NEW t \in Task, WriteFails(t)
       PROVE  Kept
  <2>1. Written(t) \in File /\ (Written(t).by = NoGate => Written(t) = NoFile)
    BY <1>4, <1>12, WrittenType DEF WriteFails, File
  <2> QED BY <1>0, <1>6, <1>9, <1>12, <2>1 DEF WriteFails
<1>13. ASSUME NEW t \in Task, Expire(t)
       PROVE  Kept
  BY <1>0, <1>2, <1>6, <1>13 DEF Expire
<1>14. ASSUME NEW h \in Proc, Crash(h)
       PROVE  Kept
  <2>1. /\ alive' \subseteq Proc
        /\ pc' = [t \in Task |-> IF Host[t] = h THEN "dead" ELSE pc[t]]
        /\ prev' = [t \in Task |-> IF Host[t] = h THEN NoGate ELSE prev[t]]
        /\ seen' = [t \in Task |-> IF Host[t] = h THEN NoFile ELSE seen[t]]
        /\ tails' = [tails EXCEPT ![h] = NoGate]
        /\ UNCHANGED <<opened, carrier, expired, calls>>
    BY <1>0, <1>14 DEF Crash
  <2> QED BY <1>0, <1>1, <1>6, <2>1
<1>15. ASSUME NEW t \in Task, Throws(t)
       PROVE  Kept
  BY <1>0, <1>6, <1>9, <1>15 DEF Throws
<1> QED BY <1>7, <1>8, <1>11, <1>12, <1>13, <1>14, <1>15 DEF Next

\* Until a process dies or a window elapses, a file is only ever removed by the
\* task that created it: every owner that a reader finds is alive.
LEMMA PossessionStep ==
  ASSUME TypeOK, Queue, Owners, Possession, [Next]_vars
  PROVE  Possession'
<1> USE DEF Acquiring, Holding, At, Goto
<1>0. /\ pc \in [Task -> {"idle", "queued", "dead"} \cup Acquiring \cup Holding]
      /\ carrier \in [by : Ids, written : BOOLEAN]
      /\ carrier.by = NoGate => carrier = NoFile
      /\ seen \in [Task -> [by : Ids, written : BOOLEAN]]
      /\ alive \subseteq Proc
  BY DEF TypeOK
<1> DEFINE Kept == \A u \in Task :
                     /\ pc'[u] # "rename"
                     /\ pc'[u] \in {"write"} \cup Holding => carrier'.by = Id(u)'
<1>1. SUFFICES ASSUME alive' = Proc, expired' = {}
               PROVE  Kept
  BY DEF Possession, Proc
<1>2. alive = Proc /\ expired = {} /\ \A h \in Proc : ~Crash(h)
  <2>1. ASSUME NEW h \in Proc, Crash(h)
        PROVE  FALSE
    BY <1>1, <2>1 DEF Crash
  <2>2. alive' = alive /\ expired \subseteq expired'
    BY <2>1 DEF Next, Enqueue, Step, Start, Create, Write, Read, Exists, Decide,
          Rename, Leave, Verify, Unlink, WriteFails, Throws, Expire, vars
  <2> QED BY <1>1, <2>1, <2>2
<1>3. \A u \in Task : /\ pc[u] # "rename"
                      /\ pc[u] \in {"write"} \cup Holding => carrier.by = Id(u)
  BY <1>2 DEF Possession
<1>4. \A u, v \in Task : Id(u) = Id(v) => u = v
  BY DEF Id
\* Two tasks never possess the file at once.
<1>5. \A u, v \in Task : /\ pc[u] \in {"write"} \cup Holding
                         /\ pc[v] \in {"write"} \cup Holding
                         => u = v
  BY <1>3, <1>4
<1>6. \A u \in Task : pc[u] \in {"write"} \cup Holding => Id(u) # NoGate
  BY DEF Queue, Gates, Busy, Active
<1>7. CASE UNCHANGED vars
  BY <1>3, <1>7 DEF vars, Id
<1>8. ASSUME NEW t \in Task, Enqueue(t)
      PROVE  Kept
  <2>1. /\ pc[t] = "idle" /\ pc' = [pc EXCEPT ![t] = "queued"]
        /\ calls' = [calls EXCEPT ![t] = calls[t] + 1] /\ carrier' = carrier
        /\ calls \in [Task -> Nat]
    BY <1>8 DEF Enqueue, Queue, Gates
  <2>2. \A u \in Task : u # t => Id(u)' = Id(u)
    BY <2>1 DEF Id
  <2> QED BY <1>0, <1>3, <2>1, <2>2
<1>9. ASSUME NEW t \in Task, Step(t) \/ WriteFails(t) \/ Throws(t) \/ Expire(t)
      PROVE  Kept
  <2>0. \A u \in Task : Id(u)' = Id(u)
    BY <1>9 DEF Step, Start, Create, Write, Read, Exists, Decide,
          Rename, Leave, Verify, Unlink, WriteFails, Throws, Expire, Id
  <2>1. ASSUME Finish(t), carrier'.by = carrier.by
        PROVE  Kept
    BY <1>0, <1>3, <2>0, <2>1 DEF Finish
  <2>2. CASE Start(t)
    BY <1>0, <1>3, <2>0, <2>2 DEF Start
  <2>3. CASE Create(t)
    <3>1. CASE carrier = NoFile
      <4>1. /\ carrier' = [by |-> Id(t), written |-> FALSE]
            /\ pc' = [pc EXCEPT ![t] = "write"]
        BY <2>3, <3>1 DEF Create
      <4>2. \A u \in Task : pc[u] \notin {"write"} \cup Holding
        BY <1>3, <1>6, <3>1 DEF NoFile
      <4> QED BY <1>0, <1>3, <2>0, <4>1, <4>2
    <3>2. CASE carrier # NoFile
      BY <1>0, <1>3, <2>0, <2>3, <3>2 DEF Create
    <3> QED BY <3>1, <3>2
  <2>4. CASE Write(t)
    <3>1. Written(t).by = carrier.by
      BY <2>4, WrittenType DEF Write, Queue, Gates, Busy, Active
    <3> QED BY <1>0, <1>3, <2>0, <2>4, <3>1 DEF Write
  <2>5. CASE WriteFails(t)
    <3>1. Written(t).by = carrier.by
      BY <2>5, WrittenType DEF WriteFails, Queue, Gates, Busy, Active
    <3> QED BY <2>1, <2>5, <3>1 DEF WriteFails
  <2>6. CASE Read(t)
    BY <1>0, <1>3, <2>0, <2>6 DEF Read
  <2>7. CASE Exists(t)
    <3>1. CASE carrier = NoFile
      BY <1>0, <1>3, <2>0, <2>7, <3>1 DEF Exists
    <3>2. CASE carrier # NoFile
      BY <2>1, <2>7, <3>2 DEF Exists
    <3> QED BY <3>1, <3>2
  <2>8. CASE Decide(t)
    \* Everybody is alive and nobody is late: no take-over.
    <3>1. seen[t] = NoFile \/ Alive(seen[t].by.task)
      <4>1. CASE seen[t].by = NoGate
        BY <4>1 DEF Owners
      <4>2. CASE seen[t].by # NoGate
        <5>1. seen[t].by.task \in Task
          BY <1>0, <4>2 DEF Ids
        <5> QED BY <1>2, <5>1 DEF Alive, Proc
      <4> QED BY <4>1, <4>2
    <3>2. carrier' = carrier /\ pc[t] = "decide"
      BY <2>8 DEF Decide
    <3>3. Finish(t) \/ Goto(t, "create")
      BY <1>2, <2>8, <3>1 DEF Decide
    <3>4. CASE Finish(t)
      BY <2>1, <3>2, <3>4
    <3>5. CASE Goto(t, "create")
      BY <1>0, <1>3, <2>0, <3>2, <3>5
    <3> QED BY <3>3, <3>4, <3>5
  <2>9. CASE Rename(t)
    BY <1>3, <2>9 DEF Rename
  <2>10. CASE Leave(t)
    BY <1>0, <1>3, <2>0, <2>10 DEF Leave
  <2>11. CASE Verify(t)
    <3>1. CASE Finish(t)
      BY <2>1, <2>11, <3>1 DEF Verify
    <3>2. CASE Goto(t, "unlink")
      BY <1>0, <1>3, <2>0, <2>11, <3>2 DEF Verify
    <3> QED BY <2>11, <3>1, <3>2 DEF Verify
  <2>12. CASE Unlink(t)
    <3>1. pc[t] = "unlink" /\ pc' = [pc EXCEPT ![t] = "idle"]
      BY <2>12 DEF Unlink, Finish
    <3>2. \A u \in Task : pc'[u] \notin {"write"} \cup Holding
      BY <1>0, <1>5, <3>1
    <3> QED BY <1>0, <1>3, <3>1, <3>2
  <2>13. CASE Expire(t)
    BY <1>3, <2>0, <2>13 DEF Expire
  <2>14. CASE Throws(t)
    BY <2>1, <2>14 DEF Throws
  <2> QED BY <1>9, <2>2, <2>3, <2>4, <2>5, <2>6, <2>7, <2>8, <2>9, <2>10, <2>11,
             <2>12, <2>13, <2>14 DEF Step
<1> QED BY <1>2, <1>7, <1>8, <1>9 DEF Next

-----------------------------------------------------------------------------
\* Inv holds in every state the lock reaches.
LEMMA Invariance == Spec => []Inv
<1>1. Init => Inv
  <2> SUFFICES ASSUME Init PROVE Inv
    OBVIOUS
  <2> USE DEF Init, Acquiring, Holding
  <2>1. TypeOK
    <3>1. NoFile \in [by : Ids, written : BOOLEAN] /\ NoGate \in Ids
      BY NoGateType DEF NoFile
    <3>2. ASSUME NEW t \in Task
          PROVE  0 \in 0..MaxCalls[t]
      <4>1. MaxCalls[t] \in Nat
        BY MaxCallsAssumption
      <4> QED BY <4>1
    <3> QED BY <3>1, <3>2 DEF TypeOK
  <2>2. \A t \in Task : ~Busy(t) /\ pc[t] = "idle"
    BY DEF Busy, Active
  <2>3. Gates
    BY <2>2 DEF Gates, NoGate
  <2>4. LastGate
    <3>1. \A t \in Task : tails[Host[t]] = NoGate
      BY DEF Proc
    <3> QED BY <2>2, <3>1 DEF LastGate
  <2>5. \A r : Ranked(r)
    BY <2>2 DEF Ranked
  <2>6. [t \in Task |-> 0] \in [Task -> Nat]
    OBVIOUS
  <2>7. Owners /\ Possession
    BY <2>2 DEF Owners, Possession, NoFile
  <2> QED BY <2>1, <2>3, <2>4, <2>5, <2>6, <2>7 DEF Inv, Queue
<1>2. Inv /\ [Next]_vars => Inv'
  <2> SUFFICES ASSUME Inv, [Next]_vars PROVE Inv'
    OBVIOUS
  <2>1. TypeOK /\ Queue /\ Owners /\ Possession
    BY DEF Inv
  <2>2. TypeOK' /\ Owners'
    BY <2>1, TypeStep
  <2>3. Queue'
    BY <2>1, ChainView, QueueInside, QueueEnqueue, QueueStart, QueueEnds, QueueDies
  <2>4. Possession'
    BY <2>1, PossessionStep
  <2> QED BY <2>2, <2>3, <2>4 DEF Inv
<1> QED BY <1>1, <1>2, PTL DEF Spec

\* The lock file, the tails map and the locals of withLock and acquire keep
\* their types.
THEOREM TypeCorrect == Spec => []TypeOK
<1>1. Inv => TypeOK
  BY DEF Inv
<1> QED BY <1>1, Invariance, PTL

\* InProcessLock.withLock: for any number of tasks and calls, two tasks of one
\* process are never past the promise chain together.
THEOREM ChainExclusive == Spec => []OnePerProcess
<1>1. Inv => OnePerProcess
  <2> SUFFICES ASSUME Inv, NEW t \in Task, NEW u \in Task, Host[t] = Host[u],
                      pc[t] \in Acquiring \cup Holding, pc[u] \in Acquiring \cup Holding
               PROVE  t = u
    BY DEF OnePerProcess
  <2>1. Free(t) /\ Free(u) /\ Busy(t) /\ Busy(u)
    BY DEF Free, Busy, Active
  <2>2. PICK r \in [Task -> Nat] : Ranked(r)
    BY DEF Inv, Queue
  <2>3. r[t] <= r[u] /\ r[u] <= r[t]
    BY <2>1, <2>2 DEF Ranked
  <2> QED BY <2>1, <2>2, <2>3 DEF Ranked
<1> QED BY <1>1, Invariance, PTL

\* FileSystemLock.withLock: as long as no process has died and no wait has
\* outlasted its window, one caller at a time runs the locked function, in
\* whatever process.
THEOREM FileExclusive == Spec => []ExclusiveWithoutRecovery
<1>1. Inv => ExclusiveWithoutRecovery
  <2> SUFFICES ASSUME Inv, alive = Proc, expired = {},
                      NEW t \in Task, NEW u \in Task, InCS(t), InCS(u)
               PROVE  t = u
    BY DEF ExclusiveWithoutRecovery, Exclusive
  <2>1. carrier.by = Id(t) /\ carrier.by = Id(u)
    BY DEF Inv, Possession, InCS, Holding
  <2> QED BY <2>1 DEF Id
<1> QED BY <1>1, Invariance, PTL
===============================================================================
