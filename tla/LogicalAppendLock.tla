------------------------- MODULE LogicalAppendLock -------------------------
(***************************************************************************)
(* withLogicalAppendLock (src/src/spine/logical_append_lock.ts): the       *)
(* synchronous cross-process lock around every append to a spine file.     *)
(*                                                                         *)
(* The lock is a directory of sidecar files.  Slot s is held by whoever    *)
(* hard-links its candidate to owner-s.  Nobody removes another process's  *)
(* carrier: when the owner of slot s is dead the slot is fenced by the     *)
(* file retired-s, certified empty by drained-s, and the contenders move   *)
(* to slot s + 1.  The file floor is an unsynchronised hint to the last    *)
(* drained slot.  Every file operation is one step; a process may die      *)
(* between any two of them.                                                *)
(***************************************************************************)
EXTENDS Integers

CONSTANTS
  Proc,      \* operating-system processes (one calling thread each)
  MaxSlot,   \* the last generation: Number.MAX_SAFE_INTEGER in the code
  MaxCalls   \* bound: calls of withLogicalAppendLock per process

ASSUME ProcAssumption == "none" \notin Proc
ASSUME MaxSlotAssumption == MaxSlot \in Nat
ASSUME MaxCallsAssumption == MaxCalls \in Nat

VARIABLES
  owner,     \* owner[s]: the token in owner-s, or NoOwner when it is absent
  retired,   \* slots with a retired-s marker
  drained,   \* slots with a drained-s marker
  floor,     \* content of the floor file, NoFloor when it is absent
  alive,     \* processes that have not died
  pc,        \* where each process is in the loop
  slot,      \* local variable slot of each process
  seen,      \* owner token the process has just read
  calls      \* calls made so far; makes the token of each call fresh

vars == <<owner, retired, drained, floor, alive, pc, slot, seen, calls>>

Slot == 0..MaxSlot
NoOwner == [proc |-> "none", call |-> 0]
NoFloor == -1

\* The owner record of process p's current call: its random token and its
\* pid/boot/start identity, which is what dead() looks at.
Token(p) == [proc |-> p, call |-> calls[p]]
Tokens == [proc : Proc, call : 0..MaxCalls]

\* Mutant of Dead: an owner that outlives the waiter's patience is stolen.
DeadOnTimeout(t) == TRUE

\* dead(owner): the recorded process is gone from this host.
Dead(t) == t.proc \notin alive

\* hintedSlot(): the slot after a floor that is both retired and drained, or 0.
HintedSlot ==
  IF floor \in Slot /\ floor < MaxSlot /\ floor \in retired /\ floor \in drained
    THEN floor + 1 ELSE 0

\* Control points at which p's carrier is linked at owner-slot.
Holding == {"check", "cs", "release", "unlink"}
\* Control points of a call that holds nothing.
Trying == {"scan", "test", "drain", "certify", "floor", "temp", "rename",
           "advance", "link", "inspect", "judge", "recheck", "fence"}

Init ==
  /\ owner = [s \in Slot |-> NoOwner]
  /\ retired = {}
  /\ drained = {}
  /\ floor = NoFloor
  /\ alive = Proc
  /\ pc = [p \in Proc |-> "idle"]
  /\ slot = [p \in Proc |-> 0]
  /\ seen = [p \in Proc |-> NoOwner]
  /\ calls = [p \in Proc |-> 0]

At(p, l) == p \in alive /\ pc[p] = l
Goto(p, l) == pc' = [pc EXCEPT ![p] = l]
\* The owner read after EEXIST belongs to one turn of the loop.
Forget(p) == seen' = [seen EXCEPT ![p] = NoOwner]

\* A call creates its candidate and starts at the hinted slot.
Call(p) ==
  /\ At(p, "idle")
  /\ calls[p] < MaxCalls
  /\ calls' = [calls EXCEPT ![p] = @ + 1]
  /\ slot' = [slot EXCEPT ![p] = HintedSlot]
  /\ Goto(p, "scan")
  /\ UNCHANGED <<owner, retired, drained, floor, alive, seen>>

\* Head of the loop: reconsult the hint ...
Scan(p) ==
  /\ At(p, "scan")
  /\ slot' = [slot EXCEPT ![p] = IF HintedSlot > @ THEN HintedSlot ELSE @]
  /\ Goto(p, "test")
  /\ UNCHANGED <<owner, retired, drained, floor, alive, seen, calls>>

\* ... then test for the fence.
TestFence(p) ==
  /\ At(p, "test")
  /\ Goto(p, IF slot[p] \in retired THEN "drain" ELSE "link")
  /\ UNCHANGED <<owner, retired, drained, floor, alive, slot, seen, calls>>

\* Mutant of Drain: any carrier behind the fence is waited for.
DrainWaitsForDead(p) ==
  /\ At(p, "drain")
  /\ Goto(p, IF owner[slot[p]] # NoOwner THEN "scan" ELSE "certify")
  /\ UNCHANGED <<owner, retired, drained, floor, alive, slot, seen, calls>>

\* Reread the owner behind the fence; a live one is waited for.
Drain(p) ==
  /\ At(p, "drain")
  /\ LET o == owner[slot[p]]
     IN  Goto(p, IF o # NoOwner /\ ~Dead(o) THEN "scan" ELSE "certify")
  /\ UNCHANGED <<owner, retired, drained, floor, alive, slot, seen, calls>>

\* marker(drained-slot)
Certify(p) ==
  /\ At(p, "certify")
  /\ drained' = drained \cup {slot[p]}
  /\ Goto(p, "floor")
  /\ UNCHANGED <<owner, retired, floor, alive, slot, seen, calls>>

\* The floor is only raised past the slot the hint already certifies, which
\* is tested before and after the temporary file is written...
TestFloor(p) ==
  /\ At(p, "floor") \/ At(p, "temp")
  /\ Goto(p, IF HintedSlot > slot[p] THEN "advance"
              ELSE IF pc[p] = "floor" THEN "temp" ELSE "rename")
  /\ UNCHANGED <<owner, retired, drained, floor, alive, slot, seen, calls>>

\* ...but the rename is not a compare-and-swap: a lower one can win.
RenameFloor(p) ==
  /\ At(p, "rename")
  /\ floor' = slot[p]
  /\ Goto(p, "advance")
  /\ UNCHANGED <<owner, retired, drained, alive, slot, seen, calls>>

\* slot++, or "logical append generation exhausted" on the last one.
Advance(p) ==
  /\ At(p, "advance")
  /\ IF slot[p] = MaxSlot
       THEN Goto(p, "idle") /\ UNCHANGED slot
       ELSE Goto(p, "scan") /\ slot' = [slot EXCEPT ![p] = @ + 1]
  /\ UNCHANGED <<owner, retired, drained, floor, alive, seen, calls>>

\* linkSync(candidate, owner-slot): atomic, fails with EEXIST.
Link(p) ==
  /\ At(p, "link")
  /\ IF owner[slot[p]] = NoOwner
       THEN Goto(p, "check") /\ owner' = [owner EXCEPT ![slot[p]] = Token(p)]
       ELSE Goto(p, "inspect") /\ UNCHANGED owner
  /\ UNCHANGED <<retired, drained, floor, alive, slot, seen, calls>>

\* EEXIST: read the owner; a carrier that has gone sends p back to the head.
Inspect(p) ==
  /\ At(p, "inspect")
  /\ seen' = [seen EXCEPT ![p] = owner[slot[p]]]
  /\ Goto(p, IF owner[slot[p]] = NoOwner THEN "scan" ELSE "judge")
  /\ UNCHANGED <<owner, retired, drained, floor, alive, slot, calls>>

\* dead(owner), some time after the read: the owner may have released and
\* exited in between.
Judge(p) ==
  /\ At(p, "judge")
  /\ IF Dead(seen[p])
       THEN Goto(p, "recheck") /\ UNCHANGED seen
       ELSE Goto(p, "scan") /\ Forget(p)
  /\ UNCHANGED <<owner, retired, drained, floor, alive, slot, calls>>

\* Fence only if the dead owner's carrier is still the one in the slot.
Recheck(p) ==
  /\ At(p, "recheck")
  /\ IF owner[slot[p]] = seen[p]
       THEN Goto(p, "fence") /\ UNCHANGED seen
       ELSE Goto(p, "scan") /\ Forget(p)
  /\ UNCHANGED <<owner, retired, drained, floor, alive, slot, calls>>

\* Mutant of Fence: the contender also clears away the dead owner's carrier.
FenceRemoves(p) ==
  /\ At(p, "fence")
  /\ retired' = retired \cup {slot[p]}
  /\ owner' = [owner EXCEPT ![slot[p]] = NoOwner]
  /\ Goto(p, "scan")
  /\ UNCHANGED <<drained, floor, alive, slot, seen, calls>>

\* marker(retired-slot)
Fence(p) ==
  /\ At(p, "fence")
  /\ retired' = retired \cup {slot[p]}
  /\ Goto(p, "scan")
  /\ Forget(p)
  /\ UNCHANGED <<owner, drained, floor, alive, slot, calls>>

\* The entry test of a fresh link: withdraw from a fenced slot, else enter.
Check(p) ==
  /\ At(p, "check")
  /\ IF slot[p] \in retired
       THEN Goto(p, "scan") /\ owner' = [owner EXCEPT ![slot[p]] = NoOwner]
       ELSE Goto(p, "cs") /\ UNCHANGED owner
  /\ UNCHANGED <<retired, drained, floor, alive, slot, seen, calls>>

\* The directory sync after the link fails: the finally block releases.
SyncFails(p) ==
  /\ At(p, "check")
  /\ Goto(p, "release")
  /\ UNCHANGED <<owner, retired, drained, floor, alive, slot, seen, calls>>

\* fn() returns or throws.
Leave(p) ==
  /\ At(p, "cs")
  /\ Goto(p, "release")
  /\ UNCHANGED <<owner, retired, drained, floor, alive, slot, seen, calls>>

\* The finally block: compare the carrier's token ...
Verify(p) ==
  /\ At(p, "release")
  /\ Goto(p, IF owner[slot[p]] = Token(p) THEN "unlink" ELSE "idle")
  /\ UNCHANGED <<owner, retired, drained, floor, alive, slot, seen, calls>>

\* ... and remove it.
Unlink(p) ==
  /\ At(p, "unlink")
  /\ owner' = [owner EXCEPT ![slot[p]] = NoOwner]
  /\ Goto(p, "idle")
  /\ UNCHANGED <<retired, drained, floor, alive, slot, seen, calls>>

\* A deadline (contention or scan limit), an owner whose liveness cannot be
\* verified, or an I/O error ends a call that holds nothing.
GiveUp(p) ==
  /\ p \in alive
  /\ pc[p] \in Trying
  /\ Goto(p, "idle")
  /\ Forget(p)
  /\ UNCHANGED <<owner, retired, drained, floor, alive, slot, calls>>

\* The process dies with its memory; its carriers stay in the directory.
Crash(p) ==
  /\ p \in alive
  /\ alive' = alive \ {p}
  /\ Goto(p, "idle")
  /\ slot' = [slot EXCEPT ![p] = 0]
  /\ Forget(p)
  /\ UNCHANGED <<owner, retired, drained, floor, calls>>

\* One step of the code of a call in progress.
Step(p) ==
  \/ Scan(p) \/ TestFence(p) \/ Drain(p) \/ Certify(p) \/ TestFloor(p)
  \/ RenameFloor(p) \/ Advance(p) \/ Link(p) \/ Inspect(p) \/ Judge(p) \/ Recheck(p)
  \/ Fence(p) \/ Check(p) \/ Leave(p) \/ Verify(p) \/ Unlink(p)

Next ==
  \E p \in Proc : Call(p) \/ Step(p) \/ SyncFails(p) \/ GiveUp(p) \/ Crash(p)

Spec == Init /\ [][Next]_vars

\* A live process keeps running its synchronous code.
FairSpec == Spec /\ \A p \in Proc : WF_vars(Step(p))

-----------------------------------------------------------------------------
Labels == {"idle"} \cup Trying \cup Holding

\* Every variable keeps the shape the sidecar directory and the local
\* variables of withLogicalAppendLock have.
TypeOK ==
  /\ owner \in [Slot -> Tokens \cup {NoOwner}]
  /\ retired \subseteq Slot
  /\ drained \subseteq Slot
  /\ floor \in Slot \cup {NoFloor}
  /\ alive \subseteq Proc
  /\ pc \in [Proc -> Labels]
  /\ slot \in [Proc -> Slot]
  /\ seen \in [Proc -> Tokens \cup {NoOwner}]
  /\ calls \in [Proc -> 0..MaxCalls]

\* A drained certificate covers every generation below it.
CertifiedBelow(s) == \A t \in Slot : t < s => t \in drained

\* Why the generations are safe to skip, as an inductive invariant: a fence
\* stands only over a dead owner ("an ordinary release followed by process exit
\* must not burn a slot"), a certificate only over a fence, both the
\* floor and every process's slot only above certified generations, and
\* nothing but its live owner takes a carrier away.
GenerationsSafe ==
  /\ \A s \in retired : owner[s] # NoOwner /\ Dead(owner[s])
  /\ drained \subseteq retired
  /\ \A s \in drained : CertifiedBelow(s)
  /\ floor \in Slot => floor \in drained
  /\ \A p \in Proc :
       /\ CertifiedBelow(slot[p])
       /\ pc[p] \in {"drain", "certify"} => slot[p] \in retired
       /\ pc[p] \in {"floor", "temp", "rename", "advance"} => slot[p] \in drained
       /\ pc[p] \in {"judge", "recheck", "fence"} => seen[p] # NoOwner
       /\ pc[p] \in {"recheck", "fence"} => Dead(seen[p])
       /\ pc[p] = "fence" => owner[slot[p]] = seen[p]
       /\ p \in alive /\ pc[p] \in Holding => owner[slot[p]] = Token(p)

InCS(p) == p \in alive /\ pc[p] = "cs"

\* "Serialize a complete FileSpineStore logical write": two live processes
\* never run fn() at once, whatever died before.
MutualExclusion == \A p, q \in Proc : InCS(p) /\ InCS(q) => p = q

\* "a fence alone does NOT permit skipping an owner": a live holder is never
\* below the slot that the floor file sends new callers to, although the
\* floor is written without synchronisation.
HintNeverSkipsHolder ==
  \A p \in alive : pc[p] \in {"cs", "release", "unlink"} => slot[p] >= HintedSlot

\* "Only an owner removes its own carrier": a carrier leaves its slot only
\* by a step of the live process that linked it, never by a contender.
OnlyOwnerRemoves ==
  [][\A s \in Slot : owner[s] # NoOwner /\ owner'[s] # owner[s]
        => /\ owner'[s] = NoOwner
           /\ owner[s].proc \in alive
           /\ pc'[owner[s].proc] # pc[owner[s].proc]]_vars

\* A dead owner never wedges the lock: while some process keeps trying,
\* someone gets in, or every trying process gives up or dies.
Progress ==
  (\E p \in alive : pc[p] \in Trying)
    ~> (\/ \E p \in alive : pc[p] = "cs"
        \/ \A p \in alive : pc[p] \notin Trying)

=============================================================================
