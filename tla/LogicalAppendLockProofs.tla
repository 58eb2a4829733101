---------------------- MODULE LogicalAppendLockProofs ----------------------
(***************************************************************************)
(* Proofs about LogicalAppendLock for any set of processes, any number of  *)
(* generations and any number of calls.                                    *)
(***************************************************************************)
EXTENDS LogicalAppendLock, TLAPS

\* hintedSlot() is a slot: the floor is refused at the last generation.
LEMMA HintIsSlot == TypeOK => HintedSlot \in Slot
BY MaxSlotAssumption DEF TypeOK, HintedSlot, Slot

\* Every step of every process keeps the type invariant.
LEMMA TypeStep ==
  ASSUME TypeOK, NEW p \in Proc,
         Call(p) \/ Step(p) \/ SyncFails(p) \/ GiveUp(p) \/ Crash(p)
  PROVE  TypeOK'
<1> USE ProcAssumption, MaxSlotAssumption, MaxCallsAssumption
<1> USE DEF TypeOK, At, Goto, Forget, Labels, Trying, Holding
<1>hint. HintedSlot \in Slot
  BY HintIsSlot
<1>1. CASE Call(p)
  BY <1>1, <1>hint DEF Call
<1>2. CASE Scan(p)
  BY <1>2, <1>hint DEF Scan
<1>3. CASE TestFence(p)
  BY <1>3 DEF TestFence
<1>4. CASE Drain(p)
  BY <1>4 DEF Drain
<1>5. CASE Certify(p)
  BY <1>5 DEF Certify
<1>6. CASE TestFloor(p)
  BY <1>6 DEF TestFloor
<1>7. CASE RenameFloor(p)
  BY <1>7 DEF RenameFloor
<1>8. CASE Advance(p)
  <2>1. slot[p] # MaxSlot => slot[p] + 1 \in Slot
    <3>1. slot[p] \in Slot
      OBVIOUS
    <3>2. QED BY <3>1 DEF Slot
  <2>2. QED BY <1>8, <2>1 DEF Advance
<1>9. CASE Link(p)
  <2>1. owner' \in [Slot -> Tokens \cup {NoOwner}]
    BY <1>9 DEF Link, Token, Tokens
  <2>2. QED BY <1>9, <2>1 DEF Link
<1>10. CASE Inspect(p)
  BY <1>10 DEF Inspect
<1>11. CASE Judge(p)
  BY <1>11 DEF Judge
<1>12. CASE Recheck(p)
  BY <1>12 DEF Recheck
<1>13. CASE Fence(p)
  BY <1>13 DEF Fence
<1>14. CASE Check(p)
  BY <1>14 DEF Check
<1>15. CASE SyncFails(p)
  BY <1>15 DEF SyncFails
<1>16. CASE Leave(p)
  BY <1>16 DEF Leave
<1>17. CASE Verify(p)
  BY <1>17 DEF Verify
<1>18. CASE Unlink(p)
  BY <1>18 DEF Unlink
<1>19. CASE GiveUp(p)
  BY <1>19 DEF GiveUp
<1>20. CASE Crash(p)
  BY <1>20 DEF Crash, Slot
<1> QED
  BY <1>1, <1>2, <1>3, <1>4, <1>5, <1>6, <1>7, <1>8, <1>9, <1>10, <1>11,
     <1>12, <1>13, <1>14, <1>15, <1>16, <1>17, <1>18, <1>19, <1>20
  DEF Step

\* The sidecar directory and the local variables keep their shape: Advance
\* refuses the generation after the last one instead of overflowing it.
THEOREM TypeCorrect == Spec => []TypeOK
<1>1. Init => TypeOK
  BY MaxSlotAssumption, MaxCallsAssumption
  DEF Init, TypeOK, Slot, NoOwner, NoFloor, Labels, Tokens
<1>2. TypeOK /\ [Next]_vars => TypeOK'
  <2>1. ASSUME TypeOK, Next PROVE TypeOK'
    BY <2>1, TypeStep DEF Next
  <2>2. ASSUME TypeOK, UNCHANGED vars PROVE TypeOK'
    BY <2>2 DEF TypeOK, vars
  <2>3. QED BY <2>1, <2>2
<1>3. QED BY <1>1, <1>2, PTL DEF Spec

-----------------------------------------------------------------------------
\* A slot hinted by the floor has only certified generations below it.
LEMMA HintCertified ==
  ASSUME TypeOK, GenerationsSafe
  PROVE  CertifiedBelow(HintedSlot)
<1>1. CASE HintedSlot = 0
  BY <1>1 DEF CertifiedBelow, Slot
<1>2. CASE HintedSlot # 0
  <2>1. floor \in Slot /\ HintedSlot = floor + 1 /\ floor \in drained
    BY <1>2 DEF HintedSlot
  <2>2. CertifiedBelow(floor)
    BY <2>1 DEF GenerationsSafe
  <2>3. QED BY <2>1, <2>2 DEF CertifiedBelow, Slot
<1>3. QED BY <1>1, <1>2

\* A live holder's slot is not fenced: a fence stands over a dead owner.
LEMMA HolderNotRetired ==
  ASSUME TypeOK, GenerationsSafe, NEW p \in alive, pc[p] \in Holding
  PROVE  slot[p] \notin retired
<1>1. p \in Proc /\ owner[slot[p]] = Token(p)
  BY DEF TypeOK, GenerationsSafe
<1>2. Token(p).proc \in alive
  BY DEF Token
<1>3. QED BY <1>1, <1>2 DEF GenerationsSafe, Dead

\* Every step of every process keeps the inductive invariant.
LEMMA SafeStep ==
  ASSUME TypeOK, GenerationsSafe, NEW p \in Proc,
         Call(p) \/ Step(p) \/ SyncFails(p) \/ GiveUp(p) \/ Crash(p)
  PROVE  GenerationsSafe'
<1> USE ProcAssumption
<1> USE DEF TypeOK, GenerationsSafe, CertifiedBelow, At, Goto, Forget, Trying, Holding,
            Dead, Token
<1>hint. CertifiedBelow(HintedSlot)
  BY HintCertified
<1>1. CASE Call(p)
  BY <1>1, <1>hint DEF Call
<1>2. CASE Scan(p)
  BY <1>2, <1>hint DEF Scan
<1>3. CASE TestFence(p)
  BY <1>3 DEF TestFence
<1>4. CASE Drain(p)
  BY <1>4 DEF Drain
<1>5. CASE Certify(p)
  <2>1. slot[p] \in retired /\ CertifiedBelow(slot[p])
    BY <1>5 DEF Certify
  <2>2. \A s : CertifiedBelow(s) => CertifiedBelow(s)'
    BY <1>5 DEF Certify
  <2>3. /\ \A s \in drained' : CertifiedBelow(s)'
        /\ drained' \subseteq retired'
        /\ floor' \in Slot => floor' \in drained'
    BY <1>5, <2>1, <2>2 DEF Certify
  <2>4. \A q \in Proc : CertifiedBelow(slot[q])'
    BY <1>5, <2>2 DEF Certify
  <2>5. QED BY <1>5, <2>3, <2>4 DEF Certify
<1>6. CASE TestFloor(p)
  BY <1>6 DEF TestFloor
<1>7. CASE RenameFloor(p)
  BY <1>7 DEF RenameFloor
<1>8. CASE Advance(p)
  <2>1. slot[p] \in drained /\ slot[p] \in Slot
    BY <1>8 DEF Advance
  <2>2. \A t \in Slot : t < slot[p] + 1 => t < slot[p] \/ t = slot[p]
    BY <2>1, MaxSlotAssumption DEF Slot
  <2>3. \A t \in Slot : t < slot[p] + 1 => t \in drained
    BY <2>1, <2>2
  <2>4. QED BY <1>8, <2>1, <2>3 DEF Advance
<1>9. CASE Link(p)
  BY <1>9 DEF Link, NoOwner
<1>10. CASE Inspect(p)
  BY <1>10 DEF Inspect
<1>11. CASE Judge(p)
  BY <1>11 DEF Judge
<1>12. CASE Recheck(p)
  BY <1>12 DEF Recheck
<1>13. CASE Fence(p)
  BY <1>13, ZenonT(60) DEF Fence
<1>14. CASE Check(p)
  BY <1>14, HolderNotRetired DEF Check
<1>15. CASE SyncFails(p)
  BY <1>15 DEF SyncFails
<1>16. CASE Leave(p)
  BY <1>16 DEF Leave
<1>17. CASE Verify(p)
  BY <1>17 DEF Verify
<1>18. CASE Unlink(p)
  <2>1. p \in alive /\ owner[slot[p]] = Token(p) /\ slot[p] \notin retired
    BY <1>18, HolderNotRetired DEF Unlink
  <2>2. Token(p).proc = p /\ ~Dead(Token(p))
    BY <2>1
  <2>3. ASSUME NEW q \in alive, q # p, pc[q] \in Holding PROVE slot[q] # slot[p]
    <3>1. owner[slot[q]] = Token(q) /\ Token(q).proc = q
      BY <2>3
    <3>2. QED BY <3>1, <2>1, <2>2, <2>3
  <2>4. ASSUME NEW q \in Proc, pc[q] = "fence" PROVE slot[q] # slot[p]
    <3>1. owner[slot[q]] = seen[q] /\ Dead(seen[q])
      BY <2>4
    <3>2. QED BY <3>1, <2>1, <2>2
  <2>5. QED BY <1>18, <2>1, <2>3, <2>4 DEF Unlink
<1>19. CASE GiveUp(p)
  BY <1>19 DEF GiveUp
<1>20. CASE Crash(p)
  <2>1. \A s \in Slot : ~(s < 0)
    BY DEF Slot
  <2>2. \A q \in Proc : CertifiedBelow(slot[q])'
    BY <1>20, <2>1 DEF Crash
  <2>3. \A q \in Proc : q # p => pc'[q] = pc[q] /\ slot'[q] = slot[q] /\ seen'[q] = seen[q]
    BY <1>20 DEF Crash
  <2>4. pc'[p] = "idle" /\ alive' = alive \ {p}
    BY <1>20 DEF Crash
  <2>5. QED BY <1>20, <2>2, <2>3, <2>4 DEF Crash
<1> QED
  BY <1>1, <1>2, <1>3, <1>4, <1>5, <1>6, <1>7, <1>8, <1>9, <1>10, <1>11,
     <1>12, <1>13, <1>14, <1>15, <1>16, <1>17, <1>18, <1>19, <1>20
  DEF Step

\* The generations of the lock are safe to skip in every reachable state.
THEOREM GenerationsAreSafe == Spec => []GenerationsSafe
<1>1. Init => GenerationsSafe
  BY MaxSlotAssumption DEF Init, GenerationsSafe, CertifiedBelow, Slot, NoFloor, Holding
<1>2. TypeOK /\ GenerationsSafe /\ [Next]_vars => GenerationsSafe'
  <2>1. ASSUME TypeOK, GenerationsSafe, Next PROVE GenerationsSafe'
    BY <2>1, SafeStep DEF Next
  <2>2. ASSUME GenerationsSafe, UNCHANGED vars PROVE GenerationsSafe'
    BY <2>2 DEF GenerationsSafe, CertifiedBelow, Dead, Token, vars
  <2>3. QED BY <2>1, <2>2
<1>3. QED BY <1>1, <1>2, TypeCorrect, PTL DEF Spec

\* "Serialize a complete FileSpineStore logical write": two live processes
\* never run the callback of withLogicalAppendLock together.
THEOREM Exclusive == Spec => []MutualExclusion
<1>1. TypeOK /\ GenerationsSafe => MutualExclusion
  <2>1. SUFFICES ASSUME TypeOK, GenerationsSafe, NEW p \in Proc, NEW q \in Proc,
                        InCS(p), InCS(q)
                 PROVE  p = q
    BY DEF MutualExclusion
  <2> USE <2>1 DEF InCS, Holding
  <2>2. slot[p] \notin retired /\ slot[q] \notin retired
    BY HolderNotRetired
  <2>3. ~(slot[p] < slot[q]) /\ ~(slot[q] < slot[p])
    BY <2>2 DEF GenerationsSafe, CertifiedBelow, TypeOK
  <2>4. slot[p] = slot[q]
    BY <2>3, MaxSlotAssumption DEF TypeOK, Slot
  <2>5. Token(p) = Token(q)
    BY <2>4 DEF GenerationsSafe
  <2>6. QED BY <2>5 DEF Token
<1>2. QED BY <1>1, TypeCorrect, GenerationsAreSafe, PTL

\* The unsynchronised floor file never sends a caller past a live holder.
THEOREM HintSafe == Spec => []HintNeverSkipsHolder
<1>1. TypeOK /\ GenerationsSafe => HintNeverSkipsHolder
  <2>1. SUFFICES ASSUME TypeOK, GenerationsSafe, NEW p \in alive,
                        pc[p] \in {"cs", "release", "unlink"}
                 PROVE  slot[p] >= HintedSlot
    BY DEF HintNeverSkipsHolder
  <2>2. slot[p] \notin retired
    BY <2>1, HolderNotRetired DEF Holding
  <2>3. ~(slot[p] < HintedSlot)
    BY <2>1, <2>2, HintCertified DEF GenerationsSafe, CertifiedBelow, TypeOK
  <2>4. slot[p] \in Slot /\ HintedSlot \in Slot
    BY <2>1, HintIsSlot DEF TypeOK
  <2>5. QED BY <2>3, <2>4, MaxSlotAssumption DEF Slot
<1>2. QED BY <1>1, TypeCorrect, GenerationsAreSafe, PTL

\* "Only an owner removes its own carrier."
THEOREM OwnerRemoves == Spec => OnlyOwnerRemoves
<1> DEFINE Removal == \A s \in Slot : owner[s] # NoOwner /\ owner'[s] # owner[s]
        => /\ owner'[s] = NoOwner
           /\ owner[s].proc \in alive
           /\ pc'[owner[s].proc] # pc[owner[s].proc]
<1>1. TypeOK /\ GenerationsSafe /\ [Next]_vars => [Removal]_vars
  <2>1. SUFFICES ASSUME TypeOK, GenerationsSafe, NEW p \in Proc,
                        Call(p) \/ Step(p) \/ SyncFails(p) \/ GiveUp(p) \/ Crash(p)
                 PROVE  Removal
    BY DEF Next
  <2>2. CASE Link(p)
    BY <2>1, <2>2 DEF Link, At, TypeOK
  <2>3. CASE Check(p) \/ Unlink(p)
    <3>1. p \in alive /\ owner[slot[p]] = Token(p)
      BY <2>1, <2>3 DEF Check, Unlink, At, Holding, GenerationsSafe
    <3>2. owner[slot[p]].proc = p
      BY <3>1 DEF Token
    <3>3. \A s \in Slot : owner'[s] # owner[s] => s = slot[p] /\ owner'[s] = NoOwner
      BY <2>1, <2>3 DEF Check, Unlink, TypeOK
    <3>4. pc'[p] # pc[p]
      BY <2>1, <2>3 DEF Check, Unlink, At, Goto, TypeOK
    <3>5. QED BY <3>1, <3>2, <3>3, <3>4
  <2>4. CASE ~Link(p) /\ ~Check(p) /\ ~Unlink(p)
    <3>1. owner' = owner
      BY <2>1, <2>4 DEF Step, Call, SyncFails, GiveUp, Crash, Scan, TestFence, Drain,
         Certify, TestFloor, RenameFloor, Advance, Inspect, Judge, Recheck, Fence,
         Leave, Verify
    <3>2. QED BY <3>1
  <2>5. QED BY <2>2, <2>3, <2>4
<1>2. QED BY <1>1, TypeCorrect, GenerationsAreSafe, PTL DEF Spec, OnlyOwnerRemoves
=============================================================================
