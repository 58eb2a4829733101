--------------------- MODULE SyncFileMutationLockProofs ---------------------
(***************************************************************************)
(* Proofs about SyncFileMutationLock for any set of processes and any      *)
(* number of calls.                                                        *)
(***************************************************************************)
EXTENDS SyncFileMutationLock, TLAPS

\* The lock file and the local variables keep their shape.
THEOREM TypeCorrect == Spec => []TypeOK
<1> USE ProcAssumption, MaxCallsAssumption
<1>1. Init => TypeOK
  BY DEF Init, TypeOK, Tokens, NoFile, NoToken, Labels
<1>2. TypeOK /\ [Next]_vars => TypeOK'
  <2> SUFFICES ASSUME TypeOK, [Next]_vars PROVE TypeOK'
    OBVIOUS
  <2>0. allowStaleTakeover' \in BOOLEAN
    BY DEF TypeOK, Next, vars
  <2> USE <2>0 DEF TypeOK, At, Goto, Labels
  <2>1. ASSUME NEW p \in Proc, Call(p) PROVE TypeOK'
    BY <2>1 DEF Call
  <2>2. ASSUME NEW p \in Proc, Create(p) PROVE TypeOK'
    <3>1. Token(p) \in Tokens /\ Token(p) # NoToken
      BY DEF Token, Tokens, NoToken
    <3>2. NoFile \in [by : Tokens, written : BOOLEAN] /\ NoFile.by = NoToken
      BY DEF NoFile, Tokens
    <3>3. [by |-> Token(p), written |-> FALSE].by # NoToken
      BY <3>1
    <3>4. [by |-> Token(p), written |-> FALSE] \in [by : Tokens, written : BOOLEAN]
      BY <3>1
    <3>5. /\ carrier' \in [by : Tokens, written : BOOLEAN]
          /\ carrier'.by = NoToken => carrier' = NoFile
      BY <2>2, <3>3, <3>4 DEF Create
    <3>6. QED BY <2>2, <3>5 DEF Create
  <2>3. ASSUME NEW p \in Proc, Write(p) PROVE TypeOK'
    <3>1. Token(p) # NoToken
      BY DEF Token, NoToken
    <3>2. QED BY <2>3, <3>1 DEF Write, Filled
  <2>4. ASSUME NEW p \in Proc, WriteFails(p) PROVE TypeOK'
    <3>1. NoFile \in [by : Tokens, written : BOOLEAN] /\ NoFile.by = NoToken
      BY DEF NoFile, Tokens
    <3>2. carrier' = NoFile \/ carrier' = carrier \/ carrier' = Filled(p)
      BY <2>4 DEF WriteFails
    <3>3. Token(p) # NoToken
      BY DEF Token, NoToken
    <3>4. /\ Filled(p) \in [by : Tokens, written : BOOLEAN]
          /\ Filled(p).by = NoToken => Filled(p) = NoFile
      BY <3>3 DEF Filled
    <3>5. /\ carrier' \in [by : Tokens, written : BOOLEAN]
          /\ carrier'.by = NoToken => carrier' = NoFile
      BY <3>1, <3>2, <3>4, Zenon
    <3>6. QED BY <2>4, <3>5 DEF WriteFails
  <2>5. ASSUME NEW p \in Proc, Read(p) PROVE TypeOK'
    BY <2>5 DEF Read
  <2>6. ASSUME NEW p \in Proc, Judge(p) PROVE TypeOK'
    BY <2>6 DEF Judge
  <2>7. ASSUME NEW p \in Proc, Rename(p) PROVE TypeOK'
    BY <2>7 DEF Rename, NoFile, Tokens
  <2>8. ASSUME NEW p \in Proc, Leave(p) PROVE TypeOK'
    BY <2>8 DEF Leave
  <2>9. ASSUME NEW p \in Proc, Verify(p) PROVE TypeOK'
    BY <2>9 DEF Verify
  <2>10. ASSUME NEW p \in Proc, Unlink(p) PROVE TypeOK'
    BY <2>10 DEF Unlink, NoFile, Tokens
  <2>11. ASSUME NEW p \in Proc, Crash(p) PROVE TypeOK'
    BY <2>11 DEF Crash
  <2>12. CASE UNCHANGED vars
    BY <2>12 DEF vars
  <2>13. QED
    BY <2>1, <2>2, <2>3, <2>4, <2>5, <2>6, <2>7, <2>8, <2>9, <2>10, <2>11,
       <2>12 DEF Next
<1>3. QED BY <1>1, <1>2, PTL DEF Spec

\* Tokens of different processes differ.
LEMMA TokenOwner == \A p, q \in Proc : Token(p) = Token(q) => p = q
BY DEF Token

\* The inductive invariant: without takeover, the file belongs to the live
\* process that created it.
THEOREM CarrierKept == Spec => []OwnerKeepsCarrier
<1> USE ProcAssumption
<1>1. Init => OwnerKeepsCarrier
  BY DEF Init, OwnerKeepsCarrier
<1>2. TypeOK /\ OwnerKeepsCarrier /\ [Next]_vars => OwnerKeepsCarrier'
  <2> SUFFICES ASSUME TypeOK, OwnerKeepsCarrier, [Next]_vars, NoTakeover'
               PROVE  OwnerKeepsCarrier'
    BY DEF OwnerKeepsCarrier
  <2>0. NoTakeover /\ UNCHANGED allowStaleTakeover
    BY DEF NoTakeover, TypeOK, Next, vars, Call, Create, Write, Filled, WriteFails, Read,
       Judge, Rename, Leave, Verify, Unlink, Crash
  <2>t. \A q \in Proc : Token(q) # NoToken
    BY DEF Token, NoToken
  <2> USE <2>0 DEF TypeOK, OwnerKeepsCarrier, At, Goto, Token
  <2>1. ASSUME NEW p \in Proc, Call(p) PROVE OwnerKeepsCarrier'
    BY <2>1 DEF Call
  <2>2. ASSUME NEW p \in Proc, Create(p) PROVE OwnerKeepsCarrier'
    BY <2>2, <2>t DEF Create, NoFile
  <2>3. ASSUME NEW p \in Proc, Write(p) PROVE OwnerKeepsCarrier'
    BY <2>3 DEF Write, Filled
  <2>4. ASSUME NEW p \in Proc, WriteFails(p) PROVE OwnerKeepsCarrier'
    BY <2>4, TokenOwner DEF WriteFails, Filled
  <2>5. ASSUME NEW p \in Proc, Read(p) PROVE OwnerKeepsCarrier'
    <3>1. carrier.written => carrier.by # NoToken
      BY DEF NoFile
    <3>2. QED BY <2>5, <3>1 DEF Read
  <2>6. ASSUME NEW p \in Proc, Judge(p) PROVE OwnerKeepsCarrier'
    <3>1. allowStaleTakeover /\ alive = Proc /\ seen[p].by # NoToken
      BY <2>6 DEF Judge, NoTakeover
    <3>2. seen[p].by.proc \in alive
      BY <3>1 DEF Tokens
    <3>3. QED BY <2>6, <3>2 DEF Judge
  <2>7. ASSUME NEW p \in Proc, Rename(p) PROVE OwnerKeepsCarrier'
    BY <2>7 DEF Rename
  <2>8. ASSUME NEW p \in Proc, Leave(p) PROVE OwnerKeepsCarrier'
    BY <2>8 DEF Leave
  <2>9. ASSUME NEW p \in Proc, Verify(p) PROVE OwnerKeepsCarrier'
    BY <2>9 DEF Verify
  <2>10. ASSUME NEW p \in Proc, Unlink(p) PROVE OwnerKeepsCarrier'
    BY <2>10, TokenOwner DEF Unlink
  <2>11. ASSUME NEW p \in Proc, Crash(p) PROVE OwnerKeepsCarrier'
    BY <2>11 DEF Crash
  <2>12. CASE UNCHANGED vars
    BY <2>12 DEF vars
  <2>13. QED
    BY <2>1, <2>2, <2>3, <2>4, <2>5, <2>6, <2>7, <2>8, <2>9, <2>10, <2>11,
       <2>12 DEF Next
<1>3. QED BY <1>1, <1>2, TypeCorrect, PTL DEF Spec

\* With takeover disabled, or before any process has died, two live processes
\* never run the guarded function together.
THEOREM Exclusion == Spec => []ExclusiveWithoutTakeover
<1>1. OwnerKeepsCarrier => ExclusiveWithoutTakeover
  BY TokenOwner DEF OwnerKeepsCarrier, ExclusiveWithoutTakeover, Exclusive, InCS
<1>2. QED BY <1>1, CarrierKept, PTL
=============================================================================
