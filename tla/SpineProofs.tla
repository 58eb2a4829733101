---------------------------- MODULE SpineProofs ----------------------------
(***************************************************************************)
(* Proofs about Spine, for any number of processes, any number of rows,    *)
(* seals and interruptions and any block size.  TypeOK and SnapshotsSafe   *)
(* are inductive together whatever the lock does; everything else rests on *)
(* SealerSafe, which is inductive when the sealer lock is exclusive.       *)
(***************************************************************************)
EXTENDS Spine, TLAPS

NumbersAssumption == /\ MaxRows \in Nat /\ BlockCap \in Nat \ {0}
                     /\ MaxSeals \in Nat /\ MaxAborts \in Nat

\* The constants that count are natural numbers.
LEMMA Numbers == NumbersAssumption
BY RowsAssumption, BoundsAssumption, CapAssumption DEF NumbersAssumption

\* What repair and recovery return has the right type.
LEMMA StoreTypes ==
  ASSUME TypeOK
  PROVE  /\ RepairedRows \in Nat /\ rows <= RepairedRows /\ RepairedRows <= MaxRows
         /\ RepairedChain \in Seq(Blocks)
         /\ Matched \in Nat
<1> USE Numbers DEF NumbersAssumption
<1>1. /\ RepairedRows \in Nat /\ rows <= RepairedRows /\ RepairedRows <= MaxRows
  BY DEF TypeOK, FilesTyped, RepairedRows
<1>2. RepairedChain \in Seq(Blocks)
  BY DEF TypeOK, FilesTyped, RepairedChain
<1>3. Matched \in Nat
  <2>1. CASE chain = <<>>
    BY <2>1 DEF Matched
  <2>2. CASE chain # <<>>
    <3>1. chain[Len(chain)] \in Blocks
      BY <2>2 DEF TypeOK, FilesTyped
    <3>2. QED BY <2>2, <3>1, SMTT(30) DEF TypeOK, FilesTyped, Matched, Blocks
  <2>3. QED BY <2>1, <2>2
<1>4. QED BY <1>1, <1>2, <1>3

\* A missing and a torn block are blocks.
LEMMA NoBlocks == NoBlock \in Blocks /\ TornBlock \in Blocks
BY DEF NoBlock, TornBlock, Blocks

\* The row of an event of the snapshot lies in the snapshot, and rows are
\* numbered in the order of the snapshot.
LEMMA RowOrder ==
  ASSUME NEW p \in Proc, snap[p] \in [lo : Nat, hi : Nat],
         snap[p].lo <= snap[p].hi, NEW m \in Nat, NEW n \in Nat, m <= n
  PROVE  /\ RowOf(p, m) \in Nat /\ RowOf(p, n) \in Nat
         /\ snap[p].lo <= RowOf(p, m) /\ RowOf(p, m) <= RowOf(p, n)
         /\ RowOf(p, n) <= snap[p].hi
BY DEF RowOf

\* The number of events of a snapshot.
LEMMA PendingType ==
  ASSUME NEW p \in Proc, snap[p] \in [lo : Nat, hi : Nat],
         snap[p].lo <= snap[p].hi, marker[p] \in BOOLEAN
  PROVE  Pending(p) \in Nat
BY DEF Pending

-----------------------------------------------------------------------------
Typed == TypeOK /\ SnapshotsSafe

\* The files and the local variables start with the right shape.
LEMMA TypedInit == Init => Typed
BY Numbers DEF NumbersAssumption, Init, Typed, TypeOK, FilesTyped, LocalsTyped,
   SnapshotsSafe, NoBlock, NoSnap, NoView, Blocks, Views, Labels, Pending

\* Typed survives a step that leaves the local variables alone and keeps the
\* files typed.
LEMMA TypedStays ==
  ASSUME Typed, FilesTyped', rows <= rows', UNCHANGED locals,
         holders' \subseteq Proc, pc' \in [Proc -> Labels],
         seals' \in Nat, aborts' \in Nat,
         \A q \in Proc :
           /\ pc'[q] = "publish" => pc[q] = "publish"
           /\ pc'[q] = "build" => pc[q] = "build" \/ offset[q] <= Pending(q)
  PROVE  Typed'
<1>1. LocalsTyped'
  BY DEF Typed, TypeOK, LocalsTyped, locals
<1>2. SnapshotsSafe'
  <2>1. SUFFICES ASSUME NEW q \in Proc
        PROVE  /\ snap[q].lo <= snap[q].hi /\ snap[q].hi <= rows'
               /\ pc'[q] = "build" => offset[q] <= Pending(q)
               /\ block[q].lo <= block[q].hi
               /\ pc'[q] = "publish" => want[q] <= rows'
               /\ view[q].need <= rows'
    BY DEF SnapshotsSafe, locals, Pending
  <2>2. /\ rows \in Nat /\ rows' \in Nat
        /\ snap[q] \in [lo : Nat, hi : Nat] /\ want[q] \in Nat
        /\ view[q].need \in Nat
    BY Numbers DEF Typed, TypeOK, FilesTyped, LocalsTyped, Views, NumbersAssumption
  <2>3. QED BY <2>2 DEF Typed, SnapshotsSafe
<1>3. QED BY <1>1, <1>2 DEF Typed, TypeOK

\* The steps that leave the local variables alone.
LEMMA TypedFiles ==
  ASSUME Typed, NEW p \in Proc,
         \/ Stage(p) \/ StageTorn(p) \/ PrepareRows(p) \/ PrepareChain(p)
         \/ Publish(p) \/ AppendTorn(p) \/ NextBlock(p) \/ Abort(p) \/ EndView(p)
  PROVE  Typed'
<1> USE Numbers, StoreTypes, NoBlocks
    DEF NumbersAssumption, Typed, TypeOK, FilesTyped, Goto, Labels
<1>1. CASE Stage(p)
  BY <1>1, TypedStays DEF Stage
<1>2. CASE StageTorn(p)
  BY <1>2, TypedStays DEF StageTorn
<1>3. CASE PrepareRows(p)
  BY <1>3, TypedStays DEF PrepareRows
<1>4. CASE PrepareChain(p)
  BY <1>4, TypedStays DEF PrepareChain
<1>5. CASE Publish(p)
  <2>1. /\ resume[p] \in Labels /\ resume[p] \notin {"publish", "build"}
        /\ want[p] \in 0..rows
    BY <1>5 DEF LocalsTyped, SnapshotsSafe, Publish
  <2>2. QED BY <1>5, <2>1, TypedStays DEF Publish
<1>6. CASE AppendTorn(p)
  <2>1. block[p] \in Blocks
    BY DEF LocalsTyped
  <2>2. QED BY <1>6, <2>1, TypedStays, SMTT(30) DEF AppendTorn
<1>7. CASE NextBlock(p)
  <2>1. Pending(p) \in Nat /\ offset[p] \in Nat
    BY PendingType DEF LocalsTyped, SnapshotsSafe
  <2>2. \A q \in Proc : pc'[q] = "build" => pc[q] = "build" \/ offset[q] <= Pending(q)
    BY <1>7, <2>1 DEF NextBlock
  <2>3. pc' \in [Proc -> Labels] /\ \A q \in Proc : pc'[q] = "publish" => pc[q] = "publish"
    BY <1>7 DEF NextBlock
  <2>4. UNCHANGED <<files, holders, locals, seals, aborts>>
    BY <1>7 DEF NextBlock
  <2>5. FilesTyped' /\ rows <= rows'
    BY <2>4 DEF files
  <2>6. QED BY <2>2, <2>3, <2>4, <2>5, TypedStays
<1>8. CASE Abort(p) \/ EndView(p)
  BY <1>8, TypedStays, SMTT(30) DEF Abort, EndView, files
<1>9. QED BY <1>1, <1>2, <1>3, <1>4, <1>5, <1>6, <1>7, <1>8

\* Typed survives a step that changes markers of processes that are not
\* draining, and views of the log.
LEMMA TypedViews ==
  ASSUME Typed, UNCHANGED <<files, snap, offset, block, want, resume>>,
         marker' \in [Proc -> BOOLEAN], view' \in [Proc -> Views],
         holders' \subseteq Proc, pc' \in [Proc -> Labels],
         seals' \in Nat, aborts' \in Nat,
         \A q \in Proc :
           /\ pc'[q] = "publish" => pc[q] = "publish"
           /\ pc'[q] = "build" => pc[q] = "build" /\ marker'[q] = marker[q]
           /\ view'[q].need <= rows
  PROVE  Typed'
<1>1. FilesTyped'
  BY DEF Typed, TypeOK, FilesTyped, files
<1>2. LocalsTyped'
  BY DEF Typed, TypeOK, LocalsTyped
<1>3. SnapshotsSafe'
  BY DEF Typed, SnapshotsSafe, files, Pending
<1>4. QED BY <1>1, <1>2, <1>3 DEF Typed, TypeOK

\* The steps of a reader, and those that take the lock.
LEMMA TypedReaders ==
  ASSUME Typed, NEW p \in Proc,
         \/ BeginSeal(p) \/ BeginView(p) \/ BeginFreeView(p) \/ ReadChain(p)
         \/ ReadRows(p) \/ ReadCursor(p)
  PROVE  Typed'
<1>0. /\ rows \in Nat /\ cursor \in Nat /\ seals \in Nat /\ aborts \in Nat
      /\ marker \in [Proc -> BOOLEAN] /\ view \in [Proc -> Views]
      /\ holders \subseteq Proc /\ pc \in [Proc -> Labels]
      /\ \A q \in Proc : view[q].need <= rows
  BY Numbers DEF NumbersAssumption, Typed, TypeOK, FilesTyped, LocalsTyped,
     SnapshotsSafe
<1>1. CASE BeginSeal(p)
  <2>1. /\ marker' \in [Proc -> BOOLEAN]
        /\ \A q \in Proc : q # p => marker'[q] = marker[q]
    BY <1>0, <1>1 DEF BeginSeal
  <2>2. /\ pc' \in [Proc -> Labels] /\ pc'[p] = "prepareRows"
        /\ \A q \in Proc : q # p => pc'[q] = pc[q]
    BY <1>0, <1>1 DEF BeginSeal, Goto, Labels
  <2>3. QED BY <1>0, <1>1, <2>1, <2>2, TypedViews DEF BeginSeal
<1>2. CASE BeginView(p) \/ BeginFreeView(p)
  <2>1. /\ [NoView EXCEPT !.need = rows] \in Views
        /\ [NoView EXCEPT !.need = rows].need = rows
    BY <1>0 DEF NoView, Views
  <2>2. /\ view' = [view EXCEPT ![p] = [NoView EXCEPT !.need = rows]]
        /\ holders' \subseteq Proc
        /\ UNCHANGED <<files, marker, snap, offset, block, want, resume, seals, aborts>>
    BY <1>0, <1>2 DEF BeginView, BeginFreeView
  <2>3. view' \in [Proc -> Views] /\ \A q \in Proc : view'[q].need <= rows
    BY <1>0, <2>1, <2>2
  <2>4. /\ pc' \in [Proc -> Labels] /\ pc'[p] \notin {"publish", "build"}
        /\ \A q \in Proc : q # p => pc'[q] = pc[q]
    BY <1>0, <1>2 DEF BeginView, BeginFreeView, Goto, Labels
  <2>5. QED BY <1>0, <2>2, <2>3, <2>4, TypedViews
<1>3. CASE ReadChain(p) \/ ReadRows(p) \/ ReadCursor(p)
  <2>1. Sealed \in SUBSET Nat
    <3>1. SUFFICES ASSUME NEW x \in Sealed PROVE x \in Nat
      OBVIOUS
    <3>2. PICK i \in DOMAIN chain : x \in Rows(chain[i])
      BY DEF Sealed, SealedIn
    <3>3. chain[i] \in Blocks
      BY DEF Typed, TypeOK, FilesTyped
    <3>4. QED BY <3>2, <3>3 DEF Rows, Blocks
  <2>2. view[p] \in Views
    BY <1>0
  <2>3. view[p].sealed \cup (cursor + 1 .. view[p].rows) \in SUBSET Nat
    BY <1>0, <2>2 DEF Views
  <2>4. PICK v \in Views : view' = [view EXCEPT ![p] = v] /\ v.need = view[p].need
    <3>1. CASE ReadChain(p)
      <4>1. [view[p] EXCEPT !.sealed = Sealed] \in Views
        BY <2>1, <2>2 DEF Views
      <4>2. [view[p] EXCEPT !.sealed = Sealed].need = view[p].need
        BY <2>2 DEF Views
      <4>3. view' = [view EXCEPT ![p] = [view[p] EXCEPT !.sealed = Sealed]]
        BY <1>0, <3>1 DEF ReadChain
      <4>4. QED BY <4>1, <4>2, <4>3
    <3>2. CASE ReadRows(p)
      <4>1. [view[p] EXCEPT !.rows = rows] \in Views
        BY <1>0, <2>2 DEF Views
      <4>2. [view[p] EXCEPT !.rows = rows].need = view[p].need
        BY <2>2 DEF Views
      <4>3. view' = [view EXCEPT ![p] = [view[p] EXCEPT !.rows = rows]]
        BY <1>0, <3>2 DEF ReadRows
      <4>4. QED BY <4>1, <4>2, <4>3
    <3>3. CASE ReadCursor(p)
      <4> DEFINE E == view[p].sealed \cup (cursor + 1 .. view[p].rows)
      <4>1. [view[p] EXCEPT !.events = E] \in Views
        BY <2>2, <2>3 DEF Views
      <4>2. [view[p] EXCEPT !.events = E].need = view[p].need
        BY <2>2 DEF Views
      <4>3. view' = [view EXCEPT ![p] = [view[p] EXCEPT !.events = E]]
        BY <1>0, <3>3 DEF ReadCursor
      <4>4. QED BY <4>1, <4>2, <4>3
    <3>4. QED BY <1>3, <3>1, <3>2, <3>3
  <2>5. view' \in [Proc -> Views] /\ \A q \in Proc : view'[q].need <= rows
    BY <1>0, <2>4
  <2>6. /\ pc' \in [Proc -> Labels] /\ pc'[p] \notin {"publish", "build"}
        /\ \A q \in Proc : q # p => pc'[q] = pc[q]
    BY <1>0, <1>3 DEF ReadChain, ReadRows, ReadCursor, Goto, Labels
  <2>7. UNCHANGED <<files, holders, marker, snap, offset, block, want, resume, seals, aborts>>
    BY <1>3 DEF ReadChain, ReadRows, ReadCursor
  <2>8. QED BY <1>0, <2>5, <2>6, <2>7, TypedViews
<1>4. QED BY <1>1, <1>2, <1>3

\* The steps of a seal that move local variables.
LEMMA TypedSealer ==
  ASSUME Typed, NEW p \in Proc,
         \/ Snapshot(p) \/ Reread(p) \/ Consume(p) \/ Build(p) \/ AppendBlock(p)
         \/ Release(p)
  PROVE  Typed'
<1>0. /\ rows \in Nat /\ cursor \in 0..rows /\ seals \in Nat /\ aborts \in Nat
      /\ marker[p] \in BOOLEAN /\ snap[p] \in [lo : Nat, hi : Nat]
      /\ offset[p] \in Nat /\ block[p] \in Blocks /\ want[p] \in Nat
      /\ snap[p].lo <= snap[p].hi /\ block[p].lo <= block[p].hi
      /\ holders \subseteq Proc /\ pc \in [Proc -> Labels]
  BY Numbers DEF NumbersAssumption, Typed, TypeOK, FilesTyped, LocalsTyped,
     SnapshotsSafe
<1>1. Matched \in Nat /\ RepairedChain \in Seq(Blocks)
  BY StoreTypes DEF Typed
<1>2. CASE Snapshot(p) \/ Reread(p)
  <2>1. UNCHANGED <<files, holders, marker, block, view, seals, aborts>>
    BY <1>2 DEF Snapshot, Reread
  <2>2. /\ pc' \in [Proc -> Labels] /\ pc'[p] # "publish"
        /\ \A q \in Proc : q # p => pc'[q] = pc[q]
    BY <1>0, <1>2 DEF Snapshot, Reread, TakeSnapshot, Goto, Labels
  <2>3. \/ UNCHANGED <<snap, offset>> /\ pc'[p] # "build"
        \/ /\ snap' = [snap EXCEPT ![p] = [lo |-> cursor, hi |-> rows]]
           /\ offset' = [offset EXCEPT ![p] = 0]
    BY <1>0, <1>2 DEF Snapshot, Reread, TakeSnapshot, Goto
  <2>4. /\ want' \in [Proc -> Nat]
        /\ resume' \in [Proc -> {"idle", "reread", "next"}]
        /\ \A q \in Proc : q # p => want'[q] = want[q]
    BY <1>1, <1>2 DEF Snapshot, Reread, Typed, TypeOK, LocalsTyped
  <2>5. FilesTyped'
    BY <2>1 DEF Typed, TypeOK, FilesTyped, files
  <2>6. LocalsTyped'
    BY <1>0, <2>1, <2>3, <2>4, SMTT(30) DEF Typed, TypeOK, LocalsTyped
  <2>7. SnapshotsSafe'
    <3>1. SUFFICES ASSUME NEW q \in Proc
          PROVE  /\ snap'[q].lo <= snap'[q].hi /\ snap'[q].hi <= rows
                 /\ pc'[q] = "build" => offset'[q] <= Pending(q)'
      BY <2>1, <2>2, <2>4 DEF files, Typed, SnapshotsSafe
    <3>2. CASE q # p
      BY <2>1, <2>2, <2>3, <3>2 DEF Typed, TypeOK, LocalsTyped, SnapshotsSafe, Pending
    <3>3. CASE q = p
      BY <1>0, <2>1, <2>3, <3>3 DEF Typed, TypeOK, LocalsTyped, SnapshotsSafe, Pending
    <3>4. QED BY <3>2, <3>3
  <2>8. QED BY <1>0, <2>1, <2>2, <2>5, <2>6, <2>7 DEF Typed, TypeOK
<1>3. CASE Consume(p)
  <2>1. UNCHANGED <<files, holders, marker, snap, offset, block, resume, view, seals, aborts>>
    BY <1>3 DEF Consume
  <2>2. /\ pc' \in [Proc -> Labels] /\ pc'[p] # "build"
        /\ \A q \in Proc : q # p => pc'[q] = pc[q]
    BY <1>0, <1>3 DEF Consume, Goto, Labels
  <2>3. /\ want' \in [Proc -> Nat]
        /\ \A q \in Proc : q # p => want'[q] = want[q]
        /\ pc'[p] = "publish" => want'[p] <= rows
    BY <1>0, <1>3 DEF Consume, Goto, Typed, TypeOK, LocalsTyped
  <2>4. FilesTyped' /\ LocalsTyped'
    BY <2>1, <2>3 DEF Typed, TypeOK, FilesTyped, LocalsTyped, files
  <2>5. SnapshotsSafe'
    BY <2>1, <2>2, <2>3 DEF Typed, SnapshotsSafe, Pending, files
  <2>6. QED BY <1>0, <2>1, <2>2, <2>4, <2>5 DEF Typed, TypeOK
<1>4. CASE Build(p)
  <2>0. PICK end \in (offset[p] + 1)..Pending(p):
          /\ block' = [block EXCEPT ![p] =
                         [lo |-> RowOf(p, offset[p]), hi |-> RowOf(p, end),
                          mark |-> end > snap[p].hi - snap[p].lo, seq |-> Len(chain)]]
          /\ offset' = [offset EXCEPT ![p] = end]
    BY <1>4 DEF Build
  <2> DEFINE b == [lo |-> RowOf(p, offset[p]), hi |-> RowOf(p, end),
                   mark |-> end > snap[p].hi - snap[p].lo, seq |-> Len(chain)]
  <2>1. Pending(p) \in Nat /\ offset[p] <= Pending(p)
    BY <1>0, <1>4, PendingType DEF Typed, SnapshotsSafe, Build
  <2>2. end \in Nat /\ offset[p] <= end
    BY <1>0, <2>1
  <2>3. /\ RowOf(p, offset[p]) \in Nat /\ RowOf(p, end) \in Nat
        /\ RowOf(p, offset[p]) <= RowOf(p, end)
    BY <1>0, <2>2, RowOrder
  <2>4. Len(chain) \in Nat
    BY DEF Typed, TypeOK, FilesTyped
  <2>5. b \in Blocks /\ b.lo <= b.hi
    <3>1. (end > snap[p].hi - snap[p].lo) \in BOOLEAN
      OBVIOUS
    <3>2. QED BY <2>3, <2>4, <3>1 DEF Blocks
  <2>6. /\ block' = [block EXCEPT ![p] = b]
        /\ offset' = [offset EXCEPT ![p] = end]
        /\ pc' = [pc EXCEPT ![p] = "append"]
        /\ UNCHANGED <<files, holders, marker, snap, want, resume, view, seals, aborts>>
    BY <1>4, <2>0 DEF Build, Goto
  <2> HIDE DEF b
  <2>7. FilesTyped'
    BY <2>6 DEF Typed, TypeOK, FilesTyped, files
  <2>8. LocalsTyped'
    BY <2>2, <2>5, <2>6 DEF Typed, TypeOK, LocalsTyped
  <2>9. SnapshotsSafe'
    <3>1. SUFFICES ASSUME NEW q \in Proc
          PROVE  /\ block'[q].lo <= block'[q].hi
                 /\ pc'[q] = "build" => offset'[q] <= Pending(q)'
                 /\ pc'[q] = "publish" => want[q] <= rows
      BY <2>6 DEF files, Typed, SnapshotsSafe
    <3>2. CASE q # p
      BY <1>0, <2>6, <3>2 DEF Typed, TypeOK, LocalsTyped, SnapshotsSafe, Pending
    <3>3. CASE q = p
      BY <1>0, <2>5, <2>6, <3>3 DEF Typed, TypeOK, LocalsTyped
    <3>4. QED BY <3>2, <3>3
  <2>10. QED BY <1>0, <2>6, <2>7, <2>8, <2>9 DEF Typed, TypeOK, Labels
<1>5. CASE AppendBlock(p)
  <2>1. /\ UNCHANGED <<rows, rowTail, cursor, holders, marker, snap, offset, block,
                       view, seals, aborts>>
        /\ \/ UNCHANGED <<chain, chainTail>>
           \/ chainTail' = NoBlock /\ chain' = Append(RepairedChain, block[p])
    BY <1>5 DEF AppendBlock
  <2>2. /\ pc' \in [Proc -> Labels] /\ pc'[p] \notin {"build", "publish"}
        /\ \A q \in Proc : q # p => pc'[q] = pc[q]
    BY <1>0, <1>5 DEF AppendBlock, Goto, Labels
  <2>3. /\ want' \in [Proc -> Nat]
        /\ resume' \in [Proc -> {"idle", "reread", "next"}]
        /\ \A q \in Proc : q # p => want'[q] = want[q]
    <3>1. block[p].hi - block[p].lo \in Nat
      BY <1>0 DEF Blocks
    <3>2. QED BY <1>5, <3>1, ZenonT(60) DEF AppendBlock, Typed, TypeOK, LocalsTyped
  <2>4. FilesTyped'
    <3>1. Append(RepairedChain, block[p]) \in Seq(Blocks)
      BY <1>0, <1>1
    <3>2. chain' \in Seq(Blocks)
      BY <1>1, <2>1, <3>1 DEF Typed, TypeOK, FilesTyped
    <3>3. QED BY <2>1, <3>2, NoBlocks DEF Typed, TypeOK, FilesTyped
  <2>5. LocalsTyped'
    BY <2>1, <2>3 DEF Typed, TypeOK, LocalsTyped
  <2>6. SnapshotsSafe'
    BY <2>1, <2>2, <2>3 DEF Typed, SnapshotsSafe, Pending
  <2>7. QED BY <1>0, <2>1, <2>2, <2>4, <2>5, <2>6 DEF Typed, TypeOK
<1>6. CASE Release(p)
  <2>1. /\ NoSnap \in [lo : Nat, hi : Nat] /\ NoSnap.lo <= NoSnap.hi /\ NoSnap.hi <= rows
        /\ NoBlock \in Blocks /\ NoBlock.lo <= NoBlock.hi
        /\ NoView \in Views /\ NoView.need <= rows
    BY <1>0, NoBlocks DEF NoSnap, NoBlock, NoView, Views
  <2>2. /\ holders' \subseteq Proc /\ pc' \in [Proc -> Labels]
        /\ pc'[p] = "idle" /\ \A q \in Proc : q # p => pc'[q] = pc[q]
        /\ UNCHANGED <<files, seals, aborts>>
    BY <1>0, <1>6 DEF Release, Goto, Labels
  <2>3. FilesTyped'
    BY <2>2 DEF Typed, TypeOK, FilesTyped, files
  <2>4. LocalsTyped'
    BY <1>6, <2>1 DEF Release, Typed, TypeOK, LocalsTyped
  <2>5. SnapshotsSafe'
    <3>1. SUFFICES ASSUME NEW q \in Proc
          PROVE  /\ snap'[q].lo <= snap'[q].hi /\ snap'[q].hi <= rows
                 /\ pc'[q] = "build" => offset'[q] <= Pending(q)'
                 /\ block'[q].lo <= block'[q].hi
                 /\ pc'[q] = "publish" => want'[q] <= rows
                 /\ view'[q].need <= rows
      BY <2>2 DEF files, SnapshotsSafe
    <3>2. CASE q # p
      BY <1>6, <2>2, <3>2 DEF Release, Typed, TypeOK, LocalsTyped, SnapshotsSafe, Pending
    <3>3. CASE q = p
      BY <1>6, <2>1, <2>2, <3>3 DEF Release, Typed, TypeOK, LocalsTyped
    <3>4. QED BY <3>2, <3>3
  <2>6. QED BY <1>0, <2>2, <2>3, <2>4, <2>5 DEF Typed, TypeOK
<1>7. QED BY <1>2, <1>3, <1>4, <1>5, <1>6

\* Typed is preserved by every step.
LEMMA TypedNext == Typed /\ [Next]_vars => Typed'
<1> SUFFICES ASSUME Typed, [Next]_vars PROVE Typed'
  OBVIOUS
<1>1. CASE UNCHANGED vars
  BY <1>1 DEF vars, files, locals, Typed, TypeOK, FilesTyped, LocalsTyped,
     SnapshotsSafe, Pending
<1>2. CASE Next
  <2>1. PICK p \in Proc :
          \/ Stage(p) \/ StageTorn(p) \/ BeginSeal(p) \/ PrepareRows(p)
          \/ PrepareChain(p) \/ Snapshot(p) \/ Reread(p) \/ Consume(p)
          \/ Publish(p) \/ Build(p) \/ AppendBlock(p) \/ AppendTorn(p)
          \/ NextBlock(p) \/ Release(p) \/ Abort(p) \/ BeginView(p)
          \/ BeginFreeView(p) \/ ReadChain(p) \/ ReadRows(p) \/ ReadCursor(p)
          \/ EndView(p)
    BY <1>2 DEF Next
  <2>2. QED BY <2>1, TypedFiles, TypedReaders, TypedSealer
<1>3. QED BY <1>1, <1>2

\* Type correctness of the spine, whatever the sealer lock does: the files and
\* the local variables of seal(), checkpoint() and the readers keep their
\* shape, and the cursor never leaves the staging log.
THEOREM TypeCorrect == Spec => []TypeOK
<1>1. Init => Typed
  BY TypedInit
<1>2. Typed /\ [Next]_vars => Typed'
  BY TypedNext
<1>3. Typed => TypeOK
  BY DEF Typed
<1>4. QED BY <1>1, <1>2, <1>3, PTL DEF Spec

-----------------------------------------------------------------------------
\* Appending a block to a chain adds its rows.
LEMMA SealedAppend ==
  ASSUME NEW c \in Seq(Blocks), NEW b \in Blocks
  PROVE  /\ Append(c, b) \in Seq(Blocks) /\ Append(c, b) # <<>>
         /\ Len(Append(c, b)) = Len(c) + 1
         /\ Append(c, b)[Len(c) + 1] = b
         /\ \A i \in 1..Len(c) : Append(c, b)[i] = c[i]
         /\ SealedIn(Append(c, b)) = SealedIn(c) \cup Rows(b)
<1>1. /\ Append(c, b) \in Seq(Blocks) /\ Append(c, b) # <<>>
      /\ Len(Append(c, b)) = Len(c) + 1
      /\ Append(c, b)[Len(c) + 1] = b
      /\ \A i \in 1..Len(c) : Append(c, b)[i] = c[i]
  OBVIOUS
<1>2. DOMAIN Append(c, b) = DOMAIN c \cup {Len(c) + 1} /\ DOMAIN c = 1..Len(c)
  OBVIOUS
<1>3. ASSUME NEW x PROVE x \in SealedIn(Append(c, b)) <=> x \in SealedIn(c) \/ x \in Rows(b)
  <2>1. x \in SealedIn(Append(c, b)) <=>
          \E i \in DOMAIN Append(c, b) : x \in Rows(Append(c, b)[i])
    BY DEF SealedIn
  <2>2. x \in SealedIn(c) <=> \E i \in DOMAIN c : x \in Rows(c[i])
    BY DEF SealedIn
  <2>3. QED BY <1>1, <1>2, <2>1, <2>2
<1>4. QED BY <1>1, <1>3

\* The last row of the chain, and the block it is in.
LEMMA LastBlock ==
  ASSUME Typed, ChainSafe
  PROVE  /\ SealedTo \in Nat
         /\ chain # <<>> =>
              /\ chain[Len(chain)] \in Blocks /\ SealedTo = chain[Len(chain)].hi
              /\ chain[Len(chain)].lo <= SealedTo
              /\ cursor \in {chain[Len(chain)].lo, SealedTo}
         /\ chain = <<>> => SealedTo = 0 /\ cursor = 0
         /\ rows \in Nat /\ cursor \in Nat /\ cursor <= rows
<1>1. chain \in Seq(Blocks) /\ rows \in Nat /\ cursor \in Nat /\ cursor <= rows
  BY Numbers DEF Typed, TypeOK, FilesTyped, NumbersAssumption
<1>2. CASE chain = <<>>
  BY <1>1, <1>2 DEF SealedTo, ChainSafe, CursorAtHead
<1>3. CASE chain # <<>>
  <2>1. Len(chain) \in DOMAIN chain /\ chain[Len(chain)] \in Blocks
    BY <1>1, <1>3
  <2>2. QED BY <1>1, <1>3, <2>1 DEF SealedTo, ChainSafe, CursorAtHead, SealedInOrder, Blocks
<1>4. QED BY <1>2, <1>3

\* A block that continues the chain may be appended to it.
LEMMA ChainGrows ==
  ASSUME Typed, ChainSafe, NEW b \in Blocks, Continues(b),
         chain' = Append(chain, b), UNCHANGED <<cursor, rows>>
  PROVE  ChainSafe' /\ SealedTo' = b.hi /\ chain' # <<>> /\ chain'[Len(chain')] = b
<1>1. chain \in Seq(Blocks) /\ Len(chain) \in Nat
  BY DEF Typed, TypeOK, FilesTyped
<1>2. /\ chain' # <<>> /\ Len(chain') = Len(chain) + 1 /\ chain'[Len(chain) + 1] = b
      /\ \A i \in 1..Len(chain) : chain'[i] = chain[i]
      /\ Sealed' = Sealed \cup Rows(b) /\ chain' \in Seq(Blocks)
  BY <1>1, SealedAppend DEF Sealed
<1>3. SealedTo' = b.hi /\ chain'[Len(chain')] = b
  BY <1>2 DEF SealedTo
<1>4. CursorAtHead'
  BY <1>2, <1>3 DEF CursorAtHead, Continues
<1>5. Sealed' = 1..SealedTo' /\ SealedTo' <= rows'
  BY <1>2, <1>3, LastBlock DEF Continues, ChainSafe, Rows, Blocks
<1>6. SealedInOrder'
  <2>1. SUFFICES ASSUME NEW i \in 1..(Len(chain) + 1)
        PROVE  /\ chain'[i].seq = i - 1 /\ chain'[i].lo <= chain'[i].hi
               /\ chain'[i].lo = IF i = 1 THEN 0 ELSE chain'[i - 1].hi
    BY <1>2 DEF SealedInOrder
  <2>2. CASE i \in 1..Len(chain)
    <3>1. i \in DOMAIN chain /\ chain'[i] = chain[i]
      BY <1>1, <1>2, <2>2
    <3>2. i # 1 => i - 1 \in 1..Len(chain)
      BY <1>1, <2>2
    <3>3. QED BY <1>2, <3>1, <3>2 DEF ChainSafe, SealedInOrder
  <2>3. CASE i = Len(chain) + 1
    <3>1. chain'[i] = b /\ i - 1 = Len(chain)
      BY <1>1, <1>2, <2>3
    <3>2. b.lo = SealedTo /\ b.seq = Len(chain) /\ b.lo <= b.hi
      BY DEF Continues
    <3>3. CASE chain = <<>>
      BY <2>3, <3>1, <3>2, <3>3 DEF SealedTo
    <3>4. CASE chain # <<>>
      <4>1. Len(chain) \in 1..Len(chain) /\ i # 1
        BY <1>1, <2>3, <3>4
      <4>2. QED BY <1>2, <3>1, <3>2, <3>4, <4>1 DEF SealedTo
    <3>5. QED BY <3>3, <3>4
  <2>4. QED BY <1>1, <2>2, <2>3
<1>7. QED BY <1>2, <1>3, <1>4, <1>5, <1>6 DEF ChainSafe

\* A step that only adds rows leaves the chain as it is.
LEMMA ChainStays ==
  ASSUME Typed, ChainSafe, UNCHANGED <<chain, cursor>>, rows' \in Nat, rows <= rows'
  PROVE  ChainSafe' /\ SealedTo' = SealedTo
<1>1. SealedTo' = SealedTo /\ Sealed' = Sealed /\ SealedInOrder' /\ CursorAtHead'
  BY DEF ChainSafe, SealedInOrder, CursorAtHead, Sealed, SealedTo, Rows
<1>2. QED BY <1>1, LastBlock DEF ChainSafe

\* While p holds the lock nobody else is in a section it protects.
LEMMA Alone ==
  ASSUME LockSafe, NEW p \in holders, NEW q \in Proc, q # p
  PROVE  pc[q] \notin Sealing \cup Viewing
BY DEF LockSafe

\* What PairSafe(q) speaks of is untouched.
Untouched(q) ==
  /\ pc'[q] = pc[q] /\ snap'[q] = snap[q] /\ offset'[q] = offset[q]
  /\ block'[q] = block[q] /\ want'[q] = want[q] /\ resume'[q] = resume[q]

\* PairSafe(q) survives a step that leaves q, the chain and the cursor alone.
LEMMA PairStays ==
  ASSUME Typed, ChainSafe, NEW q \in Proc, PairSafe(q), Untouched(q),
         UNCHANGED <<chain, cursor>>, rows' \in Nat, rows <= rows'
  PROVE  PairSafe(q)'
<1>1. SealedTo' = SealedTo
  BY DEF SealedTo
<1>2. RowOf(q, offset[q])' = RowOf(q, offset[q])
  BY DEF RowOf, Untouched
<1>3. Continues(block[q]) => Continues(block[q])'
  <2>1. rows \in Nat /\ block[q].hi \in Nat
    BY LastBlock DEF Typed, TypeOK, LocalsTyped, Blocks
  <2>2. QED BY <1>1, <2>1 DEF Continues, Untouched
<1>4. QED BY <1>1, <1>2, <1>3 DEF PairSafe, Untouched

-----------------------------------------------------------------------------
SealerInv == TypeOK /\ SealerSafe

\* The empty spine satisfies the invariant.
LEMMA SealerInit == Init => SealerInv
<1> SUFFICES ASSUME Init PROVE SealerInv
  OBVIOUS
<1>1. Typed
  BY TypedInit
<1>2. ChainSafe
  BY DEF Init, ChainSafe, SealedInOrder, CursorAtHead, Sealed, SealedIn, SealedTo
<1>3. LockSafe /\ TailSafe /\ \A p \in Proc : PairSafe(p)
  BY DEF Init, LockSafe, TailSafe, PairSafe, Sealing, Viewing
<1>4. QED BY <1>1, <1>2, <1>3 DEF Typed, SealerInv, SealerSafe

\* Steps outside the seal: they leave the chain and the cursor alone, and the
\* process that takes them is in no protected section of a seal.
LEMMA OutsideSteps ==
  ASSUME SealerInv, Typed', NEW p \in Proc, UNCHANGED <<chain, cursor, chainTail>>,
         rows <= rows',
         \A q \in Proc : q # p => Untouched(q),
         pc'[p] \notin Sealing,
         holders' \subseteq holders \cup {p}, holders \subseteq holders' \cup {p},
         p \in holders' => p \in holders \/ holders = {},
         pc'[p] \in Viewing => p \in holders'
  PROVE  SealerInv'
<1>0. Typed /\ ChainSafe /\ LockSafe /\ TailSafe /\ rows \in Nat /\ rows' \in Nat
  BY Numbers DEF SealerInv, SealerSafe, Typed, TypeOK, FilesTyped, NumbersAssumption
<1>1. ChainSafe' /\ SealedTo' = SealedTo
  BY <1>0, ChainStays
<1>2. LockSafe'
  <2>1. \A q \in Proc : q # p => pc'[q] = pc[q]
    BY DEF Untouched
  <2>2. holders \subseteq Proc
    BY <1>0 DEF Typed, TypeOK
  <2>3. QED BY <1>0, <2>1, <2>2 DEF LockSafe, Sealing, Viewing
<1>3. TailSafe'
  <2>1. chainTail.hi \in Nat
    BY <1>0 DEF Typed, TypeOK, FilesTyped, Blocks
  <2>2. Continues(chainTail) => Continues(chainTail)'
    BY <1>0, <1>1, <2>1 DEF Continues
  <2>3. \A q \in Proc : pc'[q] \in Sealing => pc[q] = pc'[q]
    BY DEF Untouched
  <2>4. QED BY <1>0, <2>2, <2>3 DEF TailSafe
<1>4. ASSUME NEW q \in Proc PROVE PairSafe(q)'
  <2>1. CASE q # p
    BY <1>0, <2>1, PairStays DEF SealerInv, SealerSafe
  <2>2. CASE q = p
    BY <2>2 DEF PairSafe, Sealing
  <2>3. QED BY <2>1, <2>2
<1>5. QED BY <1>1, <1>2, <1>3, <1>4 DEF SealerInv, SealerSafe, Typed

\* Steps inside the seal: the process holds the lock and keeps it, so nobody
\* else is in a protected section.
LEMMA InsideSteps ==
  ASSUME SealerInv, Typed', NEW p \in Proc, pc[p] \in Sealing,
         \A q \in Proc : q # p => pc'[q] = pc[q],
         UNCHANGED holders,
         ChainSafe',
         chainTail' \notin {NoBlock, TornBlock} => Continues(chainTail)',
         pc'[p] \in Sealing \ {"prepareRows", "prepareChain"} => chainTail' = NoBlock,
         PairSafe(p)'
  PROVE  SealerInv'
<1>0. LockSafe /\ p \in holders /\ holders \subseteq Proc
  BY DEF SealerInv, SealerSafe, LockSafe, TypeOK
<1>1. \A q \in Proc : q # p => pc'[q] \notin Sealing \cup Viewing
  BY <1>0, Alone
<1>2. LockSafe'
  BY <1>0, <1>1 DEF LockSafe
<1>3. TailSafe'
  BY <1>1 DEF TailSafe
<1>4. \A q \in Proc : PairSafe(q)'
  BY <1>1 DEF PairSafe, Sealing
<1>5. QED BY <1>2, <1>3, <1>4 DEF SealerInv, SealerSafe, Typed

\* Every step preserves the invariant when the sealer lock is exclusive.
LEMMA SealerNext ==
  ASSUME ExclusiveSealer, SealerInv, [Next]_vars
  PROVE  SealerInv'
<1>0. Typed /\ ChainSafe /\ LockSafe /\ TailSafe /\ \A q \in Proc : PairSafe(q)
  BY DEF SealerInv, SealerSafe, Typed
<1>a. Typed'
  BY <1>0, TypedNext
<1>b. /\ rows \in Nat /\ rows' \in Nat /\ cursor \in Nat /\ cursor <= rows
      /\ SealedTo \in Nat /\ SealedTo <= rows /\ chain \in Seq(Blocks)
      /\ pc \in [Proc -> Labels] /\ holders \subseteq Proc /\ LocalsTyped
  BY <1>0, <1>a, LastBlock, Numbers
     DEF Typed, TypeOK, FilesTyped, NumbersAssumption, ChainSafe
<1>c. RepairedRows \in Nat /\ rows <= RepairedRows
  BY <1>0, StoreTypes DEF Typed
<1>1. CASE UNCHANGED vars
  BY <1>0, <1>1 DEF vars, files, locals, SealerInv, SealerSafe, TypeOK, FilesTyped,
     LocalsTyped, SnapshotsSafe, ChainSafe, LockSafe, TailSafe, PairSafe, Pending,
     SealedInOrder, CursorAtHead, Sealed, SealedTo, Continues, RowOf
<1>2. ASSUME NEW p \in Proc, Stage(p) \/ StageTorn(p) PROVE SealerInv'
  <2>1. /\ UNCHANGED <<chain, cursor, chainTail, holders, pc, locals>> /\ rows <= rows'
        /\ pc[p] = "idle"
    BY <1>2, <1>b, <1>c DEF Stage, StageTorn
  <2>2. QED BY <1>a, <2>1, OutsideSteps DEF Untouched, locals, Sealing, Viewing
<1>3. ASSUME NEW p \in Proc, BeginSeal(p) PROVE SealerInv'
  <2>1. /\ holders = {} /\ holders' = {p} /\ UNCHANGED <<chain, cursor, chainTail, rows>>
        /\ pc' = [pc EXCEPT ![p] = "prepareRows"]
    BY <1>3 DEF BeginSeal, MayAcquire, Goto, files
  <2>2. \A q \in Proc : pc[q] \notin Sealing \cup Viewing
    BY <1>0, <2>1 DEF LockSafe
  <2>3. \A q \in Proc : pc'[q] \in Sealing \cup Viewing => q = p /\ pc'[q] = "prepareRows"
    BY <1>b, <2>1, <2>2
  <2>4. LockSafe'
    BY <2>1, <2>3 DEF LockSafe
  <2>5. ChainSafe' /\ SealedTo' = SealedTo
    BY <1>0, <1>b, <2>1, ChainStays
  <2>6. TailSafe'
    BY <1>0, <2>1, <2>3, <2>5 DEF TailSafe, Continues
  <2>7. \A q \in Proc : PairSafe(q)'
    BY <2>3 DEF PairSafe, Sealing
  <2>8. QED BY <1>a, <2>4, <2>5, <2>6, <2>7 DEF SealerInv, SealerSafe, Typed
<1>4. ASSUME NEW p \in Proc, BeginView(p) \/ BeginFreeView(p) PROVE SealerInv'
  <2>1. /\ UNCHANGED <<chain, cursor, chainTail, rows, snap, offset, block, want, resume>>
        /\ pc' = [pc EXCEPT ![p] = IF BeginView(p) THEN "view" ELSE "free"]
        /\ IF BeginView(p) THEN holders = {} /\ holders' = {p} ELSE UNCHANGED holders
    BY <1>4 DEF BeginView, BeginFreeView, MayAcquire, Goto, files
  <2>2. \A q \in Proc : q # p => Untouched(q)
    BY <1>b, <2>1 DEF Untouched
  <2>3. pc'[p] = IF BeginView(p) THEN "view" ELSE "free"
    BY <1>b, <2>1
  <2>4. /\ pc'[p] \notin Sealing
        /\ pc'[p] \in Viewing => p \in holders'
        /\ holders' \subseteq holders \cup {p}
        /\ holders \subseteq holders' \cup {p}
        /\ p \in holders' => p \in holders \/ holders = {}
        /\ rows <= rows'
    BY <1>b, <2>1, <2>3 DEF Sealing, Viewing
  <2>5. QED BY <1>a, <1>b, <2>1, <2>2, <2>4, OutsideSteps
<1>5. ASSUME NEW p \in Proc,
             ReadChain(p) \/ ReadRows(p) \/ ReadCursor(p) \/ EndView(p)
      PROVE  SealerInv'
  <2>1. /\ UNCHANGED <<chain, cursor, chainTail, rows, holders, snap, offset, block, want, resume>>
        /\ \A q \in Proc : q # p => pc'[q] = pc[q]
        /\ pc'[p] \in {"viewRows", "freeRows", "viewCursor", "freeCursor", "refused",
                       "viewed", "freeViewed", "done"}
        /\ pc'[p] \in Viewing => pc[p] \in Viewing
    BY <1>5, <1>b DEF ReadChain, ReadRows, ReadCursor, EndView, Goto, files, locals, Viewing
  <2>2. pc'[p] \notin Sealing /\ (pc'[p] \in Viewing => p \in holders)
    BY <1>0, <2>1 DEF Sealing, LockSafe
  <2>3. QED BY <1>a, <1>b, <2>1, <2>2, OutsideSteps DEF Untouched
<1>6. ASSUME NEW p \in Proc, Release(p) PROVE SealerInv'
  <2>1. /\ UNCHANGED <<chain, cursor, chainTail, rows>>
        /\ pc'[p] = "idle" /\ holders' = holders \ {p}
        /\ \A q \in Proc : q # p => Untouched(q)
    BY <1>6, <1>b DEF Release, Goto, files, Untouched, LocalsTyped
  <2>2. QED BY <1>a, <1>b, <2>1, OutsideSteps DEF Sealing, Viewing
<1>7. ASSUME NEW p \in Proc, Abort(p) PROVE SealerInv'
  <2>1. /\ UNCHANGED <<chain, cursor, chainTail, rows, holders, snap, offset, block, want, resume>>
        /\ pc'[p] = "done" /\ \A q \in Proc : q # p => pc'[q] = pc[q]
    BY <1>7, <1>b DEF Abort, Goto, files, locals
  <2>2. QED BY <1>a, <1>b, <2>1, OutsideSteps DEF Sealing, Viewing, Untouched
<1>8. ASSUME NEW p \in Proc, PrepareRows(p) PROVE SealerInv'
  <2>1. /\ UNCHANGED <<chain, cursor, chainTail, holders>> /\ rows <= rows'
        /\ pc[p] = "prepareRows" /\ pc'[p] = "prepareChain"
        /\ \A q \in Proc : q # p => pc'[q] = pc[q]
    BY <1>8, <1>b, <1>c DEF PrepareRows, Goto
  <2>2. ChainSafe' /\ SealedTo' = SealedTo
    BY <1>0, <1>b, <2>1, ChainStays
  <2>3. chainTail' \notin {NoBlock, TornBlock} => Continues(chainTail)'
    <3>1. chainTail.hi \in Nat
      BY <1>0 DEF Typed, TypeOK, FilesTyped, Blocks
    <3>2. QED BY <1>0, <1>b, <2>1, <2>2, <3>1 DEF TailSafe, Continues
  <2>4. PairSafe(p)'
    BY <2>1 DEF PairSafe
  <2>5. QED BY <1>a, <2>1, <2>2, <2>3, <2>4, InsideSteps DEF Sealing
<1>9. ASSUME NEW p \in Proc, PrepareChain(p) PROVE SealerInv'
  <2>1. /\ UNCHANGED <<rows, cursor, holders>> /\ chain' = RepairedChain
        /\ chainTail' = NoBlock /\ pc[p] = "prepareChain" /\ pc'[p] = "snapshot"
        /\ \A q \in Proc : q # p => pc'[q] = pc[q]
    BY <1>9, <1>b DEF PrepareChain, Goto
  <2>2. ChainSafe'
    <3>1. CASE chainTail \in {NoBlock, TornBlock}
      BY <1>0, <1>b, <2>1, <3>1, ChainStays DEF RepairedChain
    <3>2. CASE chainTail \notin {NoBlock, TornBlock}
      <4>1. Continues(chainTail) /\ chainTail \in Blocks
        BY <1>0, <3>2 DEF TailSafe, Typed, TypeOK, FilesTyped
      <4>2. QED BY <1>0, <2>1, <3>2, <4>1, ChainGrows DEF RepairedChain
    <3>3. QED BY <3>1, <3>2
  <2>3. PairSafe(p)'
    BY <2>1 DEF PairSafe
  <2>4. QED BY <1>a, <2>1, <2>2, <2>3, InsideSteps DEF Sealing
<1>10. ASSUME NEW p \in Proc, Snapshot(p) \/ Reread(p) PROVE SealerInv'
  <2>1. /\ UNCHANGED <<chain, cursor, chainTail, rows, holders, block>>
        /\ pc[p] \in {"snapshot", "reread"}
        /\ \A q \in Proc : q # p => pc'[q] = pc[q]
    BY <1>10, <1>b DEF Snapshot, Reread, TakeSnapshot, Goto, files
  <2>2. ChainSafe' /\ SealedTo' = SealedTo
    BY <1>0, <1>b, <2>1, ChainStays
  <2>3. chainTail = NoBlock
    BY <1>0, <2>1 DEF TailSafe, Sealing
  <2>4. CASE Snapshot(p) /\ Matched > 0
    <3>1. /\ pc'[p] = "consume" /\ want'[p] = Matched /\ resume'[p] = "reread"
      BY <1>b, <2>4 DEF Snapshot, Goto, LocalsTyped
    <3>2. chain # <<>> /\ cursor = chain[Len(chain)].lo
      BY <2>4 DEF Matched
    <3>3. Matched = SealedTo - cursor
      <4>1. chain[Len(chain)].hi = SealedTo
        BY <3>2 DEF SealedTo
      <4>2. QED BY <1>b, <2>4, <3>2, <4>1 DEF Matched
    <3>4. PairSafe(p)'
      BY <2>1, <2>2, <3>1, <3>2, <3>3 DEF PairSafe
    <3>5. QED BY <1>a, <2>1, <2>2, <2>3, <3>4, InsideSteps DEF Sealing
  <2>5. CASE ~(Snapshot(p) /\ Matched > 0)
    <3>1. TakeSnapshot(p)
      BY <1>10, <2>5 DEF Snapshot, Reread
    <3>2. cursor = SealedTo
      <4>1. CASE Reread(p)
        BY <1>0, <4>1 DEF PairSafe, Reread
      <4>2. CASE Snapshot(p)
        <5>1. CASE chain = <<>>
          BY <1>0, <5>1, LastBlock
        <5>2. CASE chain # <<>>
          <6> DEFINE b == chain[Len(chain)]
          <6>1. /\ b \in Blocks /\ SealedTo = b.hi /\ b.lo <= b.hi
                /\ cursor \in {b.lo, SealedTo}
            BY <1>0, <5>2, LastBlock
          <6>2. SUFFICES ASSUME cursor = b.lo, b.lo < b.hi PROVE FALSE
            BY <6>1 DEF Blocks
          <6>3. (IF b.hi < rows THEN b.hi ELSE rows) = b.hi
            BY <1>b, <6>1
          <6>4. Matched = b.hi - b.lo
            BY <5>2, <6>1, <6>2, <6>3 DEF Matched, Blocks
          <6>5. QED BY <2>5, <4>2, <6>1, <6>2, <6>4 DEF Blocks
        <5>3. QED BY <5>1, <5>2
      <4>3. QED BY <1>10, <4>1, <4>2
    <3>3. /\ snap'[p] = [lo |-> cursor, hi |-> rows] /\ offset'[p] = 0
          /\ pc'[p] \in {"done", "build"}
      BY <1>b, <3>1 DEF TakeSnapshot, Goto, LocalsTyped
    <3>4. RowOf(p, offset[p])' = cursor
      BY <1>b, <3>2, <3>3 DEF RowOf
    <3>5. PairSafe(p)'
      BY <2>1, <2>2, <3>2, <3>3, <3>4 DEF PairSafe
    <3>6. QED BY <1>a, <2>1, <2>2, <2>3, <3>5, InsideSteps DEF Sealing
  <2>6. QED BY <2>4, <2>5
<1>11. ASSUME NEW p \in Proc, Consume(p) PROVE SealerInv'
  <2>1. /\ UNCHANGED <<chain, cursor, chainTail, rows, holders, snap, offset, block, resume>>
        /\ pc[p] = "consume"
        /\ \A q \in Proc : q # p => pc'[q] = pc[q]
        /\ \/ pc'[p] = "done"
           \/ pc'[p] = "publish" /\ want'[p] = cursor + want[p]
    BY <1>11, <1>b DEF Consume, Goto, files, LocalsTyped
  <2>2. ChainSafe' /\ SealedTo' = SealedTo
    BY <1>0, <1>b, <2>1, ChainStays
  <2>3. chainTail = NoBlock
    BY <1>0, <2>1 DEF TailSafe, Sealing
  <2>4. PairSafe(p)
    BY <1>0
  <2>5. RowOf(p, offset[p])' = RowOf(p, offset[p])
    BY <2>1 DEF RowOf
  <2>6. PairSafe(p)'
    BY <1>b, <2>1, <2>2, <2>4, <2>5 DEF PairSafe
  <2>7. QED BY <1>a, <2>1, <2>2, <2>3, <2>6, InsideSteps DEF Sealing
<1>12. ASSUME NEW p \in Proc, Publish(p) PROVE SealerInv'
  <2>1. /\ UNCHANGED <<chain, chainTail, rows, holders, snap, offset, block, want, resume>>
        /\ pc[p] = "publish" /\ pc'[p] = resume[p] /\ cursor' = want[p]
        /\ \A q \in Proc : q # p => pc'[q] = pc[q]
    BY <1>12, <1>b DEF Publish, Goto, locals
  <2>2. /\ chain # <<>> /\ want[p] = SealedTo /\ resume[p] \in {"reread", "next"}
        /\ resume[p] = "next" => SealedTo = RowOf(p, offset[p])
    BY <1>0, <2>1 DEF PairSafe
  <2>3. SealedTo' = SealedTo /\ RowOf(p, offset[p])' = RowOf(p, offset[p])
    BY <2>1 DEF SealedTo, RowOf
  <2>4. ChainSafe'
    BY <1>0, <2>1, <2>2, <2>3
       DEF ChainSafe, SealedInOrder, CursorAtHead, Sealed, SealedTo
  <2>5. chainTail = NoBlock
    BY <1>0, <2>1 DEF TailSafe, Sealing
  <2>6. PairSafe(p)'
    BY <2>1, <2>2, <2>3 DEF PairSafe
  <2>7. QED BY <1>a, <2>1, <2>4, <2>5, <2>6, InsideSteps DEF Sealing
<1>13. ASSUME NEW p \in Proc, Build(p) PROVE SealerInv'
  <2>0. PICK end \in (offset[p] + 1)..Pending(p):
          /\ block' = [block EXCEPT ![p] =
                         [lo |-> RowOf(p, offset[p]), hi |-> RowOf(p, end),
                          mark |-> end > snap[p].hi - snap[p].lo, seq |-> Len(chain)]]
          /\ offset' = [offset EXCEPT ![p] = end]
    BY <1>13 DEF Build
  <2> DEFINE b == [lo |-> RowOf(p, offset[p]), hi |-> RowOf(p, end),
                   mark |-> end > snap[p].hi - snap[p].lo, seq |-> Len(chain)]
  <2>1. /\ UNCHANGED <<chain, cursor, chainTail, rows, holders, snap>>
        /\ pc[p] = "build" /\ pc'[p] = "append" /\ block'[p] = b /\ offset'[p] = end
        /\ \A q \in Proc : q # p => pc'[q] = pc[q]
    BY <1>13, <1>b, <2>0 DEF Build, Goto, files, LocalsTyped
  <2>2. ChainSafe' /\ SealedTo' = SealedTo
    BY <1>0, <1>b, <2>1, ChainStays
  <2>3. chainTail = NoBlock
    BY <1>0, <2>1 DEF TailSafe, Sealing
  <2>4. cursor = SealedTo /\ SealedTo = RowOf(p, offset[p])
    BY <1>0, <2>1 DEF PairSafe
  <2>5. /\ snap[p] \in [lo : Nat, hi : Nat] /\ snap[p].lo <= snap[p].hi
        /\ snap[p].hi <= rows /\ offset[p] \in Nat /\ offset[p] <= Pending(p)
        /\ Pending(p) \in Nat
    BY <1>0, <1>b, <2>1, PendingType DEF Typed, SnapshotsSafe, LocalsTyped
  <2>6. end \in Nat /\ offset[p] <= end
    BY <2>5
  <2> HIDE DEF b
  <2>6a. /\ RowOf(p, end) \in Nat /\ RowOf(p, offset[p]) \in Nat
         /\ RowOf(p, offset[p]) <= RowOf(p, end) /\ RowOf(p, end) <= snap[p].hi
    BY <1>b, <2>5, <2>6, RowOrder
  <2>7. /\ RowOf(p, end) \in Nat /\ RowOf(p, offset[p]) <= RowOf(p, end)
        /\ RowOf(p, end) <= rows
    BY <1>b, <2>5, <2>6a
  <2>8. RowOf(p, offset[p])' = RowOf(p, end)
    BY <2>1 DEF RowOf
  <2> USE DEF b
  <2>9. Continues(block[p])' /\ block'[p].hi = RowOf(p, offset[p])'
    BY <2>1, <2>2, <2>4, <2>7, <2>8 DEF Continues
  <2>10. PairSafe(p)'
    BY <2>1, <2>9 DEF PairSafe
  <2>11. QED BY <1>a, <2>1, <2>2, <2>3, <2>10, InsideSteps DEF Sealing
<1>14. ASSUME NEW p \in Proc, AppendBlock(p) PROVE SealerInv'
  <2>1. chainTail = NoBlock /\ pc[p] = "append"
    BY <1>0, <1>14 DEF TailSafe, Sealing, AppendBlock
  <2>2. RepairedChain = chain
    BY <2>1 DEF RepairedChain
  <2>3. /\ Continues(block[p]) /\ block[p].hi = RowOf(p, offset[p])
        /\ block[p] \in Blocks
    BY <1>0, <1>b, <2>1 DEF PairSafe, LocalsTyped
  <2>4. /\ UNCHANGED <<rows, cursor, holders, snap, offset, block>>
        /\ chainTail' = NoBlock /\ chain' = Append(chain, block[p])
        /\ want'[p] = block[p].hi - block[p].lo /\ resume'[p] = "next"
        /\ pc'[p] = IF block[p].hi > block[p].lo THEN "consume" ELSE "next"
        /\ \A q \in Proc : q # p => pc'[q] = pc[q]
    BY <1>14, <1>b, <2>2, <2>3 DEF AppendBlock, Goto, Continues, LocalsTyped
  <2>5. /\ ChainSafe' /\ SealedTo' = block[p].hi
        /\ chain' # <<>> /\ chain'[Len(chain')] = block[p]
    BY <1>0, <2>3, <2>4, ChainGrows
  <2>6. RowOf(p, offset[p])' = RowOf(p, offset[p])
    BY <2>4 DEF RowOf
  <2>7. /\ block[p].lo = cursor /\ block[p].lo <= block[p].hi
        /\ block[p].lo \in Nat /\ block[p].hi \in Nat
    BY <2>3 DEF Continues, Blocks
  <2>8. PairSafe(p)'
    BY <2>3, <2>4, <2>5, <2>6, <2>7 DEF PairSafe
  <2>9. QED BY <1>a, <2>1, <2>4, <2>5, <2>8, InsideSteps DEF Sealing
<1>15. ASSUME NEW p \in Proc, AppendTorn(p) PROVE SealerInv'
  <2>1. chainTail = NoBlock /\ pc[p] = "append"
    BY <1>0, <1>15 DEF TailSafe, Sealing, AppendTorn
  <2>2. /\ UNCHANGED <<chain, cursor, rows, holders>>
        /\ chainTail' \in {TornBlock, block[p]} /\ pc'[p] = "done"
        /\ \A q \in Proc : q # p => pc'[q] = pc[q]
    BY <1>15, <1>b, <2>1 DEF AppendTorn, RepairedChain, Goto
  <2>3. ChainSafe' /\ SealedTo' = SealedTo
    BY <1>0, <1>b, <2>2, ChainStays
  <2>4. Continues(block[p])
    BY <1>0, <2>1 DEF PairSafe
  <2>5. chainTail' \notin {NoBlock, TornBlock} => Continues(chainTail)'
    BY <2>2, <2>3, <2>4 DEF Continues
  <2>6. PairSafe(p)'
    BY <2>2 DEF PairSafe
  <2>7. QED BY <1>a, <2>1, <2>2, <2>3, <2>5, <2>6, InsideSteps DEF Sealing
<1>16. ASSUME NEW p \in Proc, NextBlock(p) PROVE SealerInv'
  <2>1. /\ UNCHANGED <<chain, cursor, chainTail, rows, holders, snap, offset, block>>
        /\ pc[p] = "next" /\ pc'[p] \in {"build", "done"}
        /\ \A q \in Proc : q # p => pc'[q] = pc[q]
    BY <1>16, <1>b DEF NextBlock, Goto, files, locals
  <2>2. ChainSafe' /\ SealedTo' = SealedTo
    BY <1>0, <1>b, <2>1, ChainStays
  <2>3. chainTail = NoBlock
    BY <1>0, <2>1 DEF TailSafe, Sealing
  <2>4. RowOf(p, offset[p])' = RowOf(p, offset[p])
    BY <2>1 DEF RowOf
  <2>5. PairSafe(p)'
    BY <1>0, <2>1, <2>2, <2>4 DEF PairSafe
  <2>6. QED BY <1>a, <2>1, <2>2, <2>3, <2>5, InsideSteps DEF Sealing
<1>17. QED
  BY <1>1, <1>2, <1>3, <1>4, <1>5, <1>6, <1>7, <1>8, <1>9, <1>10, <1>11, <1>12,
     <1>13, <1>14, <1>15, <1>16 DEF Next

\* The invariant of the sealer, for an exclusive sealer lock: the chain is a
\* prefix of the staging log and the cursor is at one end of its last block.
THEOREM SealerIsSafe ==
  ASSUME ExclusiveSealer
  PROVE  Spec => []SealerSafe
<1>1. Init => SealerInv
  BY SealerInit
<1>2. SealerInv /\ [Next]_vars => SealerInv'
  BY SealerNext
<1>3. SealerInv => SealerSafe
  BY DEF SealerInv
<1>4. QED BY <1>1, <1>2, <1>3, PTL DEF Spec

\* No staged event is lost: it is in the chain or ahead of the cursor.
THEOREM NothingLost ==
  ASSUME ExclusiveSealer
  PROVE  Spec => []NoEventLost
<1>1. SealerInv => NoEventLost
  <2> SUFFICES ASSUME SealerInv, NEW r \in 1..rows, ~(r > cursor) PROVE r \in Sealed
    BY DEF NoEventLost
  <2>1. Typed /\ ChainSafe
    BY DEF SealerInv, SealerSafe, Typed
  <2>2. cursor \in Nat /\ SealedTo \in Nat /\ rows \in Nat /\ cursor <= SealedTo
    <3>1. CASE chain = <<>>
      BY <2>1, <3>1, LastBlock
    <3>2. CASE chain # <<>>
      BY <2>1, <3>2, LastBlock DEF Blocks
    <3>3. QED BY <3>1, <3>2
  <2>3. QED BY <2>1, <2>2 DEF ChainSafe
<1>2. QED BY <1>1, SealerInit, SealerNext, PTL DEF Spec

\* The chain holds the staging log in order, without gaps or repetitions.
THEOREM OrderKept ==
  ASSUME ExclusiveSealer
  PROVE  Spec => []SealedInOrder
<1>1. SealerInv => SealedInOrder
  BY DEF SealerInv, SealerSafe, ChainSafe
<1>2. QED BY <1>1, SealerInit, SealerNext, PTL DEF Spec

\* The cursor stays at one end of the last block, so recovery can tell whether
\* the block has been consumed.
THEOREM PairRecoverable ==
  ASSUME ExclusiveSealer
  PROVE  Spec => []CursorAtHead
<1>1. SealerInv => CursorAtHead
  BY DEF SealerInv, SealerSafe, ChainSafe
<1>2. QED BY <1>1, SealerInit, SealerNext, PTL DEF Spec

-----------------------------------------------------------------------------
\* One or two blocks appended to a chain leave what was there.
LEMMA Prefix ==
  ASSUME NEW c \in Seq(Blocks), NEW a \in Blocks, NEW b \in Blocks,
         NEW d \in {c, Append(c, a), Append(c, b), Append(Append(c, a), b)}
  PROVE  Len(d) >= Len(c) /\ SubSeq(d, 1, Len(c)) = c
<1>1. /\ d \in Seq(Blocks) /\ Len(c) \in Nat /\ Len(d) \in Nat /\ Len(d) >= Len(c)
      /\ \A i \in 1..Len(c) : d[i] = c[i]
  <2>1. CASE d = c
    BY <2>1
  <2>2. CASE d = Append(c, a) \/ d = Append(c, b)
    BY <2>2
  <2>3. CASE d = Append(Append(c, a), b)
    <3>1. Append(c, a) \in Seq(Blocks) /\ Len(Append(c, a)) = Len(c) + 1
      OBVIOUS
    <3>2. \A i \in 1..Len(c) : Append(c, a)[i] = c[i]
      OBVIOUS
    <3>3. /\ Len(d) = Len(c) + 2 /\ d \in Seq(Blocks)
          /\ \A i \in 1..Len(c) + 1 : d[i] = Append(c, a)[i]
      BY <2>3, <3>1
    <3>4. QED BY <3>2, <3>3
  <2>4. QED BY <2>1, <2>2, <2>3
<1>2. SubSeq(d, 1, Len(c)) \in Seq(Blocks) /\ Len(SubSeq(d, 1, Len(c))) = Len(c)
  BY <1>1
<1>3. \A i \in 1..Len(c) : SubSeq(d, 1, Len(c))[i] = c[i]
  BY <1>1
<1>4. QED BY <1>1, <1>2, <1>3

\* Whatever the sealer lock does, a step appends to the chain or leaves it.
LEMMA ChainKept ==
  ASSUME Typed, [Next]_vars
  PROVE  Len(chain') >= Len(chain) /\ SubSeq(chain', 1, Len(chain)) = chain
<1>1. chain \in Seq(Blocks) /\ chainTail \in Blocks /\ block \in [Proc -> Blocks]
  BY DEF Typed, TypeOK, FilesTyped, LocalsTyped
<1>2. RepairedChain \in {chain, Append(chain, chainTail)}
  BY DEF RepairedChain
<1>3. CASE UNCHANGED chain
  BY <1>1, <1>3, Prefix
<1>4. ASSUME NEW p \in Proc, chain' = RepairedChain \/ chain' = Append(RepairedChain, block[p])
      PROVE  Len(chain') >= Len(chain) /\ SubSeq(chain', 1, Len(chain)) = chain
  <2>1. chain' \in {chain, Append(chain, chainTail), Append(chain, block[p]),
                    Append(Append(chain, chainTail), block[p])}
    BY <1>2, <1>4
  <2>2. block[p] \in Blocks
    BY <1>1
  <2>3. QED BY <1>1, <2>1, <2>2, Prefix
<1>5. UNCHANGED chain \/ \E p \in Proc :
        chain' = RepairedChain \/ chain' = Append(RepairedChain, block[p])
  BY DEF Next, vars, files, Stage, StageTorn, BeginSeal, PrepareRows, PrepareChain,
     Snapshot, Reread, Consume, Publish, Build, AppendBlock, AppendTorn, NextBlock,
     Release, Abort, BeginView, BeginFreeView, ReadChain, ReadRows, ReadCursor, EndView
<1>6. QED BY <1>3, <1>4, <1>5

\* Sealed history is never rewritten, shortened or reordered, even when two
\* processes seal at once.
THEOREM HistoryKept == Spec => ChainAppendOnly
<1>1. Typed /\ [Next]_vars =>
        [Len(chain') >= Len(chain) /\ SubSeq(chain', 1, Len(chain)) = chain]_vars
  BY ChainKept
<1>2. QED BY <1>1, TypedInit, TypedNext, PTL DEF Spec, ChainAppendOnly

-----------------------------------------------------------------------------
\* What a step does to the log: it accepts up to two events (its own and one
\* that an interrupted writer left whole), or adds a block that continues the
\* chain, or neither.
LEMMA LogSteps ==
  ASSUME SealerInv, [Next]_vars
  PROVE  \/ UNCHANGED chain /\ rows' \in rows..rows + 2
         \/ /\ UNCHANGED <<rows, cursor>>
            /\ \E b \in Blocks : Continues(b) /\ chain' = Append(chain, b)
<1>0. /\ Typed /\ TailSafe /\ (\A q \in Proc : PairSafe(q)) /\ rows \in Nat
      /\ chainTail \in Blocks /\ block \in [Proc -> Blocks]
  BY Numbers DEF SealerInv, SealerSafe, Typed, TypeOK, FilesTyped, LocalsTyped,
     NumbersAssumption
<1>1. RepairedRows \in rows..rows + 1
  BY <1>0 DEF RepairedRows
<1>2. ASSUME NEW p \in Proc, Stage(p) \/ StageTorn(p) \/ PrepareRows(p)
      PROVE  UNCHANGED chain /\ rows' \in rows..rows + 2
  BY <1>0, <1>1, <1>2 DEF Stage, StageTorn, PrepareRows
<1>3. ASSUME NEW p \in Proc, PrepareChain(p)
      PROVE  /\ UNCHANGED <<rows, cursor>>
             /\ chain' = chain \/ \E b \in Blocks : Continues(b) /\ chain' = Append(chain, b)
  BY <1>0, <1>3 DEF PrepareChain, RepairedChain, TailSafe
<1>4. ASSUME NEW p \in Proc, AppendBlock(p) \/ AppendTorn(p)
      PROVE  /\ UNCHANGED <<rows, cursor>>
             /\ chain' = chain \/ \E b \in Blocks : Continues(b) /\ chain' = Append(chain, b)
  <2>1. pc[p] = "append"
    BY <1>4 DEF AppendBlock, AppendTorn
  <2>2. RepairedChain = chain /\ Continues(block[p]) /\ block[p] \in Blocks
    BY <1>0, <2>1 DEF TailSafe, Sealing, RepairedChain, PairSafe
  <2>3. QED BY <1>4, <2>2 DEF AppendBlock, AppendTorn
<1>5. \/ UNCHANGED <<rows, chain>>
      \/ \E p \in Proc : \/ Stage(p) \/ StageTorn(p) \/ PrepareRows(p)
                         \/ PrepareChain(p) \/ AppendBlock(p) \/ AppendTorn(p)
  BY DEF Next, vars, files, BeginSeal, Snapshot, Reread, Consume, Publish, Build,
     NextBlock, Release, Abort, BeginView, BeginFreeView, ReadChain, ReadRows,
     ReadCursor, EndView
<1>6. QED BY <1>0, <1>2, <1>3, <1>4, <1>5

\* The spine implements EventLog: the accepted events are the rows of the
\* staging log, the sealed ones those in the chain.
THEOREM ImplementsLog ==
  ASSUME ExclusiveSealer
  PROVE  Spec => LogSpec
<1>1. Init => Log!Init
  BY DEF Init, Log!Init, Sealed, SealedIn
<1>2. SealerInv /\ SealerInv' /\ [Next]_vars => [Log!Next]_(Log!vars)
  <2> SUFFICES ASSUME SealerInv, SealerInv', [Next]_vars
               PROVE  [Log!Next]_(Log!vars)
    OBVIOUS
  <2>0. /\ Typed /\ ChainSafe /\ ChainSafe' /\ rows \in Nat
        /\ SealedTo \in Nat /\ Sealed = 1..SealedTo /\ Sealed' = 1..SealedTo'
    BY LastBlock, Numbers DEF SealerInv, SealerSafe, Typed, ChainSafe
  <2>1. CASE UNCHANGED chain /\ rows' \in rows..rows + 2
    <3>1. Sealed' = Sealed
      BY <2>1 DEF Sealed
    <3>2. rows' = rows \/ rows' \in rows + 1..rows + 2
      BY <2>0, <2>1
    <3>3. QED BY <3>1, <3>2 DEF Log!Next, Log!Accept, Log!vars
  <2>2. ASSUME NEW b \in Blocks, UNCHANGED <<rows, cursor>>, Continues(b),
               chain' = Append(chain, b)
        PROVE  [Log!Next]_(Log!vars)
    <3>1. SealedTo' = b.hi
      BY <2>0, <2>2, ChainGrows
    <3>2. b.hi \in Nat /\ SealedTo <= b.hi /\ b.hi <= rows
      BY <2>2 DEF Continues, Blocks
    <3>3. CASE b.hi = SealedTo
      BY <2>0, <2>2, <3>1, <3>3 DEF Log!vars
    <3>4. CASE b.hi # SealedTo
      <4>1. b.hi \in 1..rows /\ b.hi \notin Sealed /\ Sealed \subseteq Sealed'
        BY <2>0, <3>1, <3>2, <3>4
      <4>2. QED BY <2>0, <2>2, <3>1, <4>1 DEF Log!Next, Log!Seal
    <3>5. QED BY <3>3, <3>4
  <2>3. QED BY <2>1, <2>2, LogSteps
<1>3. QED BY <1>1, <1>2, SealerInit, SealerNext, PTL DEF Spec, LogSpec, Log!Spec

-----------------------------------------------------------------------------
\* A reader is not disturbed by a step of another process.
LEMMA ReadersKept ==
  ASSUME SealerInv, ViewSafe, NEW p \in Proc, NEW q \in Proc, q # p,
         pc'[q] = pc[q], view'[q] = view[q], q \in holders' => q \in holders,
         pc[p] \in Sealing \/ UNCHANGED <<chain, cursor>>
  PROVE  ReaderSafe(q)'
<1>1. ReaderSafe(q) /\ LockSafe
  BY DEF ViewSafe, SealerInv, SealerSafe
<1>2. CASE pc[q] \in Viewing
  <2>1. q \in holders
    BY <1>1, <1>2 DEF LockSafe
  <2>2. UNCHANGED <<chain, cursor>>
    BY <1>1, <2>1, Alone
  <2>3. Sealed' = Sealed
    BY <2>2 DEF Sealed
  <2>4. QED BY <1>1, <2>2, <2>3 DEF ReaderSafe
<1>3. CASE pc[q] \notin Viewing
  BY <1>1, <1>3 DEF ReaderSafe, Viewing
<1>4. QED BY <1>2, <1>3

\* Every step keeps the stable views stable.
LEMMA ViewNext ==
  ASSUME SealerInv, ViewSafe, [Next]_vars
  PROVE  ViewSafe'
<1>0. /\ Typed /\ ChainSafe /\ pc \in [Proc -> Labels] /\ view \in [Proc -> Views]
      /\ rows \in Nat /\ cursor \in Nat /\ cursor <= rows
      /\ \A q \in Proc : ReaderSafe(q) /\ view[q].need <= rows
  BY LastBlock DEF SealerInv, SealerSafe, Typed, TypeOK, LocalsTyped, ViewSafe, SnapshotsSafe
<1>1. CASE UNCHANGED vars
  BY <1>0, <1>1 DEF vars, files, locals, ViewSafe, ReaderSafe, Sealed
<1>2. ASSUME NEW p \in Proc, Stage(p) \/ StageTorn(p) PROVE ViewSafe'
  BY <1>0, <1>2 DEF Stage, StageTorn, locals, ViewSafe, ReaderSafe, Sealed
<1>3. ASSUME NEW p \in Proc,
             \/ BeginSeal(p) \/ PrepareRows(p) \/ PrepareChain(p) \/ Snapshot(p)
             \/ Reread(p) \/ Consume(p) \/ Publish(p) \/ Build(p) \/ AppendBlock(p)
             \/ AppendTorn(p) \/ NextBlock(p) \/ Release(p) \/ Abort(p)
      PROVE  ViewSafe'
  <2>1. /\ pc[p] \in Sealing \/ UNCHANGED <<chain, cursor>>
        /\ holders' \subseteq holders \cup {p}
        /\ \A q \in Proc : q # p => pc'[q] = pc[q] /\ view'[q] = view[q]
    BY <1>0, <1>3 DEF BeginSeal, PrepareRows, PrepareChain, Snapshot, Reread,
       TakeSnapshot, Consume, Publish, Build, AppendBlock, AppendTorn, NextBlock,
       Release, Abort, Goto, files, locals, Sealing
  <2>2. \A q \in Proc : q # p => ReaderSafe(q)'
    BY <2>1, ReadersKept
  <2>3. ReaderSafe(p)'
    <3>1. CASE Release(p)
      BY <1>0, <3>1 DEF Release, Goto, ReaderSafe
    <3>2. CASE Publish(p)
      <4>1. pc'[p] \in {"reread", "next"}
        BY <1>0, <3>2 DEF Publish, Goto, SealerInv, SealerSafe, PairSafe
      <4>2. QED BY <4>1 DEF ReaderSafe
    <3>3. CASE ~Release(p) /\ ~Publish(p)
      <4>1. pc'[p] \in Sealing \cup {"done"}
        BY <1>0, <1>3, <3>3 DEF BeginSeal, PrepareRows, PrepareChain, Snapshot, Reread,
           TakeSnapshot, Consume, Build, AppendBlock, AppendTorn, NextBlock, Abort,
           Goto, Sealing
      <4>2. QED BY <4>1 DEF ReaderSafe, Sealing
    <3>4. QED BY <3>1, <3>2, <3>3
  <2>4. QED BY <2>2, <2>3 DEF ViewSafe
<1>4. ASSUME NEW p \in Proc,
             \/ BeginView(p) \/ BeginFreeView(p) \/ ReadChain(p) \/ ReadRows(p)
             \/ ReadCursor(p) \/ EndView(p)
      PROVE  ViewSafe'
  <2>1. /\ UNCHANGED <<chain, cursor>> /\ holders' \subseteq holders \cup {p}
        /\ \A q \in Proc : q # p => pc'[q] = pc[q] /\ view'[q] = view[q]
    BY <1>0, <1>4 DEF BeginView, BeginFreeView, ReadChain, ReadRows, ReadCursor,
       EndView, Goto, files, locals
  <2>2. \A q \in Proc : q # p => ReaderSafe(q)'
    BY <2>1, ReadersKept
  <2>3. Sealed' = Sealed /\ view[p] \in Views /\ ReaderSafe(p) /\ view[p].need <= rows
    BY <1>0, <2>1 DEF Sealed
  <2>4. CASE BeginView(p) \/ BeginFreeView(p) \/ EndView(p)
    <3>1. ReaderSafe(p)'
      BY <1>0, <2>3, <2>4 DEF BeginView, BeginFreeView, EndView, Goto, ReaderSafe
    <3>2. QED BY <2>2, <3>1 DEF ViewSafe
  <2>5. CASE ReadChain(p)
    <3>1. view'[p].sealed = Sealed /\ holders' = holders
      BY <1>0, <2>5 DEF ReadChain, Views
    <3>2. pc'[p] = IF pc[p] = "view" THEN "viewRows" ELSE "freeRows"
      BY <1>0, <2>5 DEF ReadChain, Goto
    <3>3. pc[p] # "view" => pc[p] = "free"
      BY <2>5 DEF ReadChain
    <3>4. ReaderSafe(p)'
      BY <2>3, <3>1, <3>2, <3>3 DEF ReaderSafe
    <3>5. QED BY <2>2, <3>4 DEF ViewSafe
  <2>6. CASE ReadRows(p)
    <3>1. /\ view'[p].rows = rows /\ view'[p].sealed = view[p].sealed
          /\ view'[p].need = view[p].need /\ holders' = holders
      BY <1>0, <2>6 DEF ReadRows, Views
    <3>2. pc'[p] = IF pc[p] = "viewRows" THEN "viewCursor" ELSE "freeCursor"
      BY <1>0, <2>6 DEF ReadRows, Goto
    <3>3. pc[p] # "viewRows" => pc[p] = "freeRows"
      BY <2>6 DEF ReadRows
    <3>4. view[p].need \in Nat
      BY <2>3 DEF Views
    <3>5. ReaderSafe(p)'
      BY <1>0, <2>1, <2>3, <3>1, <3>2, <3>3, <3>4 DEF ReaderSafe
    <3>6. QED BY <2>2, <3>5 DEF ViewSafe
  <2>7. CASE ReadCursor(p)
    <3>1. /\ view'[p].events = view[p].sealed \cup (cursor + 1 .. view[p].rows)
          /\ view'[p].need = view[p].need /\ holders' = holders
      BY <1>0, <2>7 DEF ReadCursor, Views
    <3>2. /\ pc'[p] = IF cursor > view[p].rows THEN "refused"
                       ELSE IF pc[p] = "viewCursor" THEN "viewed" ELSE "freeViewed"
          /\ pc[p] \in {"viewCursor", "freeCursor"}
      BY <1>0, <2>7 DEF ReadCursor, Goto
    <3>3. view[p].need \in Nat /\ view[p].rows \in Nat
      BY <2>3 DEF Views
    <3>4. CASE pc[p] = "freeCursor"
      <4>1. pc'[p] \in {"refused", "freeViewed"} /\ p \notin holders
        BY <2>3, <3>2, <3>4 DEF ReaderSafe
      <4>2. ReaderSafe(p)'
        BY <3>1, <4>1 DEF ReaderSafe
      <4>3. QED BY <2>2, <4>2 DEF ViewSafe
    <3>5. CASE pc[p] = "viewCursor"
      <4>1. /\ view[p].sealed = Sealed /\ view[p].rows >= view[p].need
            /\ view[p].rows >= cursor
        BY <2>3, <3>5 DEF ReaderSafe
      <4>2. cursor <= SealedTo /\ SealedTo \in Nat /\ Sealed = 1..SealedTo
        <5>1. CASE chain = <<>>
          BY <1>0, <5>1, LastBlock DEF ChainSafe
        <5>2. CASE chain # <<>>
          BY <1>0, <5>2, LastBlock DEF ChainSafe
        <5>3. QED BY <5>1, <5>2
      <4>3. 1..view[p].need \subseteq Sealed \cup (cursor + 1 .. view[p].rows)
        BY <1>0, <3>3, <4>1, <4>2
      <4>4. pc'[p] = "viewed"
        BY <1>0, <3>2, <3>3, <3>5, <4>1
      <4>5. ReaderSafe(p)'
        BY <3>1, <4>1, <4>3, <4>4 DEF ReaderSafe
      <4>6. QED BY <2>2, <4>5 DEF ViewSafe
    <3>6. QED BY <3>2, <3>4, <3>5
  <2>8. QED BY <1>4, <2>4, <2>5, <2>6, <2>7
<1>5. QED BY <1>1, <1>2, <1>3, <1>4 DEF Next

\* A view under the sealer lock holds every event staged before it began and
\* is never refused, whatever writers do in the meantime.
THEOREM ViewsComplete ==
  ASSUME ExclusiveSealer
  PROVE  Spec => []StableViewComplete
<1>1. Init => ViewSafe
  BY DEF Init, ViewSafe, ReaderSafe
<1>2. SealerInv /\ ViewSafe => StableViewComplete
  BY DEF SealerInv, TypeOK, ViewSafe, ReaderSafe, StableViewComplete
<1>3. SealerInv /\ ViewSafe /\ [Next]_vars => ViewSafe'
  BY ViewNext
<1>4. QED BY <1>1, <1>2, <1>3, SealerInit, SealerNext, PTL DEF Spec
=============================================================================
