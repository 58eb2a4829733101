------------------------------- MODULE Spine -------------------------------
(***************************************************************************)
(* The two-stage event spine (src/src/spine/spine.ts) over its file store  *)
(* (src/src/spine/store.ts).  stage() appends a row to staging.jsonl under *)
(* the append lock of that file.  seal() and checkpoint() run under the    *)
(* lock spine.sealer: they repair torn tails, take a snapshot of the rows  *)
(* behind staging.cursor, and drain it block by block, appending each      *)
(* block to chain.jsonl and then moving the cursor.  Nothing makes the     *)
(* block and the cursor one transaction; recovery does.                    *)
(*                                                                         *)
(* An event is its row number in staging.jsonl (ids are unique and the     *)
(* file is append-only), so a block is an interval of rows, followed by a  *)
(* synthesised marker in a checkpoint.  An append is atomic against other  *)
(* appends of the file (LogicalAppendLock), but may be cut short.          *)
(***************************************************************************)
EXTENDS Integers, Sequences

CONSTANTS
  Proc,           \* processes sharing the data directory
  MaxRows,        \* bound: rows ever written to staging.jsonl
  MaxSeals,       \* bound: calls of seal() and checkpoint()
  MaxAborts,      \* bound: crashes and I/O errors
  BlockCap,       \* events per block (MAX_BLOCK_BYTES)
  ExclusiveSealer \* FALSE: the sealer lock may admit a second holder

ASSUME RowsAssumption == MaxRows \in Nat
ASSUME BoundsAssumption == MaxSeals \in Nat /\ MaxAborts \in Nat
ASSUME CapAssumption == BlockCap \in Nat \ {0}
ASSUME SealerAssumption == ExclusiveSealer \in BOOLEAN

VARIABLES
  rows,      \* complete rows of staging.jsonl
  rowTail,   \* unterminated bytes behind them: "none", "torn" or "whole"
  cursor,    \* staging.cursor: rows consumed
  chain,     \* chain.jsonl: sequence of blocks
  chainTail, \* unterminated block behind it: NoBlock, TornBlock or the block
  holders,   \* processes that hold spine.sealer
  pc,        \* where each process is
  marker,    \* the call is checkpoint(), which appends a marker event
  snap,      \* snapshot [lo, hi]: rows lo+1..hi are being drained
  offset,    \* events of the snapshot already in blocks
  block,     \* the block being appended, with the height it was built on
  want,      \* argument, then target, of the pending cursor move
  resume,    \* where to go when the cursor has been moved
  view,      \* what a reader has seen so far
  seals, aborts  \* how much of the bounds is used up

files == <<rows, rowTail, cursor, chain, chainTail>>
locals == <<marker, snap, offset, block, want, resume, view>>
vars == <<files, holders, pc, locals, seals, aborts>>

NoBlock == [lo |-> 0, hi |-> 0, mark |-> FALSE, seq |-> -1]
TornBlock == [lo |-> 0, hi |-> 0, mark |-> FALSE, seq |-> -2]
NoSnap == [lo |-> 0, hi |-> 0]
NoView == [need |-> 0, sealed |-> {}, rows |-> 0, events |-> {}]

Init ==
  /\ rows = 0 /\ rowTail = "none" /\ cursor = 0
  /\ chain = <<>> /\ chainTail = NoBlock
  /\ holders = {}
  /\ pc = [p \in Proc |-> "idle"]
  /\ marker = [p \in Proc |-> FALSE]
  /\ snap = [p \in Proc |-> NoSnap]
  /\ offset = [p \in Proc |-> 0]
  /\ block = [p \in Proc |-> NoBlock]
  /\ want = [p \in Proc |-> 0]
  /\ resume = [p \in Proc |-> "idle"]
  /\ view = [p \in Proc |-> NoView]
  /\ seals = 0 /\ aborts = 0

Goto(p, l) == pc' = [pc EXCEPT ![p] = l]

-----------------------------------------------------------------------------
(* The store. *)

\* Mutant of RepairedRows: the truncation takes the last complete row too.
RepairedRowsShort ==
  CASE rowTail = "whole" -> rows + 1
    [] rowTail = "torn" /\ rows > 0 -> rows - 1
    [] OTHER -> rows

\* prepare(staging): a whole record gets its newline, a torn one is set aside.
RepairedRows == IF rowTail = "whole" THEN rows + 1 ELSE rows

\* prepare(chain)
RepairedChain ==
  IF chainTail \in {NoBlock, TornBlock} THEN chain ELSE Append(chain, chainTail)

\* The events of a block that come from staging.
Rows(b) == b.lo + 1 .. b.hi
SealedIn(c) == UNION {Rows(c[i]) : i \in DOMAIN c}
Sealed == SealedIn(chain)
\* The last staged row that is in the chain.
SealedTo == IF chain = <<>> THEN 0 ELSE chain[Len(chain)].hi

-----------------------------------------------------------------------------
(* Writers: stage() is synchronous and takes no part in the sealer lock. *)

\* stage(): repair, append, acknowledge.
Stage(p) ==
  /\ pc[p] = "idle"
  /\ RepairedRows < MaxRows
  /\ rows' = RepairedRows + 1
  /\ rowTail' = "none"
  /\ UNCHANGED <<cursor, chain, chainTail, holders, pc, locals, seals, aborts>>

\* stage() is cut short: the caller gets no acknowledgement.
StageTorn(p) ==
  /\ pc[p] = "idle"
  /\ RepairedRows < MaxRows
  /\ aborts < MaxAborts
  /\ rows' = RepairedRows
  /\ rowTail' \in {"none", "torn", "whole"}
  /\ aborts' = aborts + 1
  /\ UNCHANGED <<cursor, chain, chainTail, holders, pc, locals, seals>>

-----------------------------------------------------------------------------
(* The sealer. *)

\* lock.withLock("spine.sealer", ...).  An exclusive lock has no holder here.
MayAcquire == ExclusiveSealer => holders = {}

\* seal() or checkpoint() gets the lock.
BeginSeal(p) ==
  /\ pc[p] = "idle"
  /\ MayAcquire
  /\ seals < MaxSeals
  /\ seals' = seals + 1
  /\ holders' = holders \cup {p}
  /\ marker' \in {[marker EXCEPT ![p] = b] : b \in BOOLEAN}
  /\ Goto(p, "prepareRows")
  /\ UNCHANGED <<files, snap, offset, block, want, resume, view, aborts>>

\* prepareForSeal() on staging ...
PrepareRows(p) ==
  /\ pc[p] = "prepareRows"
  /\ rows' = RepairedRows
  /\ rowTail' = "none"
  /\ Goto(p, "prepareChain")
  /\ UNCHANGED <<cursor, chain, chainTail, holders, locals, seals, aborts>>

\* Mutant of PrepareChain: a torn block takes the one before it along.
PrepareChainShort(p) ==
  /\ pc[p] = "prepareChain"
  /\ chain' = IF chainTail = TornBlock /\ chain # <<>>
              THEN SubSeq(chain, 1, Len(chain) - 1) ELSE RepairedChain
  /\ chainTail' = NoBlock
  /\ Goto(p, "snapshot")
  /\ UNCHANGED <<rows, rowTail, cursor, holders, locals, seals, aborts>>

\* ... and on the chain.
PrepareChain(p) ==
  /\ pc[p] = "prepareChain"
  /\ chain' = RepairedChain
  /\ chainTail' = NoBlock
  /\ Goto(p, "snapshot")
  /\ UNCHANGED <<rows, rowTail, cursor, holders, locals, seals, aborts>>

\* Mutant of Matched: the cursor is believed.
MatchedNever == 0

\* recoverCommittedStagingPrefix: how many staged rows are already at the head
\* of the last block; all but a marker of that block must match.
Matched ==
  IF chain = <<>> THEN 0
  ELSE LET b == chain[Len(chain)]
           m == (IF b.hi < rows THEN b.hi ELSE rows) - cursor
           unmatched == (b.hi - b.lo - m) + (IF b.mark THEN 1 ELSE 0)
       IN  IF b.lo = cursor /\ m > 0 /\ unmatched <= 1 THEN m ELSE 0

\* Drain a snapshot of the unconsumed rows, or stop when there is nothing to do.
\* A checkpoint always has its marker.
TakeSnapshot(p) ==
  /\ snap' = [snap EXCEPT ![p] = [lo |-> cursor, hi |-> rows]]
  /\ offset' = [offset EXCEPT ![p] = 0]
  /\ Goto(p, IF cursor = rows /\ ~marker[p] THEN "done" ELSE "build")

\* readStaged, lastBlock, and the start of recovery when the last block has
\* been committed without its cursor.
Snapshot(p) ==
  /\ pc[p] = "snapshot"
  /\ IF Matched > 0
       THEN /\ want' = [want EXCEPT ![p] = Matched]
            /\ resume' = [resume EXCEPT ![p] = "reread"]
            /\ Goto(p, "consume")
            /\ UNCHANGED <<snap, offset>>
       ELSE TakeSnapshot(p) /\ UNCHANGED <<want, resume>>
  /\ UNCHANGED <<files, holders, marker, block, view, seals, aborts>>

\* readStaged again after recovery.
Reread(p) ==
  /\ pc[p] = "reread"
  /\ TakeSnapshot(p)
  /\ UNCHANGED <<files, holders, marker, block, want, resume, view, seals, aborts>>

\* Mutant of Consume: the whole snapshot is removed with its first block.
ConsumeAll(p) ==
  /\ pc[p] = "consume"
  /\ want' = [want EXCEPT ![p] = rows]
  /\ Goto(p, "publish")
  /\ UNCHANGED <<files, holders, marker, snap, offset, block, resume, view, seals, aborts>>

\* removeStaged(count): read the log and the cursor; refuse to overrun.
Consume(p) ==
  /\ pc[p] = "consume"
  /\ IF want[p] > rows - cursor
       THEN Goto(p, "done") /\ UNCHANGED want
       ELSE Goto(p, "publish") /\ want' = [want EXCEPT ![p] = cursor + want[p]]
  /\ UNCHANGED <<files, holders, marker, snap, offset, block, resume, view, seals, aborts>>

\* publishStagingCursor: an atomic rename.
Publish(p) ==
  /\ pc[p] = "publish"
  /\ cursor' = want[p]
  /\ Goto(p, resume[p])
  /\ UNCHANGED <<rows, rowTail, chain, chainTail, holders, locals, seals, aborts>>

\* Events of the snapshot, the marker included.
Pending(p) == snap[p].hi - snap[p].lo + (IF marker[p] THEN 1 ELSE 0)

\* The staging row of the n-th event of the snapshot; a marker is in no row.
RowOf(p, n) ==
  IF n < snap[p].hi - snap[p].lo THEN snap[p].lo + n ELSE snap[p].hi

\* One round of drainSnapshot: the next events that fit, on the current head.  Events
\* differ in size, so that any number up to BlockCap may fit.
Build(p) ==
  /\ pc[p] = "build"
  /\ \E end \in (offset[p] + 1)..Pending(p):
         /\ end <= offset[p] + BlockCap
         /\ block' = [block EXCEPT ![p] =
                        [lo |-> RowOf(p, offset[p]), hi |-> RowOf(p, end),
                         mark |-> end > snap[p].hi - snap[p].lo, seq |-> Len(chain)]]
         /\ offset' = [offset EXCEPT ![p] = end]
  /\ Goto(p, "append")
  /\ UNCHANGED <<files, holders, marker, snap, want, resume, view, seals, aborts>>

\* appendBlock: validateBlock against the head, repair, append.  A block that was
\* built on another head is refused before the repair and the call throws.
AppendBlock(p) ==
  /\ pc[p] = "append"
  /\ IF block[p].seq # Len(RepairedChain)
       THEN /\ Goto(p, "done")
            /\ UNCHANGED <<chain, chainTail, want, resume>>
       ELSE /\ chainTail' = NoBlock
            /\ chain' = Append(RepairedChain, block[p])
            /\ want' = [want EXCEPT ![p] = block[p].hi - block[p].lo]
            /\ resume' = [resume EXCEPT ![p] = "next"]
            /\ Goto(p, IF block[p].hi > block[p].lo THEN "consume" ELSE "next")
  /\ UNCHANGED <<rows, rowTail, cursor, holders, marker, snap, offset, block,
                 view, seals, aborts>>

\* The append is cut short.
AppendTorn(p) ==
  /\ pc[p] = "append"
  /\ aborts < MaxAborts
  /\ block[p].seq = Len(RepairedChain)
  /\ chain' = RepairedChain
  /\ chainTail' \in {TornBlock, block[p]}
  /\ aborts' = aborts + 1
  /\ Goto(p, "done")
  /\ UNCHANGED <<rows, rowTail, cursor, holders, locals, seals>>

\* The next block of the drain, or the end of it.
NextBlock(p) ==
  /\ pc[p] = "next"
  /\ Goto(p, IF offset[p] < Pending(p) THEN "build" ELSE "done")
  /\ UNCHANGED <<files, holders, locals, seals, aborts>>

\* withLock's finally: release; the call's local variables are gone.
Release(p) ==
  /\ pc[p] = "done"
  /\ holders' = holders \ {p}
  /\ Goto(p, "idle")
  /\ marker' = [marker EXCEPT ![p] = FALSE]
  /\ snap' = [snap EXCEPT ![p] = NoSnap]
  /\ offset' = [offset EXCEPT ![p] = 0]
  /\ block' = [block EXCEPT ![p] = NoBlock]
  /\ want' = [want EXCEPT ![p] = 0]
  /\ resume' = [resume EXCEPT ![p] = "idle"]
  /\ view' = [view EXCEPT ![p] = NoView]
  /\ UNCHANGED <<files, seals, aborts>>

\* An I/O error at any point of the locked section, or the death of the
\* process; the lock is released, or taken over and so released.
Abort(p) ==
  /\ pc[p] \notin {"idle", "done", "free", "freeRows", "freeCursor"}
  /\ aborts < MaxAborts
  /\ aborts' = aborts + 1
  /\ Goto(p, "done")
  /\ UNCHANGED <<files, holders, locals, seals>>

-----------------------------------------------------------------------------
(* Readers: currentEvents() reads the chain, then staging, then the cursor. *)

\* Mutant of BeginView: the view does not wait for the sealer.
BeginViewUnlocked(p) ==
  /\ pc[p] = "idle"
  /\ holders' = holders \cup {p}
  /\ view' = [view EXCEPT ![p] = [NoView EXCEPT !.need = rows]]
  /\ Goto(p, "view")
  /\ UNCHANGED <<files, marker, snap, offset, block, want, resume, seals, aborts>>

\* withStableEventView: the reader holds the sealer lock.
BeginView(p) ==
  /\ pc[p] = "idle"
  /\ MayAcquire
  /\ holders' = holders \cup {p}
  /\ view' = [view EXCEPT ![p] = [NoView EXCEPT !.need = rows]]
  /\ Goto(p, "view")
  /\ UNCHANGED <<files, marker, snap, offset, block, want, resume, seals, aborts>>

\* currentEvents() on its own.
BeginFreeView(p) ==
  /\ pc[p] = "idle"
  /\ view' = [view EXCEPT ![p] = [NoView EXCEPT !.need = rows]]
  /\ Goto(p, "free")
  /\ UNCHANGED <<files, holders, marker, snap, offset, block, want, resume, seals, aborts>>

\* replay()
ReadChain(p) ==
  /\ pc[p] \in {"view", "free"}
  /\ view' = [view EXCEPT ![p].sealed = Sealed]
  /\ Goto(p, IF pc[p] = "view" THEN "viewRows" ELSE "freeRows")
  /\ UNCHANGED <<files, holders, marker, snap, offset, block, want, resume, seals, aborts>>

\* pending(): the rows ...
ReadRows(p) ==
  /\ pc[p] \in {"viewRows", "freeRows"}
  /\ view' = [view EXCEPT ![p].rows = rows]
  /\ Goto(p, IF pc[p] = "viewRows" THEN "viewCursor" ELSE "freeCursor")
  /\ UNCHANGED <<files, holders, marker, snap, offset, block, want, resume, seals, aborts>>

\* ... and the cursor; one beyond the rows just read is refused.
ReadCursor(p) ==
  /\ pc[p] \in {"viewCursor", "freeCursor"}
  /\ view' = [view EXCEPT ![p].events =
                view[p].sealed \cup (cursor + 1 .. view[p].rows)]
  /\ Goto(p, IF cursor > view[p].rows THEN "refused"
             ELSE IF pc[p] = "viewCursor" THEN "viewed" ELSE "freeViewed")
  /\ UNCHANGED <<files, holders, marker, snap, offset, block, want, resume, seals, aborts>>

\* The reader uses its view and returns.
EndView(p) ==
  /\ pc[p] \in {"viewed", "freeViewed", "refused"}
  /\ Goto(p, "done")
  /\ UNCHANGED <<files, holders, locals, seals, aborts>>

Next ==
  \E p \in Proc :
    \/ Stage(p) \/ StageTorn(p)
    \/ BeginSeal(p) \/ PrepareRows(p) \/ PrepareChain(p) \/ Snapshot(p)
    \/ Reread(p) \/ Consume(p) \/ Publish(p) \/ Build(p) \/ AppendBlock(p)
    \/ AppendTorn(p) \/ NextBlock(p) \/ Release(p) \/ Abort(p)
    \/ BeginView(p) \/ BeginFreeView(p) \/ ReadChain(p) \/ ReadRows(p)
    \/ ReadCursor(p) \/ EndView(p)

Spec == Init /\ [][Next]_vars

-----------------------------------------------------------------------------
Labels == {"idle", "prepareRows", "prepareChain", "snapshot", "reread", "consume",
           "publish", "build", "append", "next", "done", "view", "viewRows",
           "viewCursor", "viewed", "free", "freeRows", "freeCursor",
           "freeViewed", "refused"}
Blocks == [lo : Nat, hi : Nat, mark : BOOLEAN, seq : Int]
Views == [need : Nat, sealed : SUBSET Nat, rows : Nat, events : SUBSET Nat]

FilesTyped ==
  /\ rows \in 0..MaxRows
  /\ rowTail \in {"none", "torn", "whole"}
  /\ rowTail = "whole" => rows < MaxRows
  /\ cursor \in 0..rows
  /\ chain \in Seq(Blocks)
  /\ chainTail \in Blocks

LocalsTyped ==
  /\ marker \in [Proc -> BOOLEAN]
  /\ snap \in [Proc -> [lo : Nat, hi : Nat]]
  /\ offset \in [Proc -> Nat]
  /\ block \in [Proc -> Blocks]
  /\ want \in [Proc -> Nat]
  /\ resume \in [Proc -> {"idle", "reread", "next"}]
  /\ view \in [Proc -> Views]

\* The files and the sealer's local variables keep their shape, and the cursor
\* never points outside the staging log.
TypeOK ==
  /\ FilesTyped
  /\ LocalsTyped
  /\ holders \subseteq Proc
  /\ pc \in [Proc -> Labels]
  /\ seals \in Nat /\ aborts \in Nat

\* "an appender racing the sealer cannot be deleted": an event that is in the
\* staging log is in the chain or still ahead of the cursor, at every moment,
\* whatever was cut short.
NoEventLost == \A r \in 1..rows : r \in Sealed \/ r > cursor

\* Recovery is identity-based: no event is sealed twice, and the chain holds
\* the staging log in order and without gaps.
SealedInOrder ==
  \A i \in DOMAIN chain :
    /\ chain[i].seq = i - 1
    /\ chain[i].lo <= chain[i].hi
    /\ chain[i].lo = IF i = 1 THEN 0 ELSE chain[i - 1].hi

\* "Each block->cursor pair is recoverable": the cursor is at the end of the
\* last block, or at its beginning when the pair was interrupted.
CursorAtHead ==
  IF chain = <<>> THEN cursor = 0
  ELSE cursor \in {chain[Len(chain)].lo, chain[Len(chain)].hi}

\* The block b may be appended: it continues the chain where the cursor is.
Continues(b) ==
  /\ b.seq = Len(chain)
  /\ b.lo = cursor /\ cursor = SealedTo
  /\ b.lo <= b.hi /\ b.hi <= rows

Sealing == {"prepareRows", "prepareChain", "snapshot", "reread", "consume",
            "publish", "build", "append", "next"}
Viewing == {"view", "viewRows", "viewCursor", "viewed"}

\* Every snapshot lies in the staging log and every drain in its snapshot.
SnapshotsSafe ==
  \A p \in Proc :
    /\ snap[p].lo <= snap[p].hi /\ snap[p].hi <= rows
    /\ pc[p] = "build" => offset[p] <= Pending(p)
    /\ block[p].lo <= block[p].hi
    /\ pc[p] = "publish" => want[p] <= rows
    /\ view[p].need <= rows

\* One process at a time is in a section the sealer lock protects.
LockSafe ==
  /\ \A p, q \in holders : p = q
  /\ \A p \in Proc : pc[p] \in Sealing \cup Viewing => p \in holders

\* An unterminated block can be completed; behind prepareForSeal there is none.
TailSafe ==
  /\ chainTail \notin {NoBlock, TornBlock} => Continues(chainTail)
  /\ \A p \in Proc :
       pc[p] \in Sealing \ {"prepareRows", "prepareChain"} => chainTail = NoBlock

\* Where the block/cursor pair stands at each point of a seal.
PairSafe(p) ==
  /\ pc[p] = "reread" => cursor = SealedTo
  /\ pc[p] \in {"build", "next"} => cursor = SealedTo /\ SealedTo = RowOf(p, offset[p])
  /\ pc[p] = "append" => Continues(block[p]) /\ block[p].hi = RowOf(p, offset[p])
  /\ pc[p] \in {"consume", "publish"} =>
       /\ chain # <<>>
       /\ cursor = chain[Len(chain)].lo
       /\ want[p] = IF pc[p] = "publish" THEN SealedTo ELSE SealedTo - cursor
       /\ resume[p] \in {"reread", "next"}
       /\ resume[p] = "next" => SealedTo = RowOf(p, offset[p])

\* The chain is the staging log up to SealedTo.
ChainSafe ==
  /\ SealedInOrder /\ CursorAtHead
  /\ Sealed = 1..SealedTo /\ SealedTo <= rows

\* The inductive invariant of the sealer: the chain is a prefix of the staging
\* log, and at most one process is between a block and its cursor.
SealerSafe ==
  /\ SnapshotsSafe /\ ChainSafe /\ LockSafe /\ TailSafe
  /\ \A p \in Proc : PairSafe(p)

\* Sealed history is never rewritten, shortened or reordered.
ChainAppendOnly ==
  [][Len(chain') >= Len(chain) /\ SubSeq(chain', 1, Len(chain)) = chain]_vars

\* "Moving staging into the chain cannot hide an event between the two reads":
\* a view under the sealer lock holds every event staged before it began, and
\* is never refused.
StableViewComplete ==
  \A p \in holders :
    /\ pc[p] = "viewed" => 1..view[p].need \subseteq view[p].events
    /\ pc[p] # "refused"

\* What a reader that holds the lock has read is still so, and only such a
\* reader is in the lock's way.
ReaderSafe(p) ==
  /\ pc[p] \in {"idle", "free", "freeRows", "freeCursor", "freeViewed", "refused"} =>
       p \notin holders
  /\ pc[p] \in {"viewRows", "viewCursor"} => view[p].sealed = Sealed
  /\ pc[p] = "viewCursor" => view[p].rows >= view[p].need /\ view[p].rows >= cursor
  /\ pc[p] = "viewed" => 1..view[p].need \subseteq view[p].events

\* The inductive invariant of the stable views: the chain does not move under
\* a reader, and the rows and the cursor it reads next fit the chain it read.
ViewSafe == \A p \in Proc : ReaderSafe(p)

\* "The complete current event view": the same, claimed for currentEvents()
\* without the lock.
FreeViewComplete ==
  \A p \in Proc : pc[p] = "freeViewed" => 1..view[p].need \subseteq view[p].events

\* The spine implements the abstract event log.
Log == INSTANCE EventLog WITH accepted <- rows, sealed <- Sealed
LogSpec == Log!Spec
=============================================================================
