---------------------------- MODULE PatchCapture ----------------------------
(***************************************************************************)
(* The native patch input capture: a helper process walks a held source    *)
(* directory that others may be editing (src/native/crates/p2-d2-supervisor*)
(* and linux-abi), hands the rows back over a pipe, and the SDK withholds  *)
(* them until the response is complete and the helper has exited           *)
(* (src/src/platform/native_patch_capture.ts).                             *)
(*                                                                         *)
(* A file is an inode with two blocks of data.  The identity the code      *)
(* compares (device, inode, mode, links, owner, size, mtime, ctime) is the *)
(* inode and the stamp of its last change; the model assumes that every    *)
(* change gets a stamp of its own, which the kernel's clock only promises  *)
(* for changes far enough apart.  Names are unordered, so the walk may     *)
(* take the entries of a directory in any order.                           *)
(*                                                                         *)
(* What the response's limits are about, the lengths of the paths and of   *)
(* the data, are constants: a file has the same length whatever is in it.  *)
(* A record of the response and the chunks of its data are written in one  *)
(* step; a failure among them leaves the record cut short in the pipe.     *)
(***************************************************************************)
EXTENDS Integers, Sequences, FiniteSets, Functions

CONSTANTS
  Dir, Root,   \* the source directories
  File,        \* file names
  In,          \* the directory each file and each other directory is in
  MaxEdits,    \* bound on the changes others make to the tree
  MaxFrames,   \* MAX_CAPTURE_FRAMES
  MaxBytes,    \* MAX_CAPTURE_RESPONSE_BYTES
  PathBytes,   \* length of each file's path
  DataBytes,   \* length of each file
  InputBytes   \* length of the overlay and of the carrier

ASSUME TreeAssumption == /\ Root \in Dir /\ File \cap Dir = {}
                         /\ In \in [File \cup (Dir \ {Root}) -> Dir]
\* Every directory is below the root.
ASSUME RootedAssumption ==
  \A V \in SUBSET Dir: Root \in V /\ (\A d \in Dir \ {Root}: In[d] \in V => d \in V) => V = Dir
ASSUME BoundAssumption == MaxEdits \in Nat /\ MaxFrames \in Nat /\ MaxBytes \in Nat

\* CAPTURE_CHUNK_BYTES, and CAPTURE_FRAME_LIMITS: the bytes of a frame and of a
\* text in it.
ChunkSize == 32768
MaxFrameBytes == 65536
MaxTextBytes == 4096

\* validate_source_path has let every path pass.
ASSUME SizeAssumption == /\ PathBytes \in [File -> 1..MaxTextBytes]
                         /\ DataBytes \in [File -> Nat]
                         /\ InputBytes \in [{"overlay", "carrier"} -> Nat]
ASSUME InoAssumption == File \cap (0..MaxEdits) = {}

VARIABLES
  name,     \* the inode at each file name, or NoIno
  node,     \* stamp and data of each inode
  touched,  \* stamp of each directory
  edits,    \* changes so far, the clock that stamps are taken from
  past,     \* every content each directory has had since the request
  pc,       \* where the helper is
  stack,    \* its calls of capture_directory
  inv,      \* the inventory in progress
  held,     \* the file being read
  rows,     \* SourceRowsBuilder
  sent,     \* ResponseWriter.frames, of the records written in full
  wire,     \* ResponseWriter.bytes, of the same
  unsent,   \* rows whose record is still to be written
  child,    \* the helper process as its parent can see it
  code,     \* what it printed on stderr
  pipe,     \* its standard output
  sdk,      \* CaptureReceiver and the promise's local variables
  settled   \* how the promise ended

tree == <<name, node, touched, edits, past>>
walk == <<stack, inv, held, rows>>
output == <<sent, wire, unsent, child, code, pipe>>
client == <<sdk, settled>>
vars == <<tree, pc, walk, output, client>>

NoIno == 0
Ino == File \cup 1..MaxEdits     \* the k-th edit may make inode k
Block == 1..2
Data == [Block -> {0, 1}]
Names == File \cup (Dir \ {Root})

Codes == {"MALFORMED", "LIMIT", "PATH", "TYPE", "INTEGRITY", "RACE", "UNSUPPORTED", "IO", "CANCELLED"}

Nothing == [n \in {} |-> 0]
With(f, n, v) == [m \in DOMAIN f \cup {n} |-> IF m = n THEN v ELSE f[m]]

-----------------------------------------------------------------------------
(* The source tree and its other users. *)

\* Mutant of Identity: the times are not compared.
IdentityTimeless(i) == [ino |-> i, stamp |-> 0]

\* FileIdentity::capture
Identity(i) == [ino |-> i, stamp |-> node[i].stamp]
DirIdentity(d) == [ino |-> d, stamp |-> touched[d]]
IdentityAt(n) == IF n \in Dir THEN DirIdentity(n) ELSE Identity(name[n])

Present(d) == {n \in Names: In[n] = d /\ (n \in File => name[n] # NoIno)}
Listing(d) == [f \in Present(d) \cap File |-> node[name[f]].data]

\* Every edit takes a new stamp; past remembers what it leaves behind.
Edit == /\ edits < MaxEdits
        /\ edits' = edits + 1
        /\ past' = [d \in Dir |-> past[d] \cup {Listing(d)'}]
        /\ UNCHANGED <<pc, walk, output, client>>

\* A block of a file is written in place.
Write(f, b) ==
  /\ name[f] # NoIno
  /\ node' = [node EXCEPT ![name[f]] =
                [stamp |-> edits + 1, data |-> [node[name[f]].data EXCEPT ![b] = 1 - @]]]
  /\ UNCHANGED <<name, touched>>
  /\ Edit

\* A new file is created, or renamed over the old one, which loses its link.
Place(f) ==
  /\ name' = [name EXCEPT ![f] = edits + 1]
  /\ node' = [i \in Ino |->
                IF i = edits + 1 THEN [stamp |-> edits + 1, data |-> [b \in Block |-> 1]]
                ELSE IF i = name[f] THEN [node[i] EXCEPT !.stamp = edits + 1]
                ELSE node[i]]
  /\ touched' = [touched EXCEPT ![In[f]] = edits + 1]
  /\ Edit

Remove(f) ==
  /\ name[f] # NoIno
  /\ name' = [name EXCEPT ![f] = NoIno]
  /\ node' = [node EXCEPT ![name[f]].stamp = edits + 1]
  /\ touched' = [touched EXCEPT ![In[f]] = edits + 1]
  /\ Edit

-----------------------------------------------------------------------------
(* The helper: capture_patch_inputs. *)

NoInv == [left |-> {}, got |-> Nothing]
NoHeld == [file |-> NoIno, ino |-> NoIno, id |-> NoIno, buf |-> <<>>]
Top == stack[Len(stack)]
SetTop(frame) == [stack EXCEPT ![Len(stack)] = frame]
Pop == SubSeq(stack, 1, Len(stack) - 1)

At(l) == child = "running" /\ pc = l
Goto(l) == pc' = l

\* The process ends and takes its memory along.
Gone == /\ Goto("gone")
        /\ stack' = <<>> /\ inv' = NoInv /\ held' = NoHeld /\ rows' = Nothing
        /\ unsent' = {}

\* run() returns an error: its code goes to stderr, the exit status is 2.
Refuse(c) ==
  /\ Gone
  /\ child' = "refused" /\ code' = c
  /\ UNCHANGED <<tree, sent, wire, pipe, client>>

Keep == UNCHANGED <<tree, output, client>>

\* PinnedDirectory::open, open_child_directory: the identity is pinned.
Frame(d) == [dir |-> d, id |-> DirIdentity(d), before |-> Nothing, todo |-> {}, turn |-> "before"]

\* The overlay and the carrier are read and must be the bytes the request names.
Inputs ==
  /\ At("inputs")
  /\ \/ /\ stack' = <<Frame(Root)>> /\ Goto("inventory")
        /\ UNCHANGED <<inv, held, rows>> /\ Keep
     \/ \E c \in Codes \ {"CANCELLED"}: Refuse(c)

\* inventory(): the directory must be as pinned before the names are read ...
Inventory ==
  /\ At("inventory")
  /\ IF DirIdentity(Top.dir) = Top.id
       THEN /\ inv' = [left |-> Present(Top.dir), got |-> Nothing]
            /\ Goto("stat") /\ UNCHANGED <<stack, held, rows>> /\ Keep
       ELSE Refuse("RACE")

\* ... each entry is identified through its name, which may have gone ...
Stat(n) ==
  /\ At("stat") /\ n \in inv.left
  /\ IF n \in File => name[n] # NoIno
       THEN /\ inv' = [left |-> inv.left \ {n}, got |-> With(inv.got, n, IdentityAt(n))]
            /\ UNCHANGED <<pc, stack, held, rows>> /\ Keep
       ELSE Refuse("IO")

\* ... and the directory must not have changed meanwhile.  The first inventory
\* is the list of what to capture, the second must be equal to it.
InventoryEnd ==
  /\ At("stat") /\ inv.left = {}
  /\ LET changed == \/ DirIdentity(Top.dir) # Top.id
                    \/ Top.turn = "after" /\ inv.got # Top.before
     IN \/ changed /\ Refuse("RACE")
        \/ /\ ~changed
           /\ IF Top.turn = "before"
                THEN /\ stack' = SetTop([Top EXCEPT !.before = inv.got, !.todo = DOMAIN inv.got,
                                                    !.turn = "after"])
                     /\ Goto("walk")
                ELSE stack' = Pop /\ Goto(IF Len(stack) = 1 THEN "finish" ELSE "walk")
           /\ inv' = NoInv /\ UNCHANGED <<held, rows>> /\ Keep

\* capture_directory, one entry: its name, type, mode, links or size is refused,
\* or the system refuses a call.
Unfit ==
  /\ At("walk") /\ Top.todo # {}
  /\ \E c \in {"PATH", "TYPE", "LIMIT", "UNSUPPORTED", "IO"}: Refuse(c)

Descend(d) ==
  /\ At("walk") /\ d \in Top.todo \cap Dir
  /\ IF DirIdentity(d) = Top.before[d]
       THEN /\ stack' = Append(SetTop([Top EXCEPT !.todo = @ \ {d}]), Frame(d))
            /\ Goto("inventory") /\ UNCHANGED <<inv, held, rows>> /\ Keep
       ELSE Refuse("RACE")

\* Mutant of Pin: the entry stays on the list.
PinAgain(f) ==
  /\ At("walk") /\ f \in Top.todo \cap File
  /\ IF name[f] # NoIno
       THEN /\ held' = [file |-> f, ino |-> name[f], id |-> Identity(name[f]), buf |-> <<>>]
            /\ Goto("upgrade") /\ UNCHANGED <<stack, inv, rows>> /\ Keep
       ELSE Refuse("IO")

\* open_regular_file: O_PATH pins an inode, whatever happens to its name.
Pin(f) ==
  /\ At("walk") /\ f \in Top.todo \cap File
  /\ IF name[f] # NoIno
       THEN /\ held' = [file |-> f, ino |-> name[f], id |-> Identity(name[f]), buf |-> <<>>]
            /\ stack' = SetTop([Top EXCEPT !.todo = @ \ {f}])
            /\ Goto("upgrade") /\ UNCHANGED <<inv, rows>> /\ Keep
       ELSE Refuse("IO")

\* upgrade_regular_inode reopens it for reading and compares.
Upgrade ==
  /\ At("upgrade")
  /\ IF Identity(held.ino) = held.id
       THEN Goto("read") /\ UNCHANGED walk /\ Keep
       ELSE Refuse("RACE")

\* read_exact, a block at a time.
Read ==
  /\ At("read")
  /\ held' = [held EXCEPT !.buf = Append(@, node[held.ino].data[Len(@) + 1])]
  /\ Goto(IF Len(held.buf) + 1 = Cardinality(Block) THEN "recheck" ELSE "read")
  /\ UNCHANGED <<stack, inv, rows>> /\ Keep

\* The file is as it was opened and as it was listed: its row is kept.
Recheck ==
  /\ At("recheck")
  /\ IF Identity(held.ino) = held.id /\ held.id = Top.before[held.file]
       THEN /\ rows' = With(rows, held.file, held.buf)
            /\ held' = NoHeld
            /\ Goto("walk") /\ UNCHANGED <<stack, inv>> /\ Keep
       ELSE Refuse("RACE")

\* All entries done: the second inventory.
Again ==
  /\ At("walk") /\ Top.todo = {}
  /\ Goto("inventory") /\ UNCHANGED walk /\ Keep

\* div_ceil: the chunks of n bytes.
Chunks(n) == (n + (ChunkSize - 1)) \div ChunkSize

\* Mutant of RowFrames: the chunks are not counted.
RowFramesChunkless == [f \in File |-> 1]

\* The frames and the bytes that check_response_budget counts for each row.
RowFrames == [f \in File |-> 1 + Chunks(DataBytes[f])]
RowBytes == [f \in File |-> DataBytes[f] + PathBytes[f] + 160]

\* check_response_budget: header, overlay, carrier, END and the rows, and a bound
\* of the bytes they take.
Frames == 4 + SumFunctionOnSet(RowFrames, DOMAIN rows)
            + Chunks(InputBytes["overlay"]) + Chunks(InputBytes["carrier"])
Bytes == 2048 + SumFunctionOnSet(RowBytes, DOMAIN rows)
              + InputBytes["overlay"] + InputBytes["carrier"] + 128 * Frames

\* The row digest is not the expected one, the response might not fit, or the
\* response begins.
Finish ==
  /\ At("finish")
  /\ LET fits == Frames <= MaxFrames /\ Bytes <= MaxBytes
     IN \/ Refuse("INTEGRITY")
        \/ ~fits /\ Refuse("LIMIT")
        \/ /\ fits
           /\ unsent' = DOMAIN rows
           /\ Goto("header") /\ UNCHANGED <<tree, walk, sent, wire, child, code, pipe, client>>

-----------------------------------------------------------------------------
(* The helper: write_response. *)

\* head_len: what CBOR puts before a number or the length of a string; no length
\* here reaches 2^32.
HeadBytes(n) == IF n < 24 THEN 1 ELSE IF n < 256 THEN 2 ELSE IF n < 65536 THEN 3 ELSE 5

\* The k-th chunk of n bytes, k from 0, and its encoding.
Part(n, k) == IF n - ChunkSize * k < ChunkSize THEN n - ChunkSize * k ELSE ChunkSize
ChunkLength(n, k) == 29 + HeadBytes(k) + HeadBytes(Part(n, k)) + Part(n, k)

\* ResponseWriter::chunks: the bytes of all chunks with the lengths before them.
ChunkBytes(n) ==
  SumFunctionOnSet([k \in 0..(Chunks(n) - 1) |-> 4 + ChunkLength(n, k)], 0..(Chunks(n) - 1))

Message(kind) == [kind |-> kind, count |-> 0, file |-> NoIno, data |-> <<>>]
Header == [Message("header") EXCEPT !.count = Cardinality(DOMAIN rows)]
RowFrame(f) == [Message("row") EXCEPT !.file = f, !.data = rows[f]]

\* The records: a frame of a length, with a longest text, and the data after it.
HeaderRecord ==
  [message |-> Header, text |-> 64, data |-> 0,
   length |-> 719 + HeadBytes(Cardinality(DOMAIN rows))
                  + HeadBytes(SumFunctionOnSet(DataBytes, DOMAIN rows))
                  + HeadBytes(InputBytes["overlay"]) + HeadBytes(InputBytes["carrier"])]
RowRecord(f) ==
  [message |-> RowFrame(f), text |-> PathBytes[f], data |-> DataBytes[f],
   length |-> 126 + HeadBytes(Cardinality(DOMAIN rows \ unsent)) + HeadBytes(PathBytes[f])
                  + PathBytes[f] + HeadBytes(DataBytes[f])]
InputRecord(role) ==
  [message |-> Message(role), text |-> 64, data |-> InputBytes[role],
   length |-> 115 + HeadBytes(InputBytes[role])]
EndRecord == [message |-> Message("end"), text |-> 64, data |-> 0, length |-> 93]

\* CAPTURE_FRAME_LIMITS, which encode_bounded enforces, and the limits of the
\* response.
Encodes(r) == /\ r.length <= MaxFrameBytes /\ r.text <= MaxTextBytes
              /\ \A k \in 0..(Chunks(r.data) - 1): ChunkLength(r.data, k) <= MaxFrameBytes
Fits(r) == /\ Encodes(r)
           /\ sent + 1 + Chunks(r.data) <= MaxFrames
           /\ wire + 4 + r.length + ChunkBytes(r.data) <= MaxBytes

Writing == {"header", "rows", "carrier", "end"}

\* What a response that is cut short leaves in the pipe.
Cut == {pipe} \cup (IF pc \in Writing THEN {Append(pipe, Message("torn"))} ELSE {})

\* write_response returns an error.
Interrupted(c, left) ==
  /\ Gone
  /\ child' = "refused" /\ code' = c
  /\ pipe' \in left
  /\ UNCHANGED <<tree, sent, wire, client>>

\* ResponseWriter::frame and chunks; a single frame is refused before it is written.
Send(r, l, rest) ==
  IF Fits(r)
    THEN /\ sent' = sent + 1 + Chunks(r.data)
         /\ wire' = wire + 4 + r.length + ChunkBytes(r.data)
         /\ pipe' = Append(pipe, r.message)
         /\ unsent' = rest /\ Goto(l)
         /\ UNCHANGED <<tree, walk, child, code, client>>
    ELSE Interrupted("LIMIT", IF r.data = 0 THEN {pipe} ELSE Cut)

\* The records in order.
Emit ==
  \/ At("header") /\ Send(HeaderRecord, "rows", unsent)
  \/ At("rows") /\ \E f \in unsent: Send(RowRecord(f), "rows", unsent \ {f})
  \/ At("rows") /\ unsent = {} /\ Send(InputRecord("overlay"), "carrier", unsent)
  \/ At("carrier") /\ Send(InputRecord("carrier"), "end", unsent)
  \/ At("end") /\ Send(EndRecord, "exit", unsent)

\* A write to the pipe fails, or its flush after END.
WriteFails ==
  /\ child = "running" /\ pc \in Writing \cup {"exit"}
  /\ Interrupted("IO", Cut)

Exit ==
  /\ At("exit")
  /\ child' = "ok" /\ Goto("gone")
  /\ UNCHANGED <<tree, walk, sent, wire, unsent, code, pipe, client>>

\* The helper is killed, by its parent or by the system; a frame it was writing
\* may be cut short.
Die ==
  /\ child = "running"
  /\ Gone
  /\ child' = "killed"
  /\ pipe' \in Cut
  /\ UNCHANGED <<tree, sent, wire, code, client>>

Helper ==
  \/ Inputs \/ Inventory \/ (\E n \in Names: Stat(n)) \/ InventoryEnd \/ Unfit
  \/ (\E d \in Dir: Descend(d)) \/ (\E f \in File: Pin(f)) \/ Upgrade \/ Read \/ Recheck
  \/ Again \/ Finish \/ Emit \/ WriteFails \/ Exit

-----------------------------------------------------------------------------
(* The SDK: capturePackagedNativePatchInputsV1 once the helper is spawned. *)

Fresh == [failure |-> "none", kill |-> FALSE, bytes |-> FALSE, torn |-> FALSE,
          count |-> -1, rows |-> Nothing, inputs |-> 0, end |-> FALSE]
Discarded(s) == [s EXCEPT !.rows = Nothing, !.inputs = 0]

\* CaptureReceiver.accept: one whole frame, or the beginning of one.  Its checks
\* of the order and the digests hold for every frame of this helper.
Accept(s, m) ==
  CASE m.kind = "header" -> [s EXCEPT !.count = m.count]
    [] m.kind = "row" -> [s EXCEPT !.rows = With(@, m.file, m.data)]
    [] m.kind \in {"overlay", "carrier"} -> [s EXCEPT !.inputs = @ + 1]
    [] m.kind = "end" -> [s EXCEPT !.end = TRUE]
    [] m.kind = "torn" -> [s EXCEPT !.torn = TRUE]

\* A data event; after a failure it is only counted.  (That the handler also
\* looks at the deadline is a Terminate just before.)
Receive ==
  /\ pipe # <<>>
  /\ pipe' = Tail(pipe)
  /\ LET s == [sdk EXCEPT !.bytes = TRUE] IN
       sdk' = IF s.failure = "none" THEN Accept(s, Head(pipe)) ELSE s
  /\ UNCHANGED <<tree, pc, walk, sent, wire, unsent, child, code, settled>>

\* Mutant of Terminate: the promise is rejected without waiting for the helper.
TerminateAtOnce(c) ==
  /\ settled = "none" /\ sdk.failure = "none"
  /\ sdk' = [Discarded(sdk) EXCEPT !.failure = c, !.kill = TRUE]
  /\ settled' = c
  /\ UNCHANGED <<tree, pc, walk, output>>

\* Mutant of Terminate: the helper is not killed.
TerminateGently(c) ==
  /\ settled = "none" /\ sdk.failure = "none"
  /\ sdk' = [Discarded(sdk) EXCEPT !.failure = c]
  /\ UNCHANGED <<tree, pc, walk, output, settled>>

\* terminate(): the deadline's timer or the caller's abort signal ("CANCELLED"),
\* or an error of the process or one of its streams ("IO").  The first failure
\* is the one that is reported; the helper is killed.
Terminate(c) ==
  /\ settled = "none" /\ sdk.failure = "none"
  /\ sdk' = [Discarded(sdk) EXCEPT !.failure = c, !.kill = TRUE]
  /\ UNCHANGED <<tree, pc, walk, output, settled>>

\* finish(): everything up to END has been received and nothing is left over.
Complete(s) == s.end /\ ~s.torn /\ s.count >= 0 /\ s.inputs = 2

\* Mutant of Outcome: the exit status is not consulted, nor is END.
OutcomeTrusting ==
  IF sdk.failure # "none" THEN sdk.failure
  ELSE IF child = "refused" /\ ~sdk.bytes THEN code
  ELSE IF sdk.count < 0 THEN "MALFORMED"
  ELSE "resolved"

\* How the close handler settles.
Outcome ==
  IF sdk.failure # "none" THEN sdk.failure
  ELSE IF child = "refused" /\ ~sdk.bytes THEN code
  ELSE IF child # "ok" THEN "IO"
  ELSE IF ~Complete(sdk) THEN "MALFORMED"
  ELSE "resolved"

\* The close event comes after the exit and the end of the output; the deadline
\* is looked at once more.
Close ==
  /\ settled = "none" /\ child # "running" /\ pipe = <<>>
  /\ settled' \in {Outcome, IF sdk.failure # "none" THEN sdk.failure ELSE "CANCELLED"}
  /\ sdk' = IF settled' = "resolved" THEN sdk ELSE Discarded(sdk)
  /\ UNCHANGED <<tree, pc, walk, output>>

-----------------------------------------------------------------------------
Init ==
  /\ name \in {[f \in File |-> IF f \in here THEN f ELSE NoIno]: here \in SUBSET File}
  /\ node = [i \in Ino |-> [stamp |-> 0, data |-> [b \in Block |-> 0]]]
  /\ touched = [d \in Dir |-> 0] /\ edits = 0
  /\ past = [d \in Dir |-> {Listing(d)}]
  /\ pc = "inputs" /\ stack = <<>> /\ inv = NoInv /\ held = NoHeld /\ rows = Nothing
  /\ sent = 0 /\ wire = 0 /\ unsent = {} /\ child = "running" /\ code = "none" /\ pipe = <<>>
  /\ sdk = Fresh /\ settled = "none"

Next ==
  \/ \E f \in File: Place(f) \/ Remove(f) \/ \E b \in Block: Write(f, b)
  \/ Helper \/ Die
  \/ Receive \/ Close \/ \E c \in {"CANCELLED", "IO"}: Terminate(c)

Spec == Init /\ [][Next]_vars

\* The SDK's event loop runs, its timer fires, and SIGKILL ends a process.  The
\* helper itself may hang.
FairSpec ==
  /\ Spec
  /\ WF_vars(Receive) /\ WF_vars(Close)
  /\ WF_vars(Terminate("CANCELLED")) /\ WF_vars(sdk.kill /\ Die)

-----------------------------------------------------------------------------
Stamp == 0..MaxEdits
Id == [ino: Ino \cup Dir, stamp: Stamp]

\* Every variable keeps its shape; what is a row is no longer on a list.
TypeOK ==
  /\ name \in [File -> Ino \cup {NoIno}]
  /\ node \in [Ino -> [stamp: Stamp, data: Data]]
  /\ touched \in [Dir -> Stamp] /\ edits \in Stamp
  /\ \A i \in 1..Len(stack): /\ stack[i].dir \in Dir /\ stack[i].id \in Id
                             /\ stack[i].todo \subseteq DOMAIN stack[i].before
                             /\ stack[i].todo \cap DOMAIN rows = {}
  /\ inv.left \subseteq Names /\ DOMAIN inv.got \subseteq Names
  /\ DOMAIN rows \subseteq File /\ \A f \in DOMAIN rows: rows[f] \in Data
  /\ sent \in 0..MaxFrames /\ wire \in 0..MaxBytes /\ unsent \subseteq DOMAIN rows
  /\ child \in {"running", "ok", "refused", "killed"}
  /\ pc = "gone" <=> child # "running"
  /\ code \in Codes \cup {"none"} /\ (code # "none" <=> child = "refused")
  /\ sdk.failure \in Codes \cup {"none"} /\ settled \in Codes \cup {"none", "resolved"}

\* What the caller is given is, directory by directory, what was there at one
\* instant: no file is torn, and no two files of a directory are of different
\* times.
DirectoryAtOneInstant ==
  settled = "resolved" =>
    \A d \in Dir: [f \in {f \in DOMAIN sdk.rows: In[f] = d} |-> sdk.rows[f]] \in past[d]

\* "the SDK must withhold all values until END/EOF/exit0": the caller is given
\* all the rows the helper captured, after it exited with success, or none.
AllOrNothing ==
  IF settled = "resolved" THEN child = "ok" /\ sdk.rows = rows
  ELSE settled # "none" => sdk.rows = Nothing

\* "Wait for close before returning: no abandoned live operation".
NoOrphan == settled # "none" => child # "running"

\* A refusal of the helper comes before its first frame, so the caller is told
\* its reason: check_response_budget leaves room for every frame with its chunks
\* and its encoding, and only a failing write interrupts a response.
RefusedBeforeOutput == child = "refused" /\ code # "IO" => sent = 0 /\ pipe = <<>> /\ ~sdk.bytes

\* Every call settles, even when the helper hangs.
Settles == <>(settled # "none")
=============================================================================
