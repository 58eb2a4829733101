------------------------- MODULE PatchCaptureProofs -------------------------
(***************************************************************************)
(* Proofs about PatchCapture for every tree, every number of edits, every  *)
(* length of path and data and every limit of the response: what the       *)
(* caller is given is, directory by directory, what was there at one       *)
(* instant; it is given all of it or nothing; no helper is left behind;    *)
(* and a refusal precedes all output.                                      *)
(*                                                                         *)
(* The instant is the end of a directory's first inventory.  The directory *)
(* is as it was pinned, so the names and inodes listed are those there at  *)
(* that moment; and a file that still has the identity it was listed with  *)
(* has not been changed since it was listed, so whatever is read from it   *)
(* later was in it at that moment.                                         *)
(*                                                                         *)
(* The budget suffices because what is written and what is still due       *)
(* always fit together: check_response_budget counts every frame, and the  *)
(* 128 bytes it adds for each, with the 160 of a row and the 2048 of the   *)
(* rest, exceed what the encoding adds to the data.                        *)
(***************************************************************************)
EXTENDS PatchCapture, FiniteSetTheorems, NaturalsInduction, SequenceTheorems,
        WellFoundedInduction, TLAPS

Reading == {"upgrade", "read", "recheck"}
Walking == {"inventory", "stat", "walk"} \cup Reading
Responding == {"finish", "exit"} \cup Writing

Identities == UNION {[S -> Id]: S \in SUBSET Names}
FrameType == [dir: Dir, id: Id, before: Identities, todo: SUBSET Names, turn: {"before", "after"}]
Children(d) == {n \in Names: In[n] = d}

\* The shapes of the tree and of the helper's memory.
Shapes ==
  /\ name \in [File -> Ino \cup {NoIno}]
  /\ node \in [Ino -> [stamp: Stamp, data: Data]]
  /\ touched \in [Dir -> Stamp] /\ edits \in Stamp
  /\ stack \in Seq(FrameType)
  /\ inv \in [left: SUBSET Names, got: Identities]
  /\ DOMAIN rows \subseteq File /\ rows \in [DOMAIN rows -> Data]
  /\ IsFiniteSet(DOMAIN rows)
  /\ pc \in {"inputs", "gone"} \cup Walking \cup Responding

\* Where the helper is and what it holds there.
Stations ==
  /\ pc = "gone" <=> child # "running"
  /\ stack # <<>> <=> pc \in Walking
  /\ pc = "inputs" \/ (pc = "gone" /\ child # "ok") => rows = Nothing
  /\ child \in {"running", "ok", "refused", "killed"}
  /\ code \in Codes \cup {"none"} /\ (code # "none" <=> child = "refused")

\* The directory is at every moment one of those it has been, and no stamp is
\* of the future.
Current ==
  /\ \A d \in Dir: Listing(d) \in past[d] /\ touched[d] <= edits
  /\ \A i \in Ino: node[i].stamp <= edits

\* What is recorded was recorded in the past.
Recorded(ids) == \A n \in DOMAIN ids: /\ ids[n].stamp <= edits
                                      /\ n \in File => ids[n].ino \in Ino

\* The inventory in progress: while the directory is as it was pinned, what has
\* been listed and what is still to be listed are its names and inodes.
Inventoried ==
  pc = "stat" =>
    /\ Recorded(inv.got)
    /\ Top.turn = "before" /\ touched[Top.dir] = Top.id.stamp =>
         /\ DOMAIN inv.got \cup inv.left = Present(Top.dir)
         /\ \A f \in DOMAIN inv.got \cap File: inv.got[f].ino = name[f]

\* The file being read: while it has the identity it was opened with, what has
\* been read is what is in it.
Held ==
  pc \in Reading =>
    /\ held.file \in (DOMAIN Top.before \cap File) \ (Top.todo \cup DOMAIN rows)
    /\ held \in [file: File, ino: Ino, id: Id, buf: Seq({0, 1})]
    /\ held.id.ino = held.ino /\ held.id.stamp <= edits
    /\ pc = "upgrade" => Len(held.buf) = 0
    /\ pc = "read" => Len(held.buf) \in 0..1
    /\ pc = "recheck" => Len(held.buf) = 2
    /\ Identity(held.ino) = held.id =>
         \A k \in 1..Len(held.buf): held.buf[k] = node[held.ino].data[k]

\* L is what a listed directory held at the end of its first inventory: the
\* rows are of L, and so is every file that is as it was listed.
Instant(fr, L) ==
  /\ DOMAIN L = DOMAIN fr.before \cap File
  /\ L = [f \in DOMAIN L |-> L[f]]
  /\ \A f \in DOMAIN L: /\ f \in DOMAIN rows => rows[f] = L[f]
                        /\ Identity(fr.before[f].ino) = fr.before[f]
                             => node[fr.before[f].ino].data = L[f]

\* A directory whose first inventory is under way: nothing in it is captured.
Untouched(fr, V) ==
  /\ fr.todo = {}
  /\ Children(fr.dir) \cap (V \cup DOMAIN rows) = {}

\* A directory that has been listed: each entry is still to do, done or, a
\* file, in hand.
Listed(fr, V) ==
  /\ DOMAIN fr.before \subseteq Children(fr.dir)
  /\ Children(fr.dir) \cap Dir \subseteq DOMAIN fr.before
  /\ Recorded(fr.before)
  /\ fr.todo \subseteq DOMAIN fr.before
  /\ fr.todo \cap DOMAIN rows = {}
  /\ DOMAIN fr.before \cap Dir \subseteq fr.todo \cup V
  /\ DOMAIN fr.before \cap File \subseteq
       fr.todo \cup DOMAIN rows \cup (IF pc \in Reading THEN {held.file} ELSE {})
  /\ Children(fr.dir) \cap DOMAIN rows \subseteq DOMAIN fr.before
  /\ \E L \in past[fr.dir]: Instant(fr, L)

\* The rows of a directory.
Captured(d) == [f \in {f \in DOMAIN rows: In[f] = d} |-> rows[f]]

\* The frames of capture_directory; V is the set of the directories entered.
FrameInv(V) ==
  \A i \in 1..Len(stack):
    /\ stack[i].dir \in V /\ stack[i].todo \cap V = {}
    /\ stack[i].id.ino = stack[i].dir /\ stack[i].id.stamp <= edits
    /\ i < Len(stack) \/ pc \notin {"inventory", "stat"} => stack[i].turn = "after"
    /\ stack[i].turn = "before" => Untouched(stack[i], V)
    /\ stack[i].turn = "after" => Listed(stack[i], V)

\* A directory is entered once, after the one it is in, and is captured when
\* its frame is gone.
Walk(V) ==
  /\ V \in SUBSET Dir /\ Root \in V
  /\ \A d \in V \ {Root}: In[d] \in V
  /\ \A f \in DOMAIN rows: In[f] \in V
  /\ \A i, j \in 1..Len(stack): stack[i].dir = stack[j].dir => i = j
  /\ pc \in {"inventory", "stat"} /\ Top.turn = "after" => Top.todo = {}
  /\ \A d \in V: (\A i \in 1..Len(stack): stack[i].dir # d) =>
       Captured(d) \in past[d] /\ Children(d) \cap Dir \subseteq V
  /\ FrameInv(V)

Walked ==
  /\ pc \in Walking => \E V \in SUBSET Dir: Walk(V)
  /\ pc \in Responding \/ child = "ok" => \A d \in Dir: Captured(d) \in past[d]

WalkInv == Shapes /\ Stations /\ Current /\ Inventoried /\ Held /\ Walked

\* Nothing is written and nothing received.
Silent == sent = 0 /\ wire = 0 /\ pipe = <<>> /\ ~sdk.bytes

\* The frames that are still to be written when the writer is at l and the rows
\* of S are left, and a bound of their bytes.
DueFrames(l, S) ==
  CASE l = "header" -> 4 + SumFunctionOnSet(RowFrames, S)
                         + Chunks(InputBytes["overlay"]) + Chunks(InputBytes["carrier"])
    [] l = "rows" -> 3 + SumFunctionOnSet(RowFrames, S)
                       + Chunks(InputBytes["overlay"]) + Chunks(InputBytes["carrier"])
    [] l = "carrier" -> 2 + Chunks(InputBytes["carrier"])
    [] l = "end" -> 1
    [] OTHER -> 0
InputDue(role) == 124 + InputBytes[role] + 128 * Chunks(InputBytes[role])
RowsDue(S) == SumFunctionOnSet(RowBytes, S) + 128 * SumFunctionOnSet(RowFrames, S)
DueBytes(l, S) ==
  CASE l = "header" -> 743 + RowsDue(S) + InputDue("overlay") + InputDue("carrier") + 97
    [] l = "rows" -> RowsDue(S) + InputDue("overlay") + InputDue("carrier") + 97
    [] l = "carrier" -> InputDue("carrier") + 97
    [] l = "end" -> 97
    [] OTHER -> 0

\* The response: what is written and what is due fit.
Counted ==
  /\ sent \in 0..MaxFrames /\ wire \in 0..MaxBytes
  /\ pc \notin Writing \cup {"exit", "gone"} => Silent /\ unsent = {}
  /\ pc \in Writing \cup {"exit"} =>
       /\ unsent \subseteq DOMAIN rows
       /\ sent + DueFrames(pc, unsent) <= MaxFrames
       /\ wire + DueBytes(pc, unsent) <= MaxBytes
  /\ pc \in {"carrier", "end", "exit", "gone"} => unsent = {}
  /\ child = "refused" /\ code # "IO" => Silent

Kinds == {"header", "row", "overlay", "carrier", "end", "torn"}
MessageType == [kind: Kinds, count: Nat, file: File \cup {NoIno}, data: Data \cup {<<>>}]
RowsType == UNION {[S -> Data \cup {<<>>}]: S \in SUBSET (File \cup {NoIno})}
ReceiverType == [failure: Codes \cup {"none"}, kill: BOOLEAN, bytes: BOOLEAN, torn: BOOLEAN,
                 count: Int, rows: RowsType, inputs: Nat, end: BOOLEAN]

\* The shapes of the pipe and of the SDK's memory.
Shared ==
  /\ pipe \in Seq(MessageType)
  /\ sdk \in ReceiverType
  /\ settled \in Codes \cup {"none", "resolved"}

\* The rows whose frames have been written, and those under way.
Written == IF pc \in Writing \cup {"exit", "gone"} THEN DOMAIN rows \ unsent ELSE {}
Underway(p) == {m \in {p[k]: k \in 1..Len(p)}: m.kind = "row"}

\* Until something fails, the rows received and those under way are the rows
\* written.
Delivered ==
  settled = "none" /\ sdk.failure = "none" /\ child \in {"running", "ok"} =>
    /\ DOMAIN sdk.rows \cup {m.file: m \in Underway(pipe)} = Written
    /\ \A f \in DOMAIN sdk.rows: sdk.rows[f] = rows[f]
    /\ \A m \in Underway(pipe): m.data = rows[m.file]

\* The promise is settled once the helper is gone and its output is drained.
Settled ==
  /\ settled # "none" => child # "running" /\ pipe = <<>>
  /\ settled = "resolved" => child = "ok" /\ sdk.rows = rows
  /\ settled \notin {"none", "resolved"} => sdk.rows = Nothing

Inv == WalkInv /\ Counted /\ Shared /\ Delivered /\ Settled

-----------------------------------------------------------------------------
(* Facts about the operators. *)

\* The record of an inventory stays a record of identities.
LEMMA WithIdentity ==
  ASSUME NEW f \in Identities, NEW n \in Names, NEW v \in Id
  PROVE  With(f, n, v) \in Identities
<1>1. PICK S \in SUBSET Names: f \in [S -> Id]
  BY DEF Identities
<1>2. With(f, n, v) \in [S \cup {n} -> Id]
  BY <1>1 DEF With
<1> QED BY <1>1, <1>2 DEF Identities

\* Nothing recorded, nothing captured.
LEMMA NothingProperties == DOMAIN Nothing = {} /\ Nothing \in Identities /\ Nothing \in [{} -> Data]
<1>1. DOMAIN Nothing = {} /\ Nothing \in [{} -> Id] /\ Nothing \in [{} -> Data]
  BY DEF Nothing
<1> QED BY <1>1 DEF Identities

\* A set of identities is a function into the identities.
LEMMA IdentitiesProperties ==
  ASSUME NEW f \in Identities
  PROVE  DOMAIN f \subseteq Names /\ f \in [DOMAIN f -> Id]
BY DEF Identities

\* The top frame is replaced.
LEMMA SetTopProperties ==
  ASSUME stack \in Seq(FrameType), stack # <<>>, NEW fr \in FrameType
  PROVE  /\ SetTop(fr) \in Seq(FrameType)
         /\ Len(stack) \in Nat \ {0}
         /\ Len(SetTop(fr)) = Len(stack)
         /\ SetTop(fr)[Len(stack)] = fr
         /\ \A i \in 1..Len(stack): i # Len(stack) => SetTop(fr)[i] = stack[i]
<1>1. Len(stack) \in 1..Len(stack)
  OBVIOUS
<1> QED BY <1>1, ExceptSeq DEF SetTop

\* The top frame is removed.
LEMMA PopProperties ==
  ASSUME stack \in Seq(FrameType), stack # <<>>
  PROVE  /\ Pop \in Seq(FrameType)
         /\ Len(stack) \in Nat \ {0}
         /\ Len(Pop) = Len(stack) - 1
         /\ \A i \in 1..(Len(stack) - 1): Pop[i] = stack[i]
         /\ Pop = <<>> <=> Len(stack) = 1
<1>0. Len(stack) \in Nat \ {0}
  OBVIOUS
<1>1. \A i \in 1..(Len(stack) - 1): stack[i] \in FrameType
  BY <1>0, ElementOfSeq
<1>2. /\ Pop \in Seq(FrameType)
      /\ Len(Pop) = IF 1 <= Len(stack) - 1 THEN Len(stack) - 1 - 1 + 1 ELSE 0
      /\ \A i \in 1..(Len(stack) - 1 - 1 + 1): Pop[i] = stack[1 + i - 1]
  BY <1>0, <1>1, SubSeqProperties DEF Pop
<1>3. Len(Pop) = Len(stack) - 1
  <2>1. ASSUME NEW n \in Nat \ {0}
        PROVE  (IF 1 <= n - 1 THEN n - 1 - 1 + 1 ELSE 0) = n - 1
    OBVIOUS
  <2> QED BY <1>0, <1>2, <2>1, Zenon
<1>4. ASSUME NEW i \in 1..(Len(stack) - 1)
      PROVE  Pop[i] = stack[i]
  <2>1. i \in 1..(Len(stack) - 1 - 1 + 1) /\ 1 + i - 1 = i
    BY <1>0
  <2> QED BY <1>2, <2>1
<1> QED BY <1>0, <1>2, <1>3, <1>4, EmptySeq

\* The top frame is a frame.
LEMMA TopProperties ==
  ASSUME stack \in Seq(FrameType), stack # <<>>
  PROVE  /\ Top \in FrameType
         /\ Len(stack) \in Nat \ {0} /\ Len(stack) \in 1..Len(stack)
         /\ \A i \in 1..Len(stack): stack[i] \in FrameType
BY ElementOfSeq DEF Top

\* Names are files and directories.
LEMMA NamesProperties ==
  /\ \A n \in Names: n \in File <=> n \notin Dir
  /\ \A n \in Names: In[n] \in Dir
  /\ NoIno \notin Ino
  /\ File \subseteq Ino /\ File \subseteq Names
  /\ \A d \in Dir: Present(d) \subseteq Children(d) /\ Children(d) \cap Dir \subseteq Present(d)
BY TreeAssumption, InoAssumption, BoundAssumption DEF Names, NoIno, Ino, Present, Children

-----------------------------------------------------------------------------
(* Sums over finite sets. *)

\* What the fold of SumFunctionOnSet computes.
Adds(s, S, c) ==
  s = [R \in SUBSET S |-> IF R = {} THEN 0
                          ELSE c[CHOOSE x \in R: TRUE] + s[R \ {CHOOSE x \in R: TRUE}]]

\* A function of the smaller sets goes on to the larger.
LEMMA SumExists ==
  ASSUME NEW S, IsFiniteSet(S), NEW c, \A x \in S: c[x] \in Nat
  PROVE  \E s \in [SUBSET S -> Nat]: Adds(s, S, c)
<1> DEFINE a(R) == CHOOSE x \in R: TRUE
<1> DEFINE Up(n) == {R \in SUBSET S: Cardinality(R) <= n}
<1> DEFINE Good(n, s) == \A R \in Up(n): s[R] = IF R = {} THEN 0 ELSE c[a(R)] + s[R \ {a(R)}]
<1> DEFINE Bad == {n \in Nat: ~\E s \in [SUBSET S -> Nat]: Good(n, s)}
<1>1. \A R \in SUBSET S: IsFiniteSet(R) /\ Cardinality(R) \in Nat
  BY FS_Subset, FS_CardinalityType
<1>2. ASSUME NEW R \in SUBSET S, R # {}
      PROVE  a(R) \in R /\ R \ {a(R)} \in SUBSET S /\ Cardinality(R \ {a(R)}) = Cardinality(R) - 1
  <2>1. a(R) \in R
    BY <1>2
  <2> HIDE DEF a
  <2> QED BY <1>1, <2>1, FS_RemoveElement
<1> HIDE DEF a
<1>3. Bad = {}
  <2> SUFFICES ASSUME Bad # {} PROVE FALSE
    OBVIOUS
  <2>1. PICK n \in Bad: \A m \in Bad: ~(<<m, n>> \in OpToRel(<, Nat))
    <3> HIDE DEF Bad
    <3>1. Bad \subseteq Nat
      BY DEF Bad
    <3> QED BY <3>1, NatLessThanWellFounded, WFMin
  <2>2. n \in Nat /\ \A m \in Nat: m < n => m \notin Bad
    BY <2>1 DEF OpToRel
  <2>3. CASE n = 0
    <3> DEFINE s == [R \in SUBSET S |-> 0]
    <3>1. Up(0) = {{}}
      BY <1>1, FS_EmptySet
    <3>2. Good(0, s)
      BY <3>1
    <3> QED BY <2>1, <2>3, <3>2
  <2>4. CASE n > 0
    <3>1. n - 1 \in Nat /\ n - 1 \notin Bad
      <4> HIDE DEF Bad
      <4> QED BY <2>2, <2>4
    <3>2. PICK g \in [SUBSET S -> Nat]: Good(n - 1, g)
      BY <3>1
    <3> DEFINE s == [R \in SUBSET S |-> IF R = {} THEN 0 ELSE c[a(R)] + g[R \ {a(R)}]]
    <3>3. s \in [SUBSET S -> Nat]
      <4>1. ASSUME NEW R \in SUBSET S, R # {} PROVE c[a(R)] + g[R \ {a(R)}] \in Nat
        <5>1. a(R) \in S /\ R \ {a(R)} \in SUBSET S
          BY <1>2, <4>1
        <5>2. c[a(R)] \in Nat /\ g[R \ {a(R)}] \in Nat
          BY <5>1
        <5> QED BY <5>2
      <4> QED BY <4>1
    <3>4. \A R \in Up(n - 1): s[R] = g[R]
      BY <3>2
    <3>5. ASSUME NEW R \in Up(n)
          PROVE  s[R] = IF R = {} THEN 0 ELSE c[a(R)] + s[R \ {a(R)}]
      <4>1. CASE R # {}
        <5>1. /\ Cardinality(R) <= n /\ Cardinality(R) \in Nat
              /\ R \ {a(R)} \in SUBSET S /\ Cardinality(R \ {a(R)}) = Cardinality(R) - 1
          BY <1>1, <1>2, <4>1
        <5>2. Cardinality(R) - 1 <= n - 1
          BY <2>2, <5>1
        <5>3. s[R \ {a(R)}] = g[R \ {a(R)}]
          BY <3>4, <5>1, <5>2
        <5>4. s[R] = c[a(R)] + g[R \ {a(R)}]
          BY <4>1
        <5> QED BY <4>1, <5>3, <5>4
      <4> QED BY <4>1
    <3>6. Good(n, s)
      BY <3>5
    <3> QED BY <2>1, <3>3, <3>6
  <2> QED BY <2>2, <2>3, <2>4
<1> DEFINE N == Cardinality(S)
<1>4. N \in Nat /\ Up(N) = SUBSET S
  BY <1>1, FS_Subset, FS_CardinalityType
<1>5. PICK s \in [SUBSET S -> Nat]: Good(N, s)
  BY <1>3, <1>4
<1>6. \A R \in SUBSET S: s[R] = IF R = {} THEN 0 ELSE c[a(R)] + s[R \ {a(R)}]
  BY <1>4, <1>5
<1>7. Adds(s, S, c)
  BY <1>6 DEF Adds, a
<1> QED BY <1>7

\* The sum of a set does not depend on the set it is summed in.
LEMMA SumUnique ==
  ASSUME NEW S, NEW R \in SUBSET S, IsFiniteSet(R), NEW c, NEW s, Adds(s, S, c), NEW t, Adds(t, R, c)
  PROVE  \A Q \in SUBSET R: s[Q] = t[Q]
<1> DEFINE a(Q) == CHOOSE x \in Q: TRUE
<1> DEFINE Bad == {Q \in SUBSET R: s[Q] # t[Q]}
<1> SUFFICES ASSUME Bad # {} PROVE FALSE
  OBVIOUS
<1>1. Bad \in SUBSET FiniteSubsetsOf(R)
  BY FS_FiniteSubsetsOfFinite
<1>2. PICK Q \in Bad: \A P \in Bad: <<P, Q>> \notin StrictSubsetOrdering(R)
  <2> HIDE DEF Bad
  <2> QED BY <1>1, FS_StrictSubsetOrderingWellFounded, WFMin
<1>3. Q \in SUBSET R /\ Q \in SUBSET S /\ s[Q] # t[Q]
  OBVIOUS
<1>4. Q # {}
  BY <1>3 DEF Adds
<1>5. a(Q) \in Q
  BY <1>4
<1>6. s[Q] = c[a(Q)] + s[Q \ {a(Q)}] /\ t[Q] = c[a(Q)] + t[Q \ {a(Q)}]
  BY <1>3, <1>4 DEF Adds
<1> HIDE DEF a
<1>7. Q \ {a(Q)} \in SUBSET R /\ <<Q \ {a(Q)}, Q>> \in StrictSubsetOrdering(R)
  BY <1>3, <1>5 DEF StrictSubsetOrdering
<1>8. s[Q \ {a(Q)}] = t[Q \ {a(Q)}]
  BY <1>2, <1>7
<1> QED BY <1>3, <1>6, <1>8

\* SumFunctionOnSet is that function.
LEMMA SumValue ==
  ASSUME NEW S, IsFiniteSet(S), NEW c, NEW s, Adds(s, S, c), \A x \in S: c[x] \in Nat,
         NEW R \in SUBSET S
  PROVE  SumFunctionOnSet(c, R) = s[R]
<1> DEFINE Rec(h) == h = [Q \in SUBSET R |-> IF Q = {} THEN 0
                           ELSE c[CHOOSE x \in Q: TRUE] + h[Q \ {CHOOSE x \in Q: TRUE}]]
<1> DEFINE iter == CHOOSE h: Rec(h)
<1>1. SumFunctionOnSet(c, R) = iter[R]
  BY DEF SumFunctionOnSet, FoldFunctionOnSet, MapThenFoldSet
<1>2. IsFiniteSet(R) /\ \A x \in R: c[x] \in Nat
  BY FS_Subset
<1>3. PICK h \in [SUBSET R -> Nat]: Adds(h, R, c)
  BY <1>2, SumExists
<1>4. Rec(h)
  BY <1>3 DEF Adds
<1> HIDE DEF Rec
<1>5. Rec(iter)
  BY <1>4
<1>6. Adds(iter, R, c)
  BY <1>5 DEF Rec, Adds
<1> HIDE DEF iter
<1>7. s[R] = iter[R]
  BY <1>2, <1>6, SumUnique
<1> QED BY <1>1, <1>7

\* A term may be taken out of a sum, whichever it is.
LEMMA SumProperties ==
  ASSUME NEW S, IsFiniteSet(S), NEW c, \A x \in S: c[x] \in Nat
  PROVE  /\ SumFunctionOnSet(c, S) \in Nat
         /\ SumFunctionOnSet(c, {}) = 0
         /\ \A x \in S: SumFunctionOnSet(c, S) = c[x] + SumFunctionOnSet(c, S \ {x})
<1> DEFINE a(Q) == CHOOSE x \in Q: TRUE
<1>1. PICK s \in [SUBSET S -> Nat]: Adds(s, S, c)
  BY SumExists
<1>2. \A R \in SUBSET S: SumFunctionOnSet(c, R) = s[R]
  BY <1>1, SumValue
<1>3. s[{}] = 0
  BY <1>1 DEF Adds
<1>4. ASSUME NEW Q \in SUBSET S, Q # {}
      PROVE  a(Q) \in Q /\ s[Q] = c[a(Q)] + s[Q \ {a(Q)}]
  BY <1>1, <1>4 DEF Adds
<1> HIDE DEF a
<1> DEFINE Bad == {Q \in SUBSET S: \E x \in Q: s[Q] # c[x] + s[Q \ {x}]}
<1>5. Bad = {}
  <2> SUFFICES ASSUME Bad # {} PROVE FALSE
    OBVIOUS
  <2>1. Bad \in SUBSET FiniteSubsetsOf(S)
    BY FS_FiniteSubsetsOfFinite
  <2>2. PICK Q \in Bad: \A P \in Bad: <<P, Q>> \notin StrictSubsetOrdering(S)
    <3> HIDE DEF Bad
    <3> QED BY <2>1, FS_StrictSubsetOrderingWellFounded, WFMin
  <2>3. PICK x \in Q: s[Q] # c[x] + s[Q \ {x}]
    BY <2>2
  <2>4. Q \in SUBSET S /\ Q # {}
    BY <2>2, <2>3
  <2>5. PICK y \in Q: y = a(Q) /\ s[Q] = c[y] + s[Q \ {y}]
    BY <1>4, <2>4
  <2>6. x # y
    BY <2>3, <2>5
  <2>7. ASSUME NEW P \in SUBSET S, P \subseteq Q, P # Q, NEW z \in P
        PROVE  s[P] = c[z] + s[P \ {z}]
    <3>1. <<P, Q>> \in StrictSubsetOrdering(S)
      BY <2>4, <2>7 DEF StrictSubsetOrdering
    <3> QED BY <2>2, <2>7, <3>1
  <2>8. s[Q \ {y}] = c[x] + s[(Q \ {y}) \ {x}]
    BY <2>4, <2>5, <2>6, <2>7
  <2>9. s[Q \ {x}] = c[y] + s[(Q \ {x}) \ {y}]
    BY <2>3, <2>4, <2>6, <2>7
  <2>10. (Q \ {y}) \ {x} = (Q \ {x}) \ {y} /\ (Q \ {x}) \ {y} \in SUBSET S
    BY <2>4
  <2>11. c[x] \in Nat /\ c[y] \in Nat /\ s[(Q \ {x}) \ {y}] \in Nat
    BY <2>3, <2>4, <2>5, <2>10
  <2>12. s[Q \ {y}] = c[x] + s[(Q \ {x}) \ {y}]
    BY <2>8, <2>10
  <2> QED BY <2>3, <2>5, <2>9, <2>11, <2>12
<1>6. \A x \in S: s[S] = c[x] + s[S \ {x}]
  BY <1>5
<1> QED BY <1>2, <1>3, <1>6

-----------------------------------------------------------------------------
(* The lengths of frames. *)

\* The number of chunks; all but the last are full.
LEMMA ChunksProperties ==
  ASSUME NEW n \in Nat
  PROVE  /\ Chunks(n) \in Nat
         /\ n = 0 => Chunks(n) = 0
         /\ n <= ChunkSize * Chunks(n)
         /\ \A k \in 0..(Chunks(n) - 1): ChunkSize * k < n
<1>1. PICK q \in Nat: q = Chunks(n) /\ ChunkSize * q <= n + (ChunkSize - 1) /\ n + (ChunkSize - 1) < ChunkSize * q + ChunkSize
  BY SMT DEF Chunks, ChunkSize
<1>2. \A k \in 0..(q - 1): ChunkSize * k < n
  BY <1>1, SMT DEF ChunkSize
<1> QED BY <1>1, <1>2, SMT DEF ChunkSize

\* A head takes at most five bytes.
LEMMA HeadProperties ==
  ASSUME NEW n
  PROVE  HeadBytes(n) \in 1..5
BY SMT DEF HeadBytes

\* The encoding of a chunk.
LEMMA ChunkProperties ==
  ASSUME NEW n \in Nat, NEW k \in 0..(Chunks(n) - 1)
  PROVE  /\ Part(n, k) \in 1..ChunkSize
         /\ ChunkLength(n, k) \in Nat /\ ChunkLength(n, k) <= 39 + Part(n, k)
<1>1. Chunks(n) \in Nat /\ ChunkSize * k < n /\ k \in Nat
  BY ChunksProperties
<1>2. Part(n, k) \in 1..ChunkSize
  BY <1>1, SMT DEF Part, ChunkSize
<1>3. HeadBytes(k) \in 1..5 /\ HeadBytes(Part(n, k)) \in 1..5
  BY HeadProperties, Zenon
<1>4. \A p \in 1..ChunkSize, a, b \in 1..5: 29 + a + b + p \in Nat /\ 29 + a + b + p <= 39 + p
  BY SMT DEF ChunkSize
<1> QED BY <1>2, <1>3, <1>4, Zenon DEF ChunkLength

\* The data with 128 bytes a chunk is a bound of what ResponseWriter::chunks writes.
LEMMA ChunkBytesProperties ==
  ASSUME NEW n \in Nat
  PROVE  ChunkBytes(n) \in Nat /\ ChunkBytes(n) <= n + 128 * Chunks(n)
<1> DEFINE c == [k \in 0..(Chunks(n) - 1) |-> 4 + ChunkLength(n, k)]
<1>1. PICK K \in Nat: K = Chunks(n) /\ n <= ChunkSize * K /\ \A k \in 0..(K - 1): ChunkSize * k < n
  BY ChunksProperties
<1>2. ASSUME NEW k \in 0..(K - 1)
      PROVE  c[k] \in Nat /\ c[k] <= 43 + Part(n, k) /\ Part(n, k) \in 1..ChunkSize
  <2>1. k \in 0..(Chunks(n) - 1)
    BY <1>1
  <2>2. c[k] = 4 + ChunkLength(n, k)
    BY <2>1
  <2>3. /\ Part(n, k) \in 1..ChunkSize
        /\ ChunkLength(n, k) \in Nat /\ ChunkLength(n, k) <= 39 + Part(n, k)
    BY <2>1, ChunkProperties, Zenon
  <2>4. \A p \in 1..ChunkSize, l \in Nat: l <= 39 + p => 4 + l \in Nat /\ 4 + l <= 43 + p
    BY SMT DEF ChunkSize
  <2> HIDE DEF c
  <2> QED BY <2>2, <2>3, <2>4, Zenon
<1>3. ChunkBytes(n) = SumFunctionOnSet(c, 0..(K - 1))
  BY <1>1 DEF ChunkBytes
<1> HIDE DEF c
<1> DEFINE Prefix(j) == IF ChunkSize * j < n THEN ChunkSize * j ELSE n
<1> DEFINE Total(j) == SumFunctionOnSet(c, 0..(j - 1))
<1> DEFINE Good(j) == Total(j) \in Nat /\ Total(j) <= 128 * j + Prefix(j)
<1> DEFINE Bad == {j \in 0..K: ~Good(j)}
<1>4. Good(0)
  <2>1. 0..(0 - 1) = {}
    OBVIOUS
  <2>2. SumFunctionOnSet(c, {}) = 0
    BY SumProperties, FS_EmptySet
  <2>3. Total(0) = 0 /\ Prefix(0) = 0
    BY <2>1, <2>2, SMT DEF ChunkSize
  <2> HIDE DEF Total, Prefix
  <2> QED BY <2>3
<1>5. ASSUME NEW i \in 0..(K - 1), Good(i)
      PROVE  Good(i + 1)
  <2>1. /\ IsFiniteSet(0..i) /\ i \in 0..i /\ i \in Nat
        /\ (0..i) \ {i} = 0..(i - 1) /\ 0..i \subseteq 0..(K - 1) /\ (i + 1) - 1 = i
    <3>1. /\ i \in 0..i /\ i \in Nat /\ 0 \in Int /\ i \in Int
          /\ (0..i) \ {i} = 0..(i - 1) /\ 0..i \subseteq 0..(K - 1) /\ (i + 1) - 1 = i
      OBVIOUS
    <3> QED BY <3>1, FS_Interval, Zenon
  <2>2. SumFunctionOnSet(c, 0..i) = c[i] + SumFunctionOnSet(c, (0..i) \ {i})
    <3>1. \A x \in 0..i: c[x] \in Nat
      BY <1>2, <2>1
    <3> QED BY <2>1, <3>1, SumProperties
  <2>3. Total(i + 1) = c[i] + Total(i)
    BY <2>1, <2>2, Zenon
  <2>4. c[i] \in Nat /\ c[i] <= 43 + Part(n, i) /\ Part(n, i) \in 1..ChunkSize
    BY <1>2
  <2>5. Prefix(i) \in Nat /\ Prefix(i + 1) = Prefix(i) + Part(n, i)
    BY <1>1, <2>1, SMT DEF Part, ChunkSize
  <2>6. \A t, d, x \in Nat, p \in 1..ChunkSize: t <= 128 * i + d /\ x <= 43 + p =>
          x + t \in Nat /\ x + t <= 128 * (i + 1) + (d + p)
    BY <2>1, SMT DEF ChunkSize
  <2>7. Total(i) \in Nat /\ Total(i) <= 128 * i + Prefix(i)
    BY <1>5
  <2> HIDE DEF Total, Prefix
  <2>8. /\ c[i] + Total(i) \in Nat
        /\ c[i] + Total(i) <= 128 * (i + 1) + (Prefix(i) + Part(n, i))
    BY <2>4, <2>5, <2>6, <2>7
  <2> QED BY <2>3, <2>5, <2>8
<1> HIDE DEF Good
<1>6. Bad = {}
  <2> SUFFICES ASSUME Bad # {} PROVE FALSE
    OBVIOUS
  <2>1. Bad \subseteq Nat
    OBVIOUS
  <2>2. PICK j \in Bad: \A m \in Bad: ~(<<m, j>> \in OpToRel(<, Nat))
    <3> HIDE DEF Bad
    <3> QED BY <2>1, NatLessThanWellFounded, WFMin
  <2>3. j \in 0..K /\ j \in Nat /\ ~Good(j)
    BY <2>1, <2>2
  <2>4. j # 0
    BY <1>4, <2>3
  <2>5. PICK i \in Nat: i + 1 = j /\ i \in 0..(K - 1) /\ i \in 0..K /\ i < j
    <3>1. j - 1 \in Nat /\ (j - 1) + 1 = j /\ j - 1 \in 0..(K - 1) /\ j - 1 \in 0..K /\ j - 1 < j
      BY <2>3, <2>4
    <3> QED BY <3>1
  <2>6. i \notin Bad
    <3> HIDE DEF Bad
    <3> QED BY <2>2, <2>3, <2>5 DEF OpToRel
  <2> QED BY <1>5, <2>3, <2>5, <2>6
<1>7. Total(K) \in Nat /\ Total(K) <= 128 * K + Prefix(K) /\ Prefix(K) \in Nat /\ Prefix(K) <= n
  <2>1. Good(K)
    BY <1>6
  <2> QED BY <1>1, <2>1, SMT DEF Good, ChunkSize
<1>8. \A t, d \in Nat: t <= 128 * K + d /\ d <= n => t <= n + 128 * K
  BY <1>1
<1> HIDE DEF Prefix
<1>9. Total(K) \in Nat /\ Total(K) <= n + 128 * K
  <2> HIDE DEF Total
  <2> QED BY <1>7, <1>8, Zenon
<1> QED BY <1>1, <1>3, <1>9

\* The lengths of a path and of its file.
LEMMA SizeProperties ==
  ASSUME NEW f \in File
  PROVE  DataBytes[f] \in Nat /\ PathBytes[f] \in Nat /\ PathBytes[f] <= MaxTextBytes
<1>1. MaxTextBytes \in Nat
  BY SMT DEF MaxTextBytes
<1> QED BY <1>1, SizeAssumption

\* The frames and bytes of the rows, in all and with one taken out.
LEMMA RowSums ==
  ASSUME NEW S \in SUBSET File, IsFiniteSet(S)
  PROVE  /\ SumFunctionOnSet(RowFrames, S) \in Nat /\ SumFunctionOnSet(RowBytes, S) \in Nat
         /\ \A f \in S:
              /\ SumFunctionOnSet(RowFrames, S \ {f}) \in Nat
              /\ SumFunctionOnSet(RowBytes, S \ {f}) \in Nat
              /\ SumFunctionOnSet(RowFrames, S) =
                   1 + Chunks(DataBytes[f]) + SumFunctionOnSet(RowFrames, S \ {f})
              /\ SumFunctionOnSet(RowBytes, S) =
                   DataBytes[f] + PathBytes[f] + 160 + SumFunctionOnSet(RowBytes, S \ {f})
<1>1. ASSUME NEW f \in File
      PROVE  /\ RowFrames[f] = 1 + Chunks(DataBytes[f]) /\ RowFrames[f] \in Nat
             /\ RowBytes[f] = DataBytes[f] + PathBytes[f] + 160 /\ RowBytes[f] \in Nat
  <2>1. DataBytes[f] \in Nat /\ PathBytes[f] \in Nat
    BY SizeProperties
  <2>2. Chunks(DataBytes[f]) \in Nat
    BY <2>1, ChunksProperties
  <2>3. RowFrames[f] = 1 + Chunks(DataBytes[f]) /\ RowBytes[f] = DataBytes[f] + PathBytes[f] + 160
    BY DEF RowFrames, RowBytes
  <2> QED BY <2>1, <2>2, <2>3
<1>2. ASSUME NEW f \in S
      PROVE  /\ SumFunctionOnSet(RowFrames, S \ {f}) \in Nat
             /\ SumFunctionOnSet(RowBytes, S \ {f}) \in Nat
             /\ SumFunctionOnSet(RowFrames, S) = RowFrames[f] + SumFunctionOnSet(RowFrames, S \ {f})
             /\ SumFunctionOnSet(RowBytes, S) = RowBytes[f] + SumFunctionOnSet(RowBytes, S \ {f})
  <2>1. IsFiniteSet(S \ {f}) /\ \A x \in S: RowFrames[x] \in Nat /\ RowBytes[x] \in Nat
    BY <1>1, FS_Subset
  <2> QED BY <2>1, SumProperties
<1>3. SumFunctionOnSet(RowFrames, S) \in Nat /\ SumFunctionOnSet(RowBytes, S) \in Nat
  BY <1>1, SumProperties
<1>4. ASSUME NEW f \in S
      PROVE  /\ SumFunctionOnSet(RowFrames, S) =
                  1 + Chunks(DataBytes[f]) + SumFunctionOnSet(RowFrames, S \ {f})
             /\ SumFunctionOnSet(RowBytes, S) =
                  DataBytes[f] + PathBytes[f] + 160 + SumFunctionOnSet(RowBytes, S \ {f})
  BY <1>1, <1>2
<1> QED BY <1>2, <1>3, <1>4

\* The inputs and their chunks.
LEMMA InputSizes ==
  ASSUME NEW role \in {"overlay", "carrier"}
  PROVE  /\ InputBytes[role] \in Nat /\ Chunks(InputBytes[role]) \in Nat
         /\ InputDue(role) \in Nat
<1>1. InputBytes[role] \in Nat
  BY SizeAssumption
<1>2. Chunks(InputBytes[role]) \in Nat
  BY <1>1, ChunksProperties
<1> QED BY <1>1, <1>2 DEF InputDue

\* A frame of data is encoded.
LEMMA ChunkEncodes ==
  ASSUME NEW n \in Nat, NEW k \in 0..(Chunks(n) - 1)
  PROVE  ChunkLength(n, k) <= MaxFrameBytes
<1>1. /\ Part(n, k) \in 1..ChunkSize
      /\ ChunkLength(n, k) \in Nat /\ ChunkLength(n, k) <= 39 + Part(n, k)
  BY ChunkProperties
<1>2. ChunkSize \in Nat /\ \A p, l \in Nat: p <= ChunkSize /\ l <= 39 + p => l <= MaxFrameBytes
  BY SMT DEF ChunkSize, MaxFrameBytes
<1>3. Part(n, k) \in Nat /\ Part(n, k) <= ChunkSize
  BY <1>1, <1>2
<1> QED BY <1>1, <1>2, <1>3

-----------------------------------------------------------------------------
(* Steps that end the helper, or that do not touch the walk. *)

\* A helper that ends without success leaves nothing behind.
LEMMA GoneKeeps ==
  ASSUME WalkInv, Gone, child' \in {"refused", "killed"},
         code' \in Codes \cup {"none"}, code' # "none" <=> child' = "refused",
         UNCHANGED tree
  PROVE  WalkInv'
<1>1. pc' = "gone" /\ stack' = <<>> /\ inv' = NoInv /\ rows' = Nothing
  BY DEF Gone, Goto
<1>2. Shapes'
  <2>1. inv' \in [left: SUBSET Names, got: Identities]
    BY <1>1, NothingProperties DEF NoInv
  <2>2. rows' \in [DOMAIN rows' -> Data] /\ DOMAIN rows' \subseteq File /\ IsFiniteSet(DOMAIN rows')
    BY <1>1, NothingProperties, FS_EmptySet
  <2> QED BY <1>1, <2>1, <2>2, EmptySeq DEF WalkInv, Shapes, tree
<1>3. Stations'
  BY <1>1 DEF Stations, Walking, Reading
<1>4. Current'
  BY DEF WalkInv, Current, tree, Listing, Present
<1>5. Inventoried' /\ Held' /\ Walked'
  BY <1>1 DEF Inventoried, Held, Walked, Reading, Walking, Responding, Writing
<1> QED BY <1>2, <1>3, <1>4, <1>5 DEF WalkInv

\* A refusal is such an end.
LEMMA RefuseKeeps ==
  ASSUME WalkInv, NEW c \in Codes, Refuse(c)
  PROVE  WalkInv'
<1>1. "none" \notin Codes
  BY DEF Codes
<1> QED BY <1>1, GoneKeeps DEF Refuse

\* While the response is written, and when it is complete, the rows stay.
LEMMA RespondKeeps ==
  ASSUME WalkInv, pc \in Responding, child = "running",
         (pc' \in Responding /\ child' = "running") \/ (pc' = "gone" /\ child' = "ok"),
         UNCHANGED <<tree, walk, code>>
  PROVE  WalkInv'
<1>1. UNCHANGED <<name, node, touched, edits, past, stack, inv, rows>>
  BY DEF tree, walk
<1> USE DEF Walking, Reading, Responding, Writing
<1>2. Shapes'
  BY <1>1 DEF WalkInv, Shapes
<1>3. Stations'
  BY <1>1 DEF WalkInv, Stations
<1>4. Current'
  BY <1>1 DEF WalkInv, Current, Listing, Present
<1>5. Inventoried' /\ Held'
  BY DEF Inventoried, Held
<1>6. Walked'
  BY <1>1 DEF WalkInv, Walked, Captured
<1> QED BY <1>2, <1>3, <1>4, <1>5, <1>6 DEF WalkInv

\* The SDK does not touch the helper.
LEMMA ClientKeeps ==
  ASSUME WalkInv, UNCHANGED <<tree, pc, walk, child, code>>
  PROVE  WalkInv'
<1>1. UNCHANGED <<name, node, touched, edits, past, stack, inv, held, rows, pc, child, code>>
  BY DEF tree, walk
<1>2. UNCHANGED Top
  BY <1>1 DEF Top
<1>3. Shapes' /\ Stations' /\ Current'
  BY <1>1 DEF WalkInv, Shapes, Stations, Current, Listing, Present
<1>4. Inventoried' /\ Held'
  BY <1>1, <1>2 DEF WalkInv, Inventoried, Held, Recorded, Present, Identity
<1>5. ASSUME NEW V \in SUBSET Dir, Walk(V)
      PROVE  Walk(V)'
  <2>1. \A fr: Untouched(fr, V)' <=> Untouched(fr, V)
    BY <1>1 DEF Untouched
  <2>2. \A fr, L: Instant(fr, L)' <=> Instant(fr, L)
    BY <1>1 DEF Instant, Identity
  <2>3. \A fr: Listed(fr, V)' <=> Listed(fr, V)
    BY <1>1, <2>2 DEF Listed, Recorded
  <2>4. FrameInv(V)'
    BY <1>1, <1>5, <2>1, <2>3 DEF Walk, FrameInv
  <2>5. \A d: Captured(d)' = Captured(d)
    BY <1>1 DEF Captured
  <2> QED BY <1>1, <1>2, <1>5, <2>4, <2>5 DEF Walk
<1>6. Walked'
  BY <1>1, <1>5 DEF WalkInv, Walked, Captured
<1> QED BY <1>3, <1>4, <1>6 DEF WalkInv

-----------------------------------------------------------------------------
(* Steps of the tree's other users. *)

\* What an edit may do: an inode or a directory that it changes has a stamp
\* that nobody has recorded.
EditStep ==
  /\ edits' = edits + 1
  /\ name' \in [File -> Ino \cup {NoIno}]
  /\ node' \in [Ino -> [stamp: Stamp, data: Data]]
  /\ touched' \in [Dir -> Stamp] /\ edits' \in Stamp
  /\ \A i \in Ino: node'[i] = node[i] \/ node'[i].stamp = edits'
  /\ \A d \in Dir: \/ touched'[d] = edits'
                   \/ /\ touched'[d] = touched[d]
                      /\ \A f \in File: In[f] = d => name'[f] = name[f]
  /\ \A d \in Dir: past[d] \subseteq past'[d] /\ Listing(d)' \in past'[d]
  /\ UNCHANGED <<pc, stack, inv, held, rows, child, code>>

\* The inode's change: another stamp, and in place of the data perhaps others.
LEMMA Restamped ==
  ASSUME NEW r \in [stamp: Stamp, data: Data], NEW s \in Stamp
  PROVE  /\ [r EXCEPT !.stamp = s] \in [stamp: Stamp, data: Data]
         /\ [r EXCEPT !.stamp = s].stamp = s
OBVIOUS

LEMMA Flipped ==
  ASSUME NEW d \in Data, NEW b \in Block
  PROVE  [d EXCEPT ![b] = 1 - d[b]] \in Data
<1>1. d[b] \in {0, 1}
  BY DEF Data
<1>2. 1 - d[b] \in {0, 1}
  BY <1>1
<1> QED BY <1>2 DEF Data

\* Writing, placing and removing a file are such steps.
LEMMA EditView ==
  ASSUME Shapes, NEW f \in File, Place(f) \/ Remove(f) \/ \E b \in Block: Write(f, b)
  PROVE  EditStep
<1>0. /\ name \in [File -> Ino \cup {NoIno}]
      /\ node \in [Ino -> [stamp: Stamp, data: Data]]
      /\ touched \in [Dir -> Stamp] /\ edits \in Stamp
  BY DEF Shapes
<1>1. Edit
  BY DEF Place, Remove, Write
<1>2. edits' = edits + 1 /\ edits' \in Stamp /\ edits' \in Ino
  <2>1. edits \in 0..MaxEdits /\ edits < MaxEdits /\ MaxEdits \in Nat
    BY <1>0, <1>1, BoundAssumption DEF Edit, Stamp
  <2>2. edits' = edits + 1 /\ edits + 1 \in 0..MaxEdits /\ edits + 1 \in 1..MaxEdits
    BY <1>1, <2>1 DEF Edit
  <2> QED BY <2>2 DEF Stamp, Ino
<1>3. \A d \in Dir: past[d] \subseteq past'[d] /\ Listing(d)' \in past'[d]
  BY <1>1 DEF Edit
<1>4. UNCHANGED <<pc, stack, inv, held, rows, child, code>>
  BY <1>1 DEF Edit, walk, output
<1>5. In[f] \in Dir
  BY TreeAssumption
<1> DEFINE Rest ==
      /\ name' \in [File -> Ino \cup {NoIno}]
      /\ node' \in [Ino -> [stamp: Stamp, data: Data]]
      /\ touched' \in [Dir -> Stamp]
      /\ \A i \in Ino: node'[i] = node[i] \/ node'[i].stamp = edits'
      /\ \A d \in Dir: \/ touched'[d] = edits'
                       \/ /\ touched'[d] = touched[d]
                          /\ \A g \in File: In[g] = d => name'[g] = name[g]
<1>6. \A i \in Ino: node[i].data \in Data
  BY <1>0
<1>7. CASE Place(f)
  <2>1. [b \in Block |-> 1] \in Data
    BY DEF Data
  <2>2. name' \in [File -> Ino \cup {NoIno}] /\ touched' \in [Dir -> Stamp]
    BY <1>0, <1>2, <1>7 DEF Place
  <2>3. \A i \in Ino: node'[i] = IF i = edits' THEN [stamp |-> edits', data |-> [b \in Block |-> 1]]
                                 ELSE IF i = name[f] THEN [node[i] EXCEPT !.stamp = edits']
                                 ELSE node[i]
    BY <1>2, <1>7 DEF Place
  <2>4. \A i \in Ino: /\ [node[i] EXCEPT !.stamp = edits'] \in [stamp: Stamp, data: Data]
                      /\ [node[i] EXCEPT !.stamp = edits'].stamp = edits'
    BY <1>0, <1>2, Restamped
  <2>5. ASSUME NEW i \in Ino
        PROVE  /\ node'[i] \in [stamp: Stamp, data: Data]
               /\ node'[i] = node[i] \/ node'[i].stamp = edits'
    <3>1. CASE i = edits'
      <4>1. node'[i] = [stamp |-> edits', data |-> [b \in Block |-> 1]]
        BY <2>3, <3>1
      <4>2. node'[i].stamp = edits' /\ node'[i] \in [stamp: Stamp, data: Data]
        BY <1>2, <2>1, <4>1
      <4> QED BY <4>2
    <3>2. CASE i # edits' /\ i = name[f]
      BY <2>3, <2>4, <3>2
    <3>3. CASE i # edits' /\ i # name[f]
      BY <1>0, <2>3, <3>3
    <3> QED BY <3>1, <3>2, <3>3
  <2>6. node' \in [Ino -> [stamp: Stamp, data: Data]]
    BY <1>7, <2>5 DEF Place
  <2>7. \A d \in Dir: \/ touched'[d] = edits'
                      \/ /\ touched'[d] = touched[d]
                         /\ \A g \in File: In[g] = d => name'[g] = name[g]
    BY <1>0, <1>2, <1>7 DEF Place
  <2>8. Rest
    BY <2>2, <2>5, <2>6, <2>7
  <2> QED BY <1>2, <1>3, <1>4, <2>8 DEF EditStep
<1>8. CASE Remove(f)
  <2>0. name[f] \in Ino
    BY <1>0, <1>8 DEF Remove
  <2>1. name' \in [File -> Ino \cup {NoIno}] /\ touched' \in [Dir -> Stamp]
    BY <1>0, <1>2, <1>8 DEF Remove
  <2>2. node' = [node EXCEPT ![name[f]] = [node[name[f]] EXCEPT !.stamp = edits']]
    BY <1>2, <1>8 DEF Remove
  <2>3. /\ [node[name[f]] EXCEPT !.stamp = edits'] \in [stamp: Stamp, data: Data]
        /\ [node[name[f]] EXCEPT !.stamp = edits'].stamp = edits'
    BY <1>0, <1>2, <2>0, Restamped
  <2>4. /\ node' \in [Ino -> [stamp: Stamp, data: Data]]
        /\ \A i \in Ino: node'[i] = node[i] \/ node'[i].stamp = edits'
    BY <1>0, <2>0, <2>2, <2>3
  <2>5. \A d \in Dir: \/ touched'[d] = edits'
                      \/ /\ touched'[d] = touched[d]
                         /\ \A g \in File: In[g] = d => name'[g] = name[g]
    BY <1>0, <1>2, <1>8 DEF Remove
  <2>6. Rest
    BY <2>1, <2>4, <2>5
  <2> QED BY <1>2, <1>3, <1>4, <2>6 DEF EditStep
<1>9. ASSUME NEW b \in Block, Write(f, b)
      PROVE  EditStep
  <2>0. name[f] \in Ino
    BY <1>0, <1>9 DEF Write
  <2>1. UNCHANGED <<name, touched>>
    BY <1>9 DEF Write
  <2> DEFINE new == [node[name[f]].data EXCEPT ![b] = 1 - node[name[f]].data[b]]
  <2>2. new \in Data
    BY <1>6, <2>0, <1>9, Flipped
  <2>3. node' = [node EXCEPT ![name[f]] = [stamp |-> edits', data |-> new]]
    <3>1. node' = [node EXCEPT ![name[f]] = [stamp |-> edits + 1, data |-> new]]
      BY <1>9, Zenon DEF Write
    <3> HIDE DEF new
    <3> QED BY <1>2, <3>1
  <2> HIDE DEF new
  <2>4. /\ node' \in [Ino -> [stamp: Stamp, data: Data]]
        /\ \A i \in Ino: node'[i] = node[i] \/ node'[i].stamp = edits'
    BY <1>0, <1>2, <2>0, <2>2, <2>3
  <2>5. Rest
    BY <1>0, <2>1, <2>4
  <2> QED BY <1>2, <1>3, <1>4, <2>5 DEF EditStep
<1> QED BY <1>7, <1>8, <1>9

\* What was recorded stays in the past; an identity that holds after an edit
\* held before it, and the inode is the same.
LEMMA EditIdentity ==
  ASSUME Shapes, EditStep, NEW i \in Ino, NEW id, id.stamp <= edits, Identity(i)' = id
  PROVE  Identity(i) = id /\ node'[i] = node[i]
<1>1. edits \in Nat /\ edits' = edits + 1 /\ (node'[i] = node[i] \/ node'[i].stamp = edits')
  BY BoundAssumption DEF Shapes, EditStep, Stamp
<1>2. id.stamp = node'[i].stamp
  BY DEF Identity
<1>3. node'[i] = node[i]
  BY <1>1, <1>2
<1> QED BY <1>3 DEF Identity

\* An edit keeps the invariant of the walk: the instant of each listed directory
\* stays one of those it has been.
LEMMA EditKeeps ==
  ASSUME WalkInv, EditStep
  PROVE  WalkInv'
<1>0. Shapes /\ Stations
  BY DEF WalkInv
<1>1. /\ UNCHANGED <<pc, stack, inv, held, rows, child, code>>
      /\ UNCHANGED Top
      /\ edits \in Nat /\ edits' = edits + 1
      /\ \A d \in Dir: past[d] \subseteq past'[d]
  BY <1>0, BoundAssumption DEF EditStep, Top, Shapes, Stamp
<1>2. Shapes' /\ Stations'
  BY <1>0, <1>1 DEF EditStep, Shapes, Stations
<1>3. Current'
  <2>1. \A d \in Dir: touched[d] \in Nat /\ touched[d] <= edits
    BY <1>0, BoundAssumption DEF WalkInv, Current, Shapes, Stamp
  <2>2. \A i \in Ino: node[i].stamp \in Nat /\ node[i].stamp <= edits
    BY <1>0, BoundAssumption DEF WalkInv, Current, Shapes, Stamp
  <2>3. \A d \in Dir: touched'[d] <= edits'
    BY <1>1, <2>1 DEF EditStep
  <2>4. \A i \in Ino: node'[i].stamp <= edits'
    BY <1>1, <2>2 DEF EditStep
  <2> QED BY <2>3, <2>4 DEF EditStep, Current
<1>4. ASSUME NEW ids \in Identities, Recorded(ids)
      PROVE  Recorded(ids)'
  <2>1. \A n \in DOMAIN ids: ids[n].stamp \in Nat
    BY IdentitiesProperties, BoundAssumption DEF Id, Stamp
  <2> QED BY <1>1, <1>4, <2>1 DEF Recorded
<1>5. Inventoried'
  <2> SUFFICES ASSUME pc = "stat"
               PROVE  /\ Recorded(inv.got)'
                      /\ Top.turn = "before" /\ touched'[Top.dir] = Top.id.stamp =>
                           /\ DOMAIN inv.got \cup inv.left = Present(Top.dir)'
                           /\ \A f \in DOMAIN inv.got \cap File: inv.got[f].ino = name'[f]
    BY <1>1 DEF Inventoried
  <2>1. stack # <<>> /\ Top \in FrameType /\ Len(stack) \in 1..Len(stack) /\ inv.got \in Identities
    BY <1>0, TopProperties DEF Stations, Walking, Shapes
  <2>2. Recorded(inv.got)'
    <3>1. Recorded(inv.got)
      BY DEF WalkInv, Inventoried
    <3>2. \A ids \in Identities: Recorded(ids) => Recorded(ids)'
      BY <1>4
    <3> QED BY <1>1, <2>1, <3>1, <3>2 DEF Recorded
  <2>3. Top.id.stamp <= edits /\ Top.id.stamp \in Nat /\ Top.dir \in Dir
    <3>1. PICK V \in SUBSET Dir: FrameInv(V)
      BY DEF WalkInv, Walked, Walk, Walking
    <3> QED BY <2>1, <3>1, BoundAssumption DEF FrameInv, Top, FrameType, Id, Stamp
  <2>4. ASSUME Top.turn = "before", touched'[Top.dir] = Top.id.stamp
        PROVE  /\ DOMAIN inv.got \cup inv.left = Present(Top.dir)'
               /\ \A f \in DOMAIN inv.got \cap File: inv.got[f].ino = name'[f]
    <3>1. /\ touched'[Top.dir] = touched[Top.dir]
          /\ \A f \in File: In[f] = Top.dir => name'[f] = name[f]
      BY <1>1, <2>3, <2>4 DEF EditStep
    <3>2. Present(Top.dir)' = Present(Top.dir)
      BY <1>1, <3>1 DEF Present
    <3>3. DOMAIN inv.got \cup inv.left = Present(Top.dir)
      BY <2>4, <3>1 DEF WalkInv, Inventoried
    <3>4. \A f \in DOMAIN inv.got \cap File: In[f] = Top.dir /\ inv.got[f].ino = name[f]
      BY <2>4, <3>1, <3>3 DEF WalkInv, Inventoried, Present
    <3> QED BY <3>1, <3>2, <3>3, <3>4
  <2> QED BY <2>2, <2>4
<1>6. Held'
  <2> SUFFICES ASSUME pc \in Reading
               PROVE  Held'
    BY <1>1 DEF Held
  <2>0. held.ino \in Ino /\ held.id.stamp <= edits /\ held.id \in Id
    BY DEF WalkInv, Held
  <2>1. held.id.stamp <= edits'
    BY <1>1, <2>0, BoundAssumption DEF Id, Stamp
  <2>2. Identity(held.ino)' = held.id => Identity(held.ino) = held.id /\ node'[held.ino] = node[held.ino]
    BY <1>0, <1>1, <2>0, EditIdentity DEF Identity
  <2>3. Identity(held.ino)' = held.id =>
          \A k \in 1..Len(held.buf): held.buf[k] = node'[held.ino].data[k]
    BY <2>2 DEF WalkInv, Held
  <2> QED BY <1>1, <2>1, <2>3 DEF WalkInv, Held
<1>7. ASSUME NEW V \in SUBSET Dir, Walk(V), stack # <<>>
      PROVE  Walk(V)'
  <2>1. \A i \in 1..Len(stack): stack[i] \in FrameType
    BY <1>0, <1>7, TopProperties DEF Shapes
  <2>2. \A d \in Dir: Captured(d)' = Captured(d)
    BY <1>1 DEF Captured
  <2>3. ASSUME NEW fr \in FrameType, Listed(fr, V)
        PROVE  Listed(fr, V)'
    <3>1. fr.before \in Identities /\ fr.dir \in Dir
      BY DEF FrameType
    <3>2. Recorded(fr.before)'
      BY <1>4, <2>3, <3>1 DEF Listed
    <3>3. PICK L \in past[fr.dir]: Instant(fr, L)
      BY <2>3 DEF Listed
    <3>4. Instant(fr, L)'
      <4>1. ASSUME NEW f \in DOMAIN L, Identity(fr.before[f].ino)' = fr.before[f]
            PROVE  node'[fr.before[f].ino].data = L[f]
        <5>1. f \in DOMAIN fr.before \cap File
          BY <3>3 DEF Instant
        <5>2. fr.before[f].ino \in Ino /\ fr.before[f].stamp <= edits
          BY <2>3, <5>1 DEF Listed, Recorded
        <5>3. Identity(fr.before[f].ino) = fr.before[f] /\ node'[fr.before[f].ino] = node[fr.before[f].ino]
          BY <1>0, <4>1, <5>2, EditIdentity DEF Identity
        <5> QED BY <3>3, <5>3 DEF Instant
      <4> QED BY <1>1, <3>3, <4>1 DEF Instant
    <3>5. \E M \in past'[fr.dir]: Instant(fr, M)'
      BY <1>1, <3>1, <3>4
    <3> QED BY <1>1, <2>3, <3>2, <3>5 DEF Listed
  <2>4. \A fr: Untouched(fr, V)' <=> Untouched(fr, V)
    BY <1>1 DEF Untouched
  <2>5. FrameInv(V)'
    <3>1. \A i \in 1..Len(stack): stack[i].id.stamp \in Nat
      BY <2>1, BoundAssumption DEF FrameType, Id, Stamp
    <3>2. \A i \in 1..Len(stack): stack[i].id.stamp <= edits'
      BY <1>1, <1>7, <3>1 DEF Walk, FrameInv
    <3> QED BY <1>1, <1>7, <2>1, <2>3, <2>4, <3>2 DEF Walk, FrameInv
  <2>6. \A d \in V: (\A i \in 1..Len(stack): stack[i].dir # d) =>
          Captured(d)' \in past'[d] /\ Children(d) \cap Dir \subseteq V
    BY <1>1, <1>7, <2>2 DEF Walk
  <2> QED BY <1>1, <1>7, <2>5, <2>6 DEF Walk
<1>8. Walked'
  <2>1. pc \in Walking => \E V \in SUBSET Dir: Walk(V)'
    BY <1>0, <1>7 DEF WalkInv, Walked, Stations
  <2>2. \A d \in Dir: Captured(d)' = Captured(d)
    BY <1>1 DEF Captured
  <2> QED BY <1>1, <2>1, <2>2 DEF WalkInv, Walked
<1> QED BY <1>2, <1>3, <1>5, <1>6, <1>8 DEF WalkInv

-----------------------------------------------------------------------------
(* Steps of the walk. *)

\* A step that leaves the tree alone leaves the directories as they are.
LEMMA StillCurrent ==
  ASSUME WalkInv, UNCHANGED tree
  PROVE  Current'
BY DEF WalkInv, Current, Listing, Present, tree

\* The helper is running and in the walk.
LEMMA WalkingHere ==
  ASSUME WalkInv, pc \in Walking
  PROVE  /\ stack \in Seq(FrameType) /\ stack # <<>> /\ Top \in FrameType
         /\ Len(stack) \in Nat \ {0} /\ Len(stack) \in 1..Len(stack)
         /\ Top = stack[Len(stack)]
         /\ \A i \in 1..Len(stack): stack[i] \in FrameType
         /\ \E V \in SUBSET Dir: Walk(V)
BY TopProperties DEF WalkInv, Shapes, Stations, Walked, Top

\* Steps that neither change the frames nor the rows.
LEMMA WalkSame ==
  ASSUME NEW V \in SUBSET Dir, Walk(V),
         UNCHANGED <<tree, stack, rows>>,
         pc' \in Reading <=> pc \in Reading,
         pc \in Reading => held'.file = held.file,
         pc' \in {"inventory", "stat"} \/ pc \notin {"inventory", "stat"},
         pc' \in {"inventory", "stat"} /\ Top.turn = "after" => Top.todo = {}
  PROVE  Walk(V)'
<1>1. UNCHANGED <<name, node, touched, edits, past, stack, rows>> /\ UNCHANGED Top
  BY DEF tree, Top
<1>2. \A fr: Untouched(fr, V)' <=> Untouched(fr, V)
  BY <1>1 DEF Untouched
<1>3. \A fr, L: Instant(fr, L)' <=> Instant(fr, L)
  BY <1>1 DEF Instant, Identity
<1>4. \A fr: Listed(fr, V)' <=> Listed(fr, V)
  BY <1>1, <1>3 DEF Listed, Recorded
<1>5. FrameInv(V)'
  BY <1>1, <1>2, <1>4 DEF Walk, FrameInv
<1>6. \A d: Captured(d)' = Captured(d)
  BY <1>1 DEF Captured
<1> QED BY <1>1, <1>5, <1>6 DEF Walk

\* capture_patch_inputs opens the root.
LEMMA InputsKeeps ==
  ASSUME WalkInv, Inputs
  PROVE  WalkInv'
<1>1. CASE \E c \in Codes \ {"CANCELLED"}: Refuse(c)
  BY <1>1, RefuseKeeps
<1>2. CASE /\ stack' = <<Frame(Root)>> /\ pc' = "inventory"
           /\ UNCHANGED <<inv, held, rows>> /\ Keep
  <2>0. /\ pc = "inputs" /\ child = "running" /\ rows = Nothing
        /\ UNCHANGED <<tree, child, code, inv, held, rows>>
    BY <1>2 DEF Inputs, At, Keep, output, WalkInv, Stations
  <2>1. Frame(Root) \in FrameType
    BY TreeAssumption, NothingProperties DEF Frame, FrameType, DirIdentity, Id, WalkInv, Shapes
  <2>2. /\ stack' \in Seq(FrameType) /\ stack' # <<>> /\ Len(stack') = 1
        /\ stack'[1] = Frame(Root) /\ Top' = Frame(Root)
    BY <1>2, <2>1 DEF Top
  <2>3. Shapes'
    BY <1>2, <2>0, <2>2 DEF WalkInv, Shapes, tree, Walking
  <2>4. Stations'
    BY <1>2, <2>0, <2>2 DEF WalkInv, Stations, Walking
  <2>5. Inventoried' /\ Held'
    BY <1>2 DEF Inventoried, Held, Reading
  <2>6. Walk({Root})'
    <3>1. PICK fr: fr = Frame(Root)
      OBVIOUS
    <3>2. /\ fr.dir = Root /\ fr.todo = {} /\ fr.turn = "before"
          /\ fr.id.ino = Root /\ fr.id.stamp = touched[Root]
      BY <3>1 DEF Frame, DirIdentity
    <3>3. stack' = <<fr>> /\ Len(stack') = 1 /\ stack'[1] = fr /\ Top' = fr
      BY <1>2, <2>2, <3>1
    <3>4. DOMAIN rows' = {}
      BY <2>0, NothingProperties
    <3>5. Untouched(fr, {Root})'
      BY <3>2, <3>4, TreeAssumption DEF Untouched, Children, Names
    <3>6. fr.id.stamp <= edits'
      BY <2>0, <3>2, TreeAssumption DEF WalkInv, Current, tree
    <3>7. FrameInv({Root})'
      BY <1>2, <3>2, <3>3, <3>5, <3>6 DEF FrameInv
    <3> QED BY <3>2, <3>3, <3>4, <3>7, TreeAssumption DEF Walk
  <2>7. Walked'
    BY <1>2, <2>0, <2>6, TreeAssumption DEF Walked, Responding, Writing
  <2> QED BY <2>0, <2>3, <2>4, <2>5, <2>7, StillCurrent DEF WalkInv
<1> QED BY <1>1, <1>2 DEF Inputs, Goto

\* inventory() reads the names of a directory that is as pinned.
LEMMA InventoryKeeps ==
  ASSUME WalkInv, Inventory
  PROVE  WalkInv'
<1>0. pc = "inventory" /\ child = "running" /\ pc \in Walking
  BY DEF Inventory, At, Walking
<1>1. CASE Refuse("RACE")
  BY <1>1, RefuseKeeps DEF Codes
<1>2. CASE /\ inv' = [left |-> Present(Top.dir), got |-> Nothing]
           /\ pc' = "stat" /\ UNCHANGED <<stack, held, rows>> /\ Keep
  <2>0. UNCHANGED <<tree, name, node, touched, edits, past, child, code, stack, held, rows>> /\ UNCHANGED Top
    BY <1>2 DEF Keep, output, tree, Top
  <2>1. Top \in FrameType /\ stack # <<>> /\ Top.dir \in Dir
    BY <1>0, WalkingHere DEF FrameType
  <2>2. Shapes'
    <3>1. inv' \in [left: SUBSET Names, got: Identities]
      BY <1>2, NothingProperties DEF Present
    <3> QED BY <1>2, <2>0, <3>1 DEF WalkInv, Shapes, Walking
  <2>3. Stations'
    BY <1>0, <1>2, <2>0 DEF WalkInv, Stations, Walking
  <2>4. Inventoried' /\ Held'
    <3>1. inv'.got = Nothing /\ inv'.left = Present(Top.dir) /\ Present(Top.dir)' = Present(Top.dir)
      BY <1>2, <2>0 DEF Present
    <3> QED BY <1>2, <2>0, <3>1, NothingProperties DEF Inventoried, Held, Reading, Recorded
  <2>5. ASSUME NEW V \in SUBSET Dir, Walk(V) PROVE Walk(V)'
    <3>1. Top.turn = "after" => Top.todo = {}
      BY <1>0, <2>5 DEF Walk
    <3> QED BY <1>0, <1>2, <2>0, <2>5, <3>1, WalkSame DEF Reading
  <2>6. Walked'
    BY <1>0, <1>2, <2>0, <2>5, WalkingHere DEF Walked, Walking, Responding, Writing, WalkInv, Stations
  <2> QED BY <2>0, <2>2, <2>3, <2>4, <2>6, StillCurrent DEF WalkInv
<1> QED BY <1>1, <1>2 DEF Inventory, Goto

\* An entry is identified through its name.
LEMMA StatKeeps ==
  ASSUME WalkInv, NEW n \in Names, Stat(n)
  PROVE  WalkInv'
<1>0. pc = "stat" /\ child = "running" /\ pc \in Walking /\ n \in inv.left
  BY DEF Stat, At, Walking
<1>1. CASE Refuse("IO")
  BY <1>1, RefuseKeeps DEF Codes
<1>2. CASE /\ n \in File => name[n] # NoIno
           /\ inv' = [left |-> inv.left \ {n}, got |-> With(inv.got, n, IdentityAt(n))]
           /\ UNCHANGED <<pc, stack, held, rows>> /\ Keep
  <2>0. UNCHANGED <<tree, name, node, touched, edits, past, child, code, stack, held, rows, pc>> /\ UNCHANGED Top
    BY <1>2 DEF Keep, output, tree, Top
  <2>1. /\ Top \in FrameType /\ stack # <<>> /\ Top.dir \in Dir
        /\ inv.left \subseteq Names /\ inv.got \in Identities
    BY <1>0, WalkingHere DEF FrameType, WalkInv, Shapes
  <2>2. IdentityAt(n) \in Id /\ IdentityAt(n).stamp <= edits
        /\ (n \in File => IdentityAt(n).ino = name[n] /\ name[n] \in Ino)
    <3>1. CASE n \in Dir
      BY <3>1, NamesProperties DEF IdentityAt, DirIdentity, Id, WalkInv, Shapes, Current
    <3>2. CASE n \in File
      <4>1. n \notin Dir /\ name[n] \in Ino
        BY <1>2, <3>2, NamesProperties DEF WalkInv, Shapes
      <4> QED BY <4>1 DEF IdentityAt, Identity, Id, WalkInv, Shapes, Current
    <3> QED BY <3>1, <3>2, NamesProperties
  <2> DEFINE id == IdentityAt(n)
  <2> HIDE DEF id
  <2>3. /\ inv'.left = inv.left \ {n}
        /\ inv'.got = With(inv.got, n, id)
        /\ DOMAIN inv'.got = DOMAIN inv.got \cup {n}
        /\ inv'.got[n] = id
        /\ \A m \in DOMAIN inv.got \ {n}: inv'.got[m] = inv.got[m]
    <3>1. inv' = [left |-> inv.left \ {n}, got |-> With(inv.got, n, id)]
      BY <1>2 DEF id
    <3>2. inv'.left = inv.left \ {n} /\ inv'.got = With(inv.got, n, id)
      BY <3>1
    <3>3. /\ DOMAIN With(inv.got, n, id) = DOMAIN inv.got \cup {n}
          /\ With(inv.got, n, id)[n] = id
          /\ \A m \in DOMAIN inv.got \ {n}: With(inv.got, n, id)[m] = inv.got[m]
      BY DEF With
    <3> QED BY <3>2, <3>3
  <2>4. Shapes'
    <3>1. inv' \in [left: SUBSET Names, got: Identities]
      BY <1>2, <2>1, <2>2, WithIdentity
    <3> QED BY <2>0, <3>1 DEF WalkInv, Shapes
  <2>5. Stations'
    BY <2>0 DEF WalkInv, Stations
  <2>6. Inventoried'
    <3>1. Recorded(inv.got)
      BY <1>0 DEF WalkInv, Inventoried
    <3>2. Recorded(inv'.got)
      BY <2>2, <2>3, <3>1 DEF Recorded, id
    <3>3. ASSUME Top.turn = "before", touched[Top.dir] = Top.id.stamp
          PROVE  /\ DOMAIN inv'.got \cup inv'.left = Present(Top.dir)
                 /\ \A f \in DOMAIN inv'.got \cap File: inv'.got[f].ino = name[f]
      BY <1>0, <2>2, <2>3, <3>3 DEF WalkInv, Inventoried, id
    <3>4. Present(Top.dir)' = Present(Top.dir) /\ (Recorded(inv.got)' <=> Recorded(inv'.got))
      BY <2>0 DEF Present, Recorded
    <3> QED BY <2>0, <3>2, <3>3, <3>4 DEF Inventoried
  <2>7. Held'
    BY <1>0, <2>0 DEF Held, Reading
  <2>8. ASSUME NEW V \in SUBSET Dir, Walk(V) PROVE Walk(V)'
    <3>1. Top.turn = "after" => Top.todo = {}
      BY <1>0, <2>8 DEF Walk
    <3> QED BY <1>0, <2>0, <2>8, <3>1, WalkSame DEF Reading
  <2>9. Walked'
    BY <1>0, <2>0, <2>8, WalkingHere DEF Walked, Walking, Responding, Writing
  <2> QED BY <2>0, <2>4, <2>5, <2>6, <2>7, <2>9, StillCurrent DEF WalkInv
<1> QED BY <1>0, <1>1, <1>2 DEF Stat

\* The second inventory begins.
LEMMA AgainKeeps ==
  ASSUME WalkInv, Again
  PROVE  WalkInv'
<1>0. /\ pc = "walk" /\ child = "running" /\ Top.todo = {} /\ pc' = "inventory" /\ pc \in Walking
      /\ UNCHANGED <<tree, name, node, touched, edits, past, child, code, stack, inv, held, rows>>
      /\ UNCHANGED Top
  BY DEF Again, At, Goto, Keep, output, tree, walk, Top, Walking
<1>1. Shapes' /\ Stations'
  BY <1>0 DEF WalkInv, Shapes, Stations, Walking
<1>2. Inventoried' /\ Held'
  BY <1>0 DEF Inventoried, Held, Reading
<1>3. ASSUME NEW V \in SUBSET Dir, Walk(V) PROVE Walk(V)'
  BY <1>0, <1>3, WalkSame DEF Reading
<1>4. Walked'
  BY <1>0, <1>3, WalkingHere DEF Walked, Walking, Responding, Writing
<1> QED BY <1>0, <1>1, <1>2, <1>4, StillCurrent DEF WalkInv

\* The pinned inode is reopened for reading.
LEMMA UpgradeKeeps ==
  ASSUME WalkInv, Upgrade
  PROVE  WalkInv'
<1>0. pc = "upgrade" /\ child = "running" /\ pc \in Walking /\ pc \in Reading
  BY DEF Upgrade, At, Walking, Reading
<1>1. CASE Refuse("RACE")
  BY <1>1, RefuseKeeps DEF Codes
<1>2. CASE pc' = "read" /\ UNCHANGED walk /\ Keep
  <2>0. /\ UNCHANGED <<tree, name, node, touched, edits, past, child, code, stack, inv, held, rows>>
        /\ UNCHANGED Top
    BY <1>2 DEF Keep, output, tree, walk, Top
  <2>1. Shapes' /\ Stations'
    BY <1>0, <1>2, <2>0 DEF WalkInv, Shapes, Stations, Walking, Reading
  <2>2. Inventoried'
    BY <1>2 DEF Inventoried
  <2>3. Held'
    BY <1>0, <1>2, <2>0 DEF WalkInv, Held, Reading, Identity
  <2>4. ASSUME NEW V \in SUBSET Dir, Walk(V) PROVE Walk(V)'
    BY <1>0, <1>2, <2>0, <2>4, WalkSame DEF Reading
  <2>5. Walked'
    BY <1>0, <1>2, <2>0, <2>4, WalkingHere DEF Walked, Walking, Reading, Responding, Writing
  <2> QED BY <2>0, <2>1, <2>2, <2>3, <2>5, StillCurrent DEF WalkInv
<1> QED BY <1>1, <1>2 DEF Upgrade, Goto

\* A block is read: as long as the inode keeps its identity, it is the block
\* that is in it.
LEMMA ReadKeeps ==
  ASSUME WalkInv, Read
  PROVE  WalkInv'
<1> DEFINE block == node[held.ino].data[Len(held.buf) + 1]
<1>0. /\ pc = "read" /\ child = "running" /\ pc \in Walking /\ pc \in Reading
      /\ UNCHANGED <<tree, name, node, touched, edits, past, child, code, stack, inv, rows>>
      /\ UNCHANGED Top
  BY DEF Read, At, Keep, output, tree, Top, Walking, Reading
<1>1. /\ held \in [file: File, ino: Ino, id: Id, buf: Seq({0, 1})]
      /\ Len(held.buf) = 0 \/ Len(held.buf) = 1
  <2>1. Len(held.buf) \in 0..1
    BY <1>0 DEF WalkInv, Held
  <2> QED BY <1>0, <2>1 DEF WalkInv, Held
<1>2. block \in {0, 1}
  <2>1. node[held.ino] \in [stamp: Stamp, data: Data]
    BY <1>1 DEF WalkInv, Shapes
  <2>2. Len(held.buf) + 1 \in Block
    <3>1. CASE Len(held.buf) = 0
      BY <3>1 DEF Block
    <3>2. CASE Len(held.buf) = 1
      BY <3>2 DEF Block
    <3> QED BY <1>1, <3>1, <3>2
  <2> QED BY <2>1, <2>2 DEF Data
<1>3. Cardinality(Block) = 2
  <2>1. Block = ({} \cup {1}) \cup {2}
    BY DEF Block
  <2>2. IsFiniteSet({} \cup {1}) /\ Cardinality({} \cup {1}) = 1
    BY FS_EmptySet, FS_AddElement
  <2> QED BY <2>1, <2>2, FS_AddElement
<1>4. /\ pc' \in {"read", "recheck"}
      /\ pc' = "read" => Len(held.buf) = 0
      /\ pc' = "recheck" => Len(held.buf) = 1
  <2>1. pc' = IF Len(held.buf) + 1 = Cardinality(Block) THEN "recheck" ELSE "read"
    BY DEF Read, Goto
  <2>2. CASE Len(held.buf) = 0
    BY <1>3, <2>1, <2>2
  <2>3. CASE Len(held.buf) = 1
    BY <1>3, <2>1, <2>3
  <2> QED BY <1>1, <2>2, <2>3
<1>5. held' = [held EXCEPT !.buf = Append(held.buf, block)]
  BY DEF Read
<1> HIDE DEF block
<1>6. /\ Append(held.buf, block) \in Seq({0, 1})
      /\ Len(Append(held.buf, block)) = Len(held.buf) + 1
      /\ \A k \in 1..Len(held.buf): Append(held.buf, block)[k] = held.buf[k]
      /\ Append(held.buf, block)[Len(held.buf) + 1] = block
  BY <1>1, <1>2, AppendProperties
<1>7. /\ held' \in [file: File, ino: Ino, id: Id, buf: Seq({0, 1})]
      /\ held'.file = held.file /\ held'.ino = held.ino /\ held'.id = held.id
      /\ held'.buf = Append(held.buf, block)
  BY <1>1, <1>5, <1>6
<1>8. Shapes' /\ Stations'
  BY <1>0, <1>4 DEF WalkInv, Shapes, Stations, Walking, Reading
<1>9. Inventoried'
  BY <1>4 DEF Inventoried
<1>10. Held'
  <2>1. /\ pc' = "read" => Len(held'.buf) \in 0..1
        /\ pc' = "recheck" => Len(held'.buf) = 2
        /\ pc' # "upgrade"
    BY <1>1, <1>4, <1>6, <1>7
  <2>2. ASSUME Identity(held.ino) = held.id, NEW k \in 1..(Len(held.buf) + 1)
        PROVE  Append(held.buf, block)[k] = node[held.ino].data[k]
    <3>1. CASE k \in 1..Len(held.buf)
      BY <1>0, <1>6, <2>2, <3>1 DEF WalkInv, Held
    <3>2. CASE k = Len(held.buf) + 1
      BY <1>6, <3>2 DEF block
    <3> QED BY <1>1, <3>1, <3>2
  <2>3. Identity(held.ino)' = Identity(held'.ino)
    BY <1>0 DEF Identity
  <2>4. Identity(held.ino)' = held'.id =>
          \A k \in 1..Len(held'.buf): held'.buf[k] = node'[held'.ino].data[k]
    BY <1>0, <1>6, <1>7, <2>2, <2>3
  <2> QED BY <1>0, <1>7, <2>1, <2>4 DEF WalkInv, Held
<1>11. ASSUME NEW V \in SUBSET Dir, Walk(V) PROVE Walk(V)'
  BY <1>0, <1>4, <1>7, <1>11, WalkSame DEF Reading
<1>12. Walked'
  BY <1>0, <1>4, <1>11, WalkingHere DEF Walked, Walking, Reading, Responding, Writing
<1> QED BY <1>0, <1>8, <1>9, <1>10, <1>12, StillCurrent DEF WalkInv

\* A frame that a step leaves alone stays as it was.
LEMMA ListedStays ==
  ASSUME NEW fr, NEW V, NEW W, V \subseteq W, Listed(fr, V),
         UNCHANGED <<tree, rows>>, pc \notin Reading
  PROVE  Listed(fr, W)'
<1>1. UNCHANGED <<name, node, touched, edits, past, rows>>
  BY DEF tree
<1>2. \A L: Instant(fr, L)' <=> Instant(fr, L)
  BY <1>1 DEF Instant, Identity
<1>3. Recorded(fr.before)' <=> Recorded(fr.before)
  BY <1>1 DEF Recorded
<1> QED BY <1>1, <1>2, <1>3 DEF Listed

\* A frame is listed, or an entry is taken off its list.
LEMMA Relisted ==
  ASSUME NEW t \in FrameType, NEW b \in Identities, NEW s \in SUBSET Names
  PROVE  \E fr \in FrameType:
           /\ fr = [t EXCEPT !.before = b, !.todo = s, !.turn = "after"]
           /\ fr.dir = t.dir /\ fr.id = t.id /\ fr.before = b /\ fr.todo = s /\ fr.turn = "after"
<1> DEFINE r == [t EXCEPT !.before = b, !.todo = s, !.turn = "after"]
<1>1. /\ r.dir = t.dir /\ r.id = t.id /\ r.before = b /\ r.todo = s /\ r.turn = "after"
      /\ r \in FrameType
  BY DEF FrameType
<1> QED BY <1>1

LEMMA Shortened ==
  ASSUME NEW t \in FrameType, NEW x
  PROVE  \E fr \in FrameType:
           /\ fr = [t EXCEPT !.todo = t.todo \ {x}]
           /\ fr.dir = t.dir /\ fr.id = t.id /\ fr.before = t.before
           /\ fr.todo = t.todo \ {x} /\ fr.turn = t.turn
<1> DEFINE r == [t EXCEPT !.todo = t.todo \ {x}]
<1>1. /\ r.dir = t.dir /\ r.id = t.id /\ r.before = t.before /\ r.todo = t.todo \ {x}
      /\ r.turn = t.turn /\ r \in FrameType
  BY DEF FrameType
<1> QED BY <1>1

\* The frames after a step, one by one.
LEMMA FramesAfter ==
  ASSUME NEW V,
         \A i \in 1..Len(stack'): \A g: g = stack'[i] =>
           /\ g.dir \in V /\ g.todo \cap V = {}
           /\ g.id.ino = g.dir /\ g.id.stamp <= edits'
           /\ i < Len(stack') \/ pc' \notin {"inventory", "stat"} => g.turn = "after"
           /\ g.turn = "before" => Untouched(g, V)'
           /\ g.turn = "after" => Listed(g, V)'
  PROVE  FrameInv(V)'
BY DEF FrameInv

\* The frames below the top, seen after a step that leaves them alone.
LEMMA FramesBelow ==
  ASSUME NEW V, NEW W, V \subseteq W, FrameInv(V), UNCHANGED <<tree, rows>>, pc \notin Reading
  PROVE  \A i \in 1..Len(stack): i < Len(stack) => \A g: g = stack[i] =>
           /\ g.dir \in W /\ g.todo \cap V = {}
           /\ g.id.ino = g.dir /\ g.id.stamp <= edits'
           /\ g.turn = "after" /\ Listed(g, V) /\ Listed(g, W)'
<1> SUFFICES ASSUME NEW i \in 1..Len(stack), i < Len(stack), NEW g, g = stack[i]
             PROVE  /\ g.dir \in W /\ g.todo \cap V = {}
                    /\ g.id.ino = g.dir /\ g.id.stamp <= edits'
                    /\ g.turn = "after" /\ Listed(g, V) /\ Listed(g, W)'
  OBVIOUS
<1>1. /\ g.dir \in V /\ g.todo \cap V = {}
      /\ g.id.ino = g.dir /\ g.id.stamp <= edits
      /\ g.turn = "after" /\ Listed(g, V)
  BY DEF FrameInv
<1>2. Listed(g, W)'
  BY <1>1, ListedStays
<1> QED BY <1>1, <1>2 DEF tree

\* The first inventory ends with the directory as pinned: this is its instant.
LEMMA ListKeeps ==
  ASSUME WalkInv, pc = "stat", child = "running", inv.left = {},
         DirIdentity(Top.dir) = Top.id, Top.turn = "before",
         stack' = SetTop([Top EXCEPT !.before = inv.got, !.todo = DOMAIN inv.got, !.turn = "after"]),
         pc' = "walk", inv' = NoInv, UNCHANGED <<held, rows>>, Keep
  PROVE  WalkInv'
<1> DEFINE n == Len(stack)
<1>0. /\ UNCHANGED <<tree, name, node, touched, edits, past, child, code, held, rows>>
      /\ pc \in Walking /\ pc \notin Reading
  BY DEF Keep, output, tree, Walking, Reading
<1>1. /\ stack \in Seq(FrameType) /\ stack # <<>> /\ Top \in FrameType
      /\ n \in Nat \ {0} /\ n \in 1..n /\ Top = stack[n]
      /\ \A i \in 1..n: stack[i] \in FrameType
  BY <1>0, WalkingHere
<1>2. PICK V \in SUBSET Dir: Walk(V)
  BY <1>0, WalkingHere
<1>3. inv.got \in Identities /\ DOMAIN inv.got \subseteq Names
  BY IdentitiesProperties DEF WalkInv, Shapes
<1>4. PICK fr \in FrameType:
        /\ fr = [Top EXCEPT !.before = inv.got, !.todo = DOMAIN inv.got, !.turn = "after"]
        /\ fr.dir = Top.dir /\ fr.id = Top.id /\ fr.before = inv.got
        /\ fr.todo = DOMAIN inv.got /\ fr.turn = "after"
  <2>1. Top \in FrameType /\ inv.got \in Identities /\ DOMAIN inv.got \in SUBSET Names
    BY <1>1, <1>3
  <2>2. PICK t \in FrameType, b \in Identities, s \in SUBSET Names:
          t = Top /\ b = inv.got /\ s = DOMAIN inv.got
    BY <2>1
  <2>3. PICK r \in FrameType:
          /\ r = [t EXCEPT !.before = b, !.todo = s, !.turn = "after"]
          /\ r.dir = t.dir /\ r.id = t.id /\ r.before = b /\ r.todo = s /\ r.turn = "after"
    BY Relisted
  <2> QED BY <2>2, <2>3, Zenon
<1>5. /\ stack' \in Seq(FrameType) /\ Len(stack') = n /\ stack'[n] = fr /\ stack' # <<>>
      /\ \A i \in 1..n: i # n => stack'[i] = stack[i]
  BY <1>1, <1>4, SetTopProperties, EmptySeq
<1>6. Shapes'
  <2>1. inv' \in [left: SUBSET Names, got: Identities]
    BY NothingProperties DEF NoInv
  <2> QED BY <1>0, <1>5, <2>1 DEF WalkInv, Shapes, Walking
<1>7. Stations'
  BY <1>0, <1>5 DEF WalkInv, Stations, Walking
<1>8. Inventoried' /\ Held'
  BY DEF Inventoried, Held, Reading
<1>9. Top.dir \in Dir /\ Top.dir \in V
  BY <1>1, <1>2 DEF FrameType, Walk, FrameInv
<1>10. /\ DOMAIN inv.got = Present(Top.dir) /\ Recorded(inv.got)
       /\ \A f \in DOMAIN inv.got \cap File: inv.got[f].ino = name[f]
  <2>1. touched[Top.dir] = Top.id.stamp
    BY DEF DirIdentity
  <2> QED BY <2>1 DEF WalkInv, Inventoried
<1>11. Children(Top.dir) \cap (V \cup DOMAIN rows) = {}
  BY <1>1, <1>2 DEF Walk, FrameInv, Untouched
<1>12. Listed(fr, V)'
  <2>1. DOMAIN fr.before \subseteq Children(fr.dir) /\ Children(fr.dir) \cap Dir \subseteq DOMAIN fr.before
    BY <1>4, <1>9, <1>10, NamesProperties
  <2>2. Recorded(fr.before)'
    BY <1>0, <1>4, <1>10 DEF Recorded
  <2>3. PICK L \in past[Top.dir]: L = Listing(Top.dir)
    BY <1>9 DEF WalkInv, Current
  <2>4. /\ DOMAIN L = DOMAIN fr.before \cap File
        /\ \A f \in DOMAIN L: L[f] = node[name[f]].data
        /\ L = [f \in DOMAIN L |-> L[f]]
    BY <1>4, <1>10, <2>3 DEF Listing
  <2>5. \A f \in DOMAIN L: f \notin DOMAIN rows /\ fr.before[f].ino = name[f]
    BY <1>4, <1>10, <1>11, <2>1, <2>4
  <2>6. Instant(fr, L)'
    BY <1>0, <2>4, <2>5 DEF Instant
  <2>7. DOMAIN fr.before \cap DOMAIN rows = {} /\ Children(fr.dir) \cap DOMAIN rows = {}
    BY <1>4, <1>11, <2>1
  <2> QED BY <1>0, <1>4, <2>1, <2>2, <2>3, <2>6, <2>7 DEF Listed
<1>13. fr.todo \cap V = {}
  BY <1>4, <1>9, <1>10, <1>11, NamesProperties
<1>14. FrameInv(V)'
  <2>1. ASSUME NEW i \in 1..n, i # n, NEW g, g = stack'[i]
        PROVE  /\ g.dir \in V /\ g.todo \cap V = {}
               /\ g.id.ino = g.dir /\ g.id.stamp <= edits'
               /\ g.turn = "after" /\ Listed(g, V)'
    <3>1. i < n
      BY <1>1, <2>1
    <3>2. g = stack[i]
      BY <1>5, <2>1
    <3>3. FrameInv(V) /\ V \subseteq V /\ UNCHANGED <<tree, rows>>
      BY <1>0, <1>2 DEF Walk
    <3>4. \A k \in 1..Len(stack): k < Len(stack) => \A h: h = stack[k] =>
            /\ h.dir \in V /\ h.todo \cap V = {}
            /\ h.id.ino = h.dir /\ h.id.stamp <= edits'
            /\ h.turn = "after" /\ Listed(h, V) /\ Listed(h, V)'
      BY <1>0, <3>3, FramesBelow
    <3> QED BY <2>1, <3>1, <3>2, <3>4
  <2>2. fr.dir \in V /\ fr.id.ino = fr.dir /\ fr.id.stamp <= edits'
    BY <1>0, <1>1, <1>2, <1>4 DEF Walk, FrameInv
  <2>3. ASSUME NEW i \in 1..Len(stack'), NEW g, g = stack'[i]
        PROVE  /\ g.dir \in V /\ g.todo \cap V = {}
               /\ g.id.ino = g.dir /\ g.id.stamp <= edits'
               /\ g.turn = "after" /\ Listed(g, V)'
    <3>1. CASE i = n
      BY <1>4, <1>5, <1>12, <1>13, <2>2, <2>3, <3>1
    <3>2. CASE i # n
      BY <1>5, <2>1, <2>3, <3>2
    <3> QED BY <3>1, <3>2
  <2>4. \A i \in 1..Len(stack'): \A g: g = stack'[i] =>
          /\ g.dir \in V /\ g.todo \cap V = {}
          /\ g.id.ino = g.dir /\ g.id.stamp <= edits'
          /\ i < Len(stack') \/ pc' \notin {"inventory", "stat"} => g.turn = "after"
          /\ g.turn = "before" => Untouched(g, V)'
          /\ g.turn = "after" => Listed(g, V)'
    BY <2>3
  <2> QED BY <2>4, FramesAfter
<1>15. Walk(V)'
  <2>1. \A i \in 1..n: stack'[i].dir = stack[i].dir
    BY <1>1, <1>4, <1>5
  <2>2. \A d: Captured(d)' = Captured(d)
    BY <1>0 DEF Captured
  <2>3. \A i, j \in 1..n: stack'[i].dir = stack'[j].dir => i = j
    BY <1>2, <2>1 DEF Walk
  <2>4. \A d \in V: (\A i \in 1..n: stack'[i].dir # d) =>
          Captured(d)' \in past'[d] /\ Children(d) \cap Dir \subseteq V
    BY <1>0, <1>2, <2>1, <2>2 DEF Walk
  <2> QED BY <1>0, <1>2, <1>5, <1>14, <2>3, <2>4 DEF Walk
<1>16. Walked'
  BY <1>0, <1>15 DEF Walked, Responding, Writing
<1> QED BY <1>0, <1>6, <1>7, <1>8, <1>16, StillCurrent DEF WalkInv

\* capture_directory returns: the directory is captured.
LEMMA PopKeeps ==
  ASSUME WalkInv, pc = "stat", child = "running", Top.turn = "after",
         stack' = Pop, pc' = IF Len(stack) = 1 THEN "finish" ELSE "walk",
         inv' = NoInv, UNCHANGED <<held, rows>>, Keep
  PROVE  WalkInv'
<1> DEFINE n == Len(stack)
<1>0. /\ UNCHANGED <<tree, name, node, touched, edits, past, child, code, held, rows>>
      /\ pc \in Walking /\ pc \notin Reading
      /\ pc' \in {"finish", "walk"} /\ pc' \notin Reading
  BY DEF Keep, output, tree, Walking, Reading
<1>1. /\ stack \in Seq(FrameType) /\ stack # <<>> /\ Top \in FrameType
      /\ n \in Nat \ {0} /\ n \in 1..n /\ Top = stack[n]
      /\ \A i \in 1..n: stack[i] \in FrameType
  BY <1>0, WalkingHere
<1>2. PICK V \in SUBSET Dir: Walk(V)
  BY <1>0, WalkingHere
<1>3. /\ stack' \in Seq(FrameType) /\ Len(stack') = n - 1
      /\ \A i \in 1..(n - 1): stack'[i] = stack[i]
      /\ stack' = <<>> <=> n = 1
  BY <1>1, PopProperties
<1>4. Shapes'
  <2>1. inv' \in [left: SUBSET Names, got: Identities]
    BY NothingProperties DEF NoInv
  <2> QED BY <1>0, <1>3, <2>1 DEF WalkInv, Shapes, Walking, Responding
<1>5. Stations'
  BY <1>0, <1>3 DEF WalkInv, Stations, Walking, Reading
<1>6. Inventoried' /\ Held'
  BY <1>0 DEF Inventoried, Held
\* The directory that is left has been captured at its instant.
<1>7. Captured(Top.dir) \in past[Top.dir] /\ Children(Top.dir) \cap Dir \subseteq V
  <2>1. Listed(Top, V) /\ Top.todo = {}
    BY <1>1, <1>2 DEF Walk, FrameInv
  <2>2. PICK L \in past[Top.dir]: Instant(Top, L)
    BY <2>1 DEF Listed
  <2>3. ASSUME NEW f
        PROVE  f \in DOMAIN L <=> f \in {g \in DOMAIN rows: In[g] = Top.dir}
    <3>1. f \in DOMAIN rows /\ In[f] = Top.dir => f \in Children(Top.dir) /\ f \in File
      BY NamesProperties DEF Children, WalkInv, Shapes
    <3>2. f \in DOMAIN L <=> f \in DOMAIN Top.before /\ f \in File
      BY <2>2 DEF Instant
    <3>3. f \in DOMAIN Top.before => f \in Children(Top.dir) /\ In[f] = Top.dir
      BY <2>1 DEF Listed, Children
    <3> QED BY <1>0, <2>1, <3>1, <3>2, <3>3 DEF Listed
  <2>4. DOMAIN L = {g \in DOMAIN rows: In[g] = Top.dir}
    BY <2>3
  <2>5. \A f \in DOMAIN L: rows[f] = L[f]
    BY <2>2, <2>4 DEF Instant
  <2>6. L = [f \in DOMAIN L |-> L[f]]
    BY <2>2 DEF Instant
  <2>7. Captured(Top.dir) = [f \in DOMAIN L |-> rows[f]]
    BY <2>4 DEF Captured
  <2>8. Captured(Top.dir) = L
    BY <2>5, <2>6, <2>7
  <2> QED BY <2>1, <2>2, <2>8 DEF Listed
<1>8. \A d: Captured(d)' = Captured(d)
  BY <1>0 DEF Captured
<1>9. ASSUME NEW d \in V, \A i \in 1..(n - 1): stack[i].dir # d
      PROVE  Captured(d)' \in past'[d] /\ Children(d) \cap Dir \subseteq V
  <2>1. CASE d = Top.dir
    BY <1>0, <1>7, <1>8, <2>1
  <2>2. CASE d # Top.dir
    <3>1. \A i \in 1..n: stack[i].dir # d
      BY <1>1, <1>9, <2>2
    <3> QED BY <1>0, <1>2, <1>8, <3>1 DEF Walk
  <2> QED BY <2>1, <2>2
<1>10. CASE n = 1
  <2>1. \A d \in V: Captured(d)' \in past'[d] /\ Children(d) \cap Dir \subseteq V
    BY <1>9, <1>10
  <2>2. ASSUME NEW d \in Dir \ {Root}, In[d] \in V
        PROVE  d \in V
    BY <2>1, <2>2 DEF Children, Names
  <2>3. Root \in V
    BY <1>2 DEF Walk
  <2>4. V = Dir
    BY <2>2, <2>3, RootedAssumption
  <2>5. Walked'
    BY <1>10, <2>1, <2>4 DEF Walked, Walking, Reading
  <2> QED BY <1>0, <1>4, <1>5, <1>6, <2>5, StillCurrent DEF WalkInv
<1>11. CASE n # 1
  <2>1. ASSUME NEW i \in 1..Len(stack'), NEW g, g = stack'[i]
        PROVE  /\ g.dir \in V /\ g.todo \cap V = {}
               /\ g.id.ino = g.dir /\ g.id.stamp <= edits'
               /\ g.turn = "after" /\ Listed(g, V)'
    <3>1. i \in 1..(n - 1)
      BY <1>3, <2>1
    <3>2. i \in 1..n /\ i < n
      BY <1>1, <3>1
    <3>3. g = stack[i]
      BY <1>3, <2>1, <3>1
    <3>4. FrameInv(V) /\ V \subseteq V /\ UNCHANGED <<tree, rows>>
      BY <1>0, <1>2 DEF Walk
    <3>5. \A k \in 1..Len(stack): k < Len(stack) => \A h: h = stack[k] =>
            /\ h.dir \in V /\ h.todo \cap V = {}
            /\ h.id.ino = h.dir /\ h.id.stamp <= edits'
            /\ h.turn = "after" /\ Listed(h, V) /\ Listed(h, V)'
      BY <1>0, <3>4, FramesBelow
    <3> QED BY <3>2, <3>3, <3>5
  <2>2. \A i \in 1..Len(stack'): \A g: g = stack'[i] =>
          /\ g.dir \in V /\ g.todo \cap V = {}
          /\ g.id.ino = g.dir /\ g.id.stamp <= edits'
          /\ i < Len(stack') \/ pc' \notin {"inventory", "stat"} => g.turn = "after"
          /\ g.turn = "before" => Untouched(g, V)'
          /\ g.turn = "after" => Listed(g, V)'
    BY <2>1
  <2>3. FrameInv(V)'
    BY <2>2, FramesAfter
  <2>4. \A i, j \in 1..Len(stack'): stack'[i].dir = stack'[j].dir => i = j
    <3>1. \A i \in 1..Len(stack'): i \in 1..n /\ stack'[i] = stack[i]
      BY <1>1, <1>3
    <3> QED BY <1>2, <3>1 DEF Walk
  <2>5. \A d \in V: (\A i \in 1..Len(stack'): stack'[i].dir # d) =>
          Captured(d)' \in past'[d] /\ Children(d) \cap Dir \subseteq V
    <3>1. 1..Len(stack') = 1..(n - 1)
      BY <1>3
    <3> QED BY <1>3, <1>9, <3>1
  <2>6. Walk(V)'
    BY <1>0, <1>2, <1>11, <2>3, <2>4, <2>5 DEF Walk
  <2>7. Walked'
    BY <1>0, <1>11, <2>6 DEF Walked, Responding, Writing
  <2> QED BY <1>0, <1>4, <1>5, <1>6, <2>7, StillCurrent DEF WalkInv
<1> QED BY <1>10, <1>11

\* The end of an inventory.
LEMMA InventoryEndKeeps ==
  ASSUME WalkInv, InventoryEnd
  PROVE  WalkInv'
<1>0. pc = "stat" /\ child = "running" /\ inv.left = {} /\ pc \in Walking
  BY DEF InventoryEnd, At, Walking
<1>1. CASE Refuse("RACE")
  BY <1>1, RefuseKeeps DEF Codes
<1>2. CASE ~Refuse("RACE")
  <2>1. /\ DirIdentity(Top.dir) = Top.id
        /\ IF Top.turn = "before"
             THEN /\ stack' = SetTop([Top EXCEPT !.before = inv.got, !.todo = DOMAIN inv.got,
                                                 !.turn = "after"])
                  /\ pc' = "walk"
             ELSE stack' = Pop /\ pc' = IF Len(stack) = 1 THEN "finish" ELSE "walk"
        /\ inv' = NoInv /\ UNCHANGED <<held, rows>> /\ Keep
    BY <1>2 DEF InventoryEnd, Goto
  <2>2. Top.turn \in {"before", "after"}
    BY <1>0, WalkingHere DEF FrameType
  <2>3. CASE Top.turn = "before"
    BY <1>0, <2>1, <2>3, ListKeeps
  <2>4. CASE Top.turn = "after"
    BY <1>0, <2>1, <2>4, PopKeeps
  <2> QED BY <2>2, <2>3, <2>4
<1> QED BY <1>1, <1>2

\* A subdirectory is entered, for the first and only time.
LEMMA DescendKeeps ==
  ASSUME WalkInv, NEW d \in Dir, Descend(d)
  PROVE  WalkInv'
<1> DEFINE n == Len(stack)
<1>0. pc = "walk" /\ child = "running" /\ d \in Top.todo /\ pc \in Walking /\ pc \notin Reading
  BY DEF Descend, At, Walking, Reading
<1>1. CASE Refuse("RACE")
  BY <1>1, RefuseKeeps DEF Codes
<1>2. CASE /\ stack' = Append(SetTop([Top EXCEPT !.todo = Top.todo \ {d}]), Frame(d))
           /\ pc' = "inventory" /\ UNCHANGED <<inv, held, rows>> /\ Keep
  <2>0. UNCHANGED <<tree, name, node, touched, edits, past, child, code, inv, held, rows>>
    BY <1>2 DEF Keep, output, tree
  <2>1. /\ stack \in Seq(FrameType) /\ stack # <<>> /\ Top \in FrameType
        /\ n \in Nat \ {0} /\ n \in 1..n /\ Top = stack[n]
        /\ \A i \in 1..n: stack[i] \in FrameType
    BY <1>0, WalkingHere
  <2>2. PICK V \in SUBSET Dir: Walk(V)
    BY <1>0, WalkingHere
  <2>3. PICK fr \in FrameType:
          /\ fr = [Top EXCEPT !.todo = Top.todo \ {d}]
          /\ fr.dir = Top.dir /\ fr.id = Top.id /\ fr.before = Top.before
          /\ fr.todo = Top.todo \ {d} /\ fr.turn = Top.turn
    <3>1. PICK t \in FrameType: t = Top
      BY <2>1
    <3>2. PICK r \in FrameType: /\ r = [t EXCEPT !.todo = t.todo \ {d}]
                                /\ r.dir = t.dir /\ r.id = t.id /\ r.before = t.before
                                /\ r.todo = t.todo \ {d} /\ r.turn = t.turn
      BY Shortened
    <3> QED BY <3>1, <3>2, Zenon
  <2>4. PICK top \in FrameType:
          /\ top = Frame(d) /\ top.dir = d /\ top.todo = {} /\ top.turn = "before"
          /\ top.id.ino = d /\ top.id.stamp = touched[d]
    <3>1. Frame(d) \in FrameType
      BY NothingProperties DEF Frame, FrameType, DirIdentity, Id, WalkInv, Shapes
    <3>2. /\ Frame(d).dir = d /\ Frame(d).todo = {} /\ Frame(d).turn = "before"
          /\ Frame(d).id.ino = d /\ Frame(d).id.stamp = touched[d]
      BY DEF Frame, DirIdentity
    <3> QED BY <3>1, <3>2
  <2>5. /\ stack' \in Seq(FrameType) /\ Len(stack') = n + 1 /\ stack' # <<>>
        /\ stack'[n + 1] = top /\ stack'[n] = fr
        /\ \A i \in 1..n: i # n => stack'[i] = stack[i]
    <3>1. stack' = Append(SetTop(fr), top)
      BY <1>2, <2>3, <2>4
    <3>2. /\ SetTop(fr) \in Seq(FrameType) /\ Len(SetTop(fr)) = n /\ SetTop(fr)[n] = fr
          /\ \A i \in 1..n: i # n => SetTop(fr)[i] = stack[i]
      BY <2>1, SetTopProperties
    <3>3. /\ Append(SetTop(fr), top) \in Seq(FrameType)
          /\ Append(SetTop(fr), top) # <<>>
          /\ Len(Append(SetTop(fr), top)) = Len(SetTop(fr)) + 1
          /\ \A i \in 1..Len(SetTop(fr)): Append(SetTop(fr), top)[i] = SetTop(fr)[i]
          /\ Append(SetTop(fr), top)[Len(SetTop(fr)) + 1] = top
      BY <3>2, AppendProperties
    <3> QED BY <2>1, <3>1, <3>2, <3>3
  <2>6. Shapes' /\ Stations'
    BY <1>0, <1>2, <2>0, <2>5 DEF WalkInv, Shapes, Stations, Walking
  <2>7. Inventoried' /\ Held'
    BY <1>2 DEF Inventoried, Held, Reading
  <2> DEFINE W == V \cup {d}
  <2>8. /\ Listed(Top, V) /\ Top.turn = "after" /\ Top.dir \in V /\ Top.todo \cap V = {}
        /\ Top.id.ino = Top.dir /\ Top.id.stamp <= edits
    BY <1>0, <2>1, <2>2 DEF Walk, FrameInv
  <2>9. d \notin V /\ d \in Children(Top.dir) /\ In[d] = Top.dir /\ d # Root
    BY <1>0, <2>2, <2>8 DEF Listed, Walk, Children
  <2>10. Listed(fr, W)'
    <3>1. PICK t: t = Top
      OBVIOUS
    <3>2. Listed(t, V)
      BY <2>8, <3>1
    <3>3. Listed(t, W)'
      BY <1>0, <2>0, <3>2, ListedStays
    <3>4. \A L: Instant(t, L)' <=> Instant(fr, L)'
      BY <2>3, <3>1 DEF Instant
    <3>5. fr.dir = t.dir /\ fr.before = t.before /\ fr.todo = t.todo \ {d}
      BY <2>3, <3>1
    <3>6. pc \notin Reading /\ pc' \notin Reading
      BY <1>0, <1>2 DEF Reading
    <3>7. DOMAIN t.before \cap File \subseteq (t.todo \ {d}) \cup DOMAIN rows
      BY <3>2, <3>6, TreeAssumption DEF Listed
    <3>8. DOMAIN t.before \cap Dir \subseteq (t.todo \ {d}) \cup W
      BY <3>2 DEF Listed
    <3> QED BY <2>0, <3>3, <3>4, <3>5, <3>6, <3>7, <3>8 DEF Listed
  <2>11. Untouched(top, W)'
    <3>1. ASSUME NEW c \in Children(d), c \in W \/ c \in DOMAIN rows
          PROVE  FALSE
      <4>1. c # Root /\ In[c] = d
        BY <3>1, TreeAssumption DEF Children, Names
      <4>2. c # d
        BY <2>8, <2>9, <4>1
      <4>3. In[c] \in V
        BY <2>2, <3>1, <4>1, <4>2 DEF Walk
      <4> QED BY <2>9, <4>1, <4>3
    <3> QED BY <2>0, <2>4, <3>1 DEF Untouched
  <2>12. ASSUME NEW i \in 1..n, i # n, NEW g, g = stack'[i]
         PROVE  /\ g.dir \in W /\ g.todo \cap W = {}
                /\ g.id.ino = g.dir /\ g.id.stamp <= edits'
                /\ g.turn = "after" /\ Listed(g, W)'
    <3>1. i < n
      BY <2>1, <2>12
    <3>2. g = stack[i]
      BY <2>5, <2>12
    <3>3. FrameInv(V) /\ V \subseteq W /\ UNCHANGED <<tree, rows>>
      BY <2>0, <2>2 DEF Walk
    <3>4. \A k \in 1..Len(stack): k < Len(stack) => \A h: h = stack[k] =>
            /\ h.dir \in W /\ h.todo \cap V = {}
            /\ h.id.ino = h.dir /\ h.id.stamp <= edits'
            /\ h.turn = "after" /\ Listed(h, V) /\ Listed(h, W)'
      BY <1>0, <3>3, FramesBelow
    <3>5. /\ g.dir \in W /\ g.todo \cap V = {}
          /\ g.id.ino = g.dir /\ g.id.stamp <= edits'
          /\ g.turn = "after" /\ Listed(g, V) /\ Listed(g, W)'
      BY <3>1, <3>2, <3>4
    <3>6. d \notin g.todo
      <4>1. d \in g.todo => In[d] = g.dir
        BY <3>5 DEF Listed, Children
      <4>2. g.dir # Top.dir
        BY <2>1, <2>2, <2>12, <3>2 DEF Walk
      <4> QED BY <2>9, <4>1, <4>2
    <3> QED BY <3>5, <3>6
  <2>13. fr.todo \cap W = {}
    BY <2>3, <2>8
  <2>14. ASSUME NEW i \in 1..Len(stack'), NEW g, g = stack'[i]
         PROVE  /\ g.dir \in W /\ g.todo \cap W = {}
                /\ g.id.ino = g.dir /\ g.id.stamp <= edits'
                /\ i < Len(stack') \/ pc' \notin {"inventory", "stat"} => g.turn = "after"
                /\ g.turn = "before" => Untouched(g, W)'
                /\ g.turn = "after" => Listed(g, W)'
    <3>1. CASE i \in 1..n /\ i # n
      BY <2>12, <2>14, <3>1
    <3>2. CASE i = n
      <4>1. g = fr
        BY <2>5, <2>14, <3>2
      <4> QED BY <2>0, <2>3, <2>8, <2>10, <2>13, <4>1
    <3>3. CASE i = n + 1
      <4>1. g = top
        BY <2>5, <2>14, <3>3
      <4>2. touched[d] <= edits
        BY DEF WalkInv, Current
      <4>3. ~(i < Len(stack'))
        BY <2>1, <2>5, <3>3
      <4>4. pc' \in {"inventory", "stat"}
        BY <1>2
      <4> QED BY <2>0, <2>4, <2>11, <4>1, <4>2, <4>3, <4>4
    <3>4. i \in 1..n \/ i = n + 1
      BY <2>1, <2>5, <2>14
    <3> QED BY <3>1, <3>2, <3>3, <3>4
  <2>15. FrameInv(W)'
    <3>1. \A i \in 1..Len(stack'): \A g: g = stack'[i] =>
           /\ g.dir \in W /\ g.todo \cap W = {}
           /\ g.id.ino = g.dir /\ g.id.stamp <= edits'
           /\ i < Len(stack') \/ pc' \notin {"inventory", "stat"} => g.turn = "after"
           /\ g.turn = "before" => Untouched(g, W)'
           /\ g.turn = "after" => Listed(g, W)'
      BY <2>14
    <3> QED BY <3>1, FramesAfter
  <2>16. \A i \in 1..n: stack'[i].dir = stack[i].dir /\ stack[i].dir \in V
    BY <2>1, <2>2, <2>3, <2>5 DEF Walk, FrameInv
  <2>17. \A i, j \in 1..Len(stack'): stack'[i].dir = stack'[j].dir => i = j
    <3>1. \A i \in 1..Len(stack'): i \in 1..n \/ i = n + 1
      BY <2>1, <2>5
    <3>2. \A i, j \in 1..n: stack'[i].dir = stack'[j].dir => i = j
      BY <2>2, <2>16 DEF Walk
    <3>3. stack'[n + 1].dir = d
      BY <2>4, <2>5
    <3> QED BY <2>9, <2>16, <3>1, <3>2, <3>3
  <2>18. ASSUME NEW e \in W, \A i \in 1..Len(stack'): stack'[i].dir # e
         PROVE  Captured(e)' \in past'[e] /\ Children(e) \cap Dir \subseteq W
    <3>1. n + 1 \in 1..Len(stack') /\ \A i \in 1..n: i \in 1..Len(stack')
      BY <2>1, <2>5
    <3>2. e # d
      BY <2>4, <2>5, <2>18, <3>1
    <3>3. e \in V /\ \A i \in 1..n: stack[i].dir # e
      BY <2>16, <2>18, <3>1, <3>2
    <3>4. Captured(e)' = Captured(e)
      BY <2>0 DEF Captured
    <3> QED BY <2>0, <2>2, <3>3, <3>4 DEF Walk
  <2>19. Walk(W)'
    <3>1. /\ W \in SUBSET Dir /\ Root \in W
          /\ \A e \in W \ {Root}: In[e] \in W
          /\ \A f \in DOMAIN rows: In[f] \in W
      BY <2>2, <2>8, <2>9 DEF Walk
    <3>2. Top'.turn # "after"
      BY <2>4, <2>5 DEF Top
    <3> QED BY <2>0, <2>15, <2>17, <2>18, <3>1, <3>2 DEF Walk
  <2>20. Walked'
    <3>1. W \in SUBSET Dir
      OBVIOUS
    <3> HIDE DEF W
    <3> QED BY <1>0, <1>2, <2>0, <2>19, <3>1 DEF Walked, Responding, Writing
  <2> QED BY <2>0, <2>6, <2>7, <2>20, StillCurrent DEF WalkInv
<1> QED BY <1>1, <1>2 DEF Descend, Goto

\* A file is pinned: it is in hand.
LEMMA PinKeeps ==
  ASSUME WalkInv, NEW f \in File, Pin(f)
  PROVE  WalkInv'
<1> DEFINE n == Len(stack)
<1>0. pc = "walk" /\ child = "running" /\ f \in Top.todo /\ pc \in Walking /\ pc \notin Reading
  BY DEF Pin, At, Walking, Reading
<1>1. CASE Refuse("IO")
  BY <1>1, RefuseKeeps DEF Codes
<1>2. CASE /\ name[f] # NoIno
           /\ held' = [file |-> f, ino |-> name[f], id |-> Identity(name[f]), buf |-> <<>>]
           /\ stack' = SetTop([Top EXCEPT !.todo = Top.todo \ {f}])
           /\ pc' = "upgrade" /\ UNCHANGED <<inv, rows>> /\ Keep
  <2>0. /\ UNCHANGED <<tree, name, node, touched, edits, past, child, code, inv, rows>>
        /\ pc' \in Reading /\ pc' \in Walking
    BY <1>2 DEF Keep, output, tree, Reading, Walking
  <2>1. /\ stack \in Seq(FrameType) /\ stack # <<>> /\ Top \in FrameType
        /\ n \in Nat \ {0} /\ n \in 1..n /\ Top = stack[n]
        /\ \A i \in 1..n: stack[i] \in FrameType
    BY <1>0, WalkingHere
  <2>2. PICK V \in SUBSET Dir: Walk(V)
    BY <1>0, WalkingHere
  <2>3. PICK fr \in FrameType:
          /\ fr = [Top EXCEPT !.todo = Top.todo \ {f}]
          /\ fr.dir = Top.dir /\ fr.id = Top.id /\ fr.before = Top.before
          /\ fr.todo = Top.todo \ {f} /\ fr.turn = Top.turn
    <3>1. PICK t \in FrameType: t = Top
      BY <2>1
    <3>2. PICK r \in FrameType: /\ r = [t EXCEPT !.todo = t.todo \ {f}]
                                /\ r.dir = t.dir /\ r.id = t.id /\ r.before = t.before
                                /\ r.todo = t.todo \ {f} /\ r.turn = t.turn
      BY Shortened
    <3> QED BY <3>1, <3>2, Zenon
  <2>5. /\ stack' \in Seq(FrameType) /\ Len(stack') = n /\ stack' # <<>>
        /\ stack'[n] = fr /\ Top' = fr
        /\ \A i \in 1..n: i # n => stack'[i] = stack[i]
    <3>1. stack' = SetTop(fr)
      BY <1>2, <2>3
    <3>2. /\ SetTop(fr) \in Seq(FrameType) /\ Len(SetTop(fr)) = n /\ SetTop(fr)[n] = fr
          /\ \A i \in 1..n: i # n => SetTop(fr)[i] = stack[i]
      BY <2>1, SetTopProperties
    <3> QED BY <2>1, <3>1, <3>2, EmptySeq DEF Top
  <2>6. Shapes' /\ Stations'
    BY <1>0, <1>2, <2>0, <2>5 DEF WalkInv, Shapes, Stations, Walking
  <2>8. /\ Listed(Top, V) /\ Top.turn = "after" /\ Top.dir \in V /\ Top.todo \cap V = {}
        /\ Top.id.ino = Top.dir /\ Top.id.stamp <= edits
    BY <1>0, <2>1, <2>2 DEF Walk, FrameInv
  <2>9. f \in DOMAIN Top.before /\ f \notin DOMAIN rows
    BY <1>0, <2>8 DEF Listed
  <2>7. Inventoried' /\ Held'
    <3>1. PICK i \in Ino: i = name[f]
      BY <1>2 DEF WalkInv, Shapes
    <3>2. node[i].stamp \in Stamp /\ node[i].stamp <= edits
      BY DEF WalkInv, Shapes, Current
    <3>3. Identity(i) \in Id /\ Identity(i).ino = i /\ Identity(i).stamp = node[i].stamp
      BY <3>2 DEF Identity, Id
    <3>4. held' = [file |-> f, ino |-> i, id |-> Identity(i), buf |-> <<>>]
      BY <1>2, <3>1
    <3>5. /\ held' \in [file: File, ino: Ino, id: Id, buf: Seq({0, 1})]
          /\ held'.file = f /\ held'.ino = i /\ held'.id = Identity(i) /\ held'.buf = <<>>
      BY <3>3, <3>4, EmptySeq
    <3>6. f \in (DOMAIN fr.before \cap File) \ (fr.todo \cup DOMAIN rows)
      BY <2>3, <2>9
    <3>7. 1..Len(held'.buf) = {} /\ Len(held'.buf) = 0
      BY <3>5
    <3>8. Held'
      BY <1>2, <2>0, <2>5, <3>2, <3>3, <3>5, <3>6, <3>7 DEF Held
    <3> QED BY <1>2, <3>8 DEF Inventoried
  <2>10. Listed(fr, V)'
    <3>1. PICK t: t = Top
      OBVIOUS
    <3>2. Listed(t, V)
      BY <2>8, <3>1
    <3>4. \A L: Instant(t, L) <=> Instant(fr, L)'
      BY <2>0, <2>3, <3>1 DEF Instant, Identity
    <3>5. fr.dir = t.dir /\ fr.before = t.before /\ fr.todo = t.todo \ {f}
      BY <2>3, <3>1
    <3>6. held'.file = f
      BY <1>2
    <3>7. DOMAIN t.before \cap File \subseteq (t.todo \ {f}) \cup DOMAIN rows \cup {f}
      BY <1>0, <3>2 DEF Listed
    <3>8. DOMAIN t.before \cap Dir \subseteq (t.todo \ {f}) \cup V
      BY <3>2, TreeAssumption DEF Listed
    <3>9. Recorded(t.before)'
      BY <2>0, <3>2 DEF Listed, Recorded
    <3>10. \E L \in past'[fr.dir]: Instant(fr, L)'
      BY <2>0, <3>2, <3>4, <3>5 DEF Listed
    <3> QED BY <2>0, <3>2, <3>5, <3>6, <3>7, <3>8, <3>9, <3>10 DEF Listed
  <2>12. ASSUME NEW i \in 1..Len(stack'), NEW g, g = stack'[i]
         PROVE  /\ g.dir \in V /\ g.todo \cap V = {}
                /\ g.id.ino = g.dir /\ g.id.stamp <= edits'
                /\ g.turn = "after" /\ Listed(g, V)'
    <3>1. CASE i = n
      <4>1. g = fr
        BY <2>5, <2>12, <3>1
      <4> QED BY <2>0, <2>3, <2>8, <2>10, <4>1
    <3>2. CASE i # n
      <4>1. i < n /\ i \in 1..n
        BY <2>1, <2>5, <2>12, <3>2
      <4>2. g = stack[i]
        BY <2>5, <2>12, <3>2, <4>1
      <4>3. FrameInv(V) /\ V \subseteq V /\ UNCHANGED <<tree, rows>>
        BY <2>0, <2>2 DEF Walk
      <4>4. \A k \in 1..Len(stack): k < Len(stack) => \A h: h = stack[k] =>
              /\ h.dir \in V /\ h.todo \cap V = {}
              /\ h.id.ino = h.dir /\ h.id.stamp <= edits'
              /\ h.turn = "after" /\ Listed(h, V) /\ Listed(h, V)'
        BY <1>0, <4>3, FramesBelow
      <4> QED BY <4>1, <4>2, <4>4
    <3> QED BY <3>1, <3>2
  <2>13. FrameInv(V)'
    <3>1. \A i \in 1..Len(stack'): \A g: g = stack'[i] =>
           /\ g.dir \in V /\ g.todo \cap V = {}
           /\ g.id.ino = g.dir /\ g.id.stamp <= edits'
           /\ i < Len(stack') \/ pc' \notin {"inventory", "stat"} => g.turn = "after"
           /\ g.turn = "before" => Untouched(g, V)'
           /\ g.turn = "after" => Listed(g, V)'
      BY <2>12
    <3> QED BY <3>1, FramesAfter
  <2>14. Walk(V)'
    <3>1. \A i \in 1..n: stack'[i].dir = stack[i].dir
      BY <2>1, <2>3, <2>5
    <3>2. \A d: Captured(d)' = Captured(d)
      BY <2>0 DEF Captured
    <3>3. \A i, j \in 1..n: stack'[i].dir = stack'[j].dir => i = j
      BY <2>2, <3>1 DEF Walk
    <3>4. \A d \in V: (\A i \in 1..n: stack'[i].dir # d) =>
            Captured(d)' \in past'[d] /\ Children(d) \cap Dir \subseteq V
      BY <2>0, <2>2, <3>1, <3>2 DEF Walk
    <3>5. pc' \notin {"inventory", "stat"}
      BY <1>2
    <3> QED BY <2>0, <2>2, <2>5, <2>13, <3>3, <3>4, <3>5 DEF Walk
  <2>15. Walked'
    BY <1>0, <1>2, <2>0, <2>14 DEF Walked, Responding, Writing
  <2> QED BY <2>0, <2>6, <2>7, <2>15, StillCurrent DEF WalkInv
<1> QED BY <1>1, <1>2 DEF Pin, Goto

\* A file is read and is as it was listed: its row is of the directory's
\* instant.
LEMMA RecheckKeeps ==
  ASSUME WalkInv, Recheck
  PROVE  WalkInv'
<1> DEFINE n == Len(stack)
<1>0. pc = "recheck" /\ child = "running" /\ pc \in Walking /\ pc \in Reading
  BY DEF Recheck, At, Walking, Reading
<1>1. CASE Refuse("RACE")
  BY <1>1, RefuseKeeps DEF Codes
<1>2. CASE /\ Identity(held.ino) = held.id /\ held.id = Top.before[held.file]
           /\ rows' = With(rows, held.file, held.buf)
           /\ pc' = "walk" /\ UNCHANGED <<stack, inv>> /\ Keep
  <2>0. /\ UNCHANGED <<tree, name, node, touched, edits, past, child, code, inv, stack>>
        /\ UNCHANGED Top
        /\ pc' \notin Reading /\ pc' \in Walking /\ pc' \notin {"inventory", "stat"}
        /\ pc \notin {"inventory", "stat"}
    BY <1>0, <1>2 DEF Keep, output, tree, Reading, Walking, Top
  <2>1. /\ stack \in Seq(FrameType) /\ stack # <<>> /\ Top \in FrameType
        /\ n \in Nat \ {0} /\ n \in 1..n /\ Top = stack[n]
        /\ \A i \in 1..n: stack[i] \in FrameType
    BY <1>0, WalkingHere
  <2>2. PICK V \in SUBSET Dir: Walk(V)
    BY <1>0, WalkingHere
  <2>3. PICK f \in File, i \in Ino, b \in Seq({0, 1}):
          f = held.file /\ i = held.ino /\ b = held.buf
    BY <1>0 DEF WalkInv, Held
  <2>4. /\ f \in DOMAIN Top.before /\ f \notin Top.todo /\ f \notin DOMAIN rows
        /\ Top.before[f].ino = i /\ Identity(i) = Top.before[f]
        /\ Len(b) = 2 /\ \A k \in 1..2: b[k] = node[i].data[k]
    BY <1>0, <1>2, <2>3 DEF WalkInv, Held
  <2>5. b = node[i].data /\ b \in Data
    <3>1. node[i].data \in [1..2 -> {0, 1}]
      BY DEF WalkInv, Shapes, Data, Block
    <3>2. b \in [1..Len(b) -> {0, 1}]
      BY LenProperties
    <3> QED BY <2>4, <3>1, <3>2 DEF Data, Block
  <2>6. /\ DOMAIN rows' = DOMAIN rows \cup {f} /\ rows'[f] = b
        /\ \A g \in DOMAIN rows: rows'[g] = rows[g]
        /\ rows' = [g \in DOMAIN rows' |-> rows'[g]]
    <3>1. PICK r: r = rows
      OBVIOUS
    <3>2. /\ DOMAIN With(r, f, b) = DOMAIN r \cup {f}
          /\ With(r, f, b)[f] = b
          /\ \A m \in DOMAIN r \ {f}: With(r, f, b)[m] = r[m]
          /\ With(r, f, b) = [m \in DOMAIN With(r, f, b) |-> With(r, f, b)[m]]
      BY DEF With
    <3>3. PICK q: q = With(r, f, b) /\ q = rows'
      BY <1>2, <2>3, <3>1
    <3>4. /\ DOMAIN q = DOMAIN r \cup {f} /\ q[f] = b
          /\ \A m \in DOMAIN r \ {f}: q[m] = r[m]
          /\ q = [m \in DOMAIN q |-> q[m]]
      BY <3>2, <3>3, Zenon
    <3> QED BY <2>4, <3>1, <3>3, <3>4
  <2>7. Shapes'
    <3>1. DOMAIN rows' \subseteq File /\ rows' \in [DOMAIN rows' -> Data]
      BY <2>5, <2>6 DEF WalkInv, Shapes
    <3>2. IsFiniteSet(DOMAIN rows')
      BY <2>6, FS_AddElement DEF WalkInv, Shapes
    <3> QED BY <2>0, <3>1, <3>2 DEF WalkInv, Shapes
  <2>8. Stations' /\ Inventoried' /\ Held'
    <3>1. pc' # "inputs" /\ pc' # "gone" /\ pc # "gone"
      BY <1>0, <1>2
    <3> QED BY <1>0, <2>0, <3>1 DEF WalkInv, Stations, Inventoried, Held
  <2>9. /\ Listed(Top, V) /\ Top.turn = "after"
        /\ In[f] = Top.dir
    BY <2>0, <2>1, <2>2, <2>4 DEF Walk, FrameInv, Listed, Children
  <2>10. \A g: Identity(g)' = Identity(g)
    BY <2>0 DEF Identity
  <2>11. ASSUME NEW g, Listed(g, V), g.dir # Top.dir
         PROVE  Listed(g, V)'
    <3>1. f \notin Children(g.dir)
      BY <2>9, <2>11 DEF Children
    <3>2. PICK L \in past[g.dir]: Instant(g, L)
      BY <2>11 DEF Listed
    <3>3. f \notin DOMAIN L
      BY <2>11, <3>1, <3>2 DEF Listed, Instant
    <3>4. Instant(g, L)'
      BY <2>0, <2>6, <2>10, <3>2, <3>3 DEF Instant
    <3>5. Recorded(g.before)'
      BY <2>0, <2>11 DEF Listed, Recorded
    <3>6. DOMAIN g.before \cap File \subseteq g.todo \cup DOMAIN rows'
      BY <1>0, <2>3, <2>6, <2>11 DEF Listed
    <3>7. /\ Children(g.dir) \cap DOMAIN rows' \subseteq DOMAIN g.before
          /\ g.todo \cap DOMAIN rows' = {}
      BY <2>6, <2>11, <3>1 DEF Listed
    <3> QED BY <2>0, <2>11, <3>2, <3>4, <3>5, <3>6, <3>7 DEF Listed
  <2>12. Listed(Top, V)'
    <3>1. PICK g: g = Top
      OBVIOUS
    <3>2. Listed(g, V) /\ g.dir = Top.dir /\ f \notin g.todo /\ f \in DOMAIN g.before
      BY <2>4, <2>9, <3>1
    <3>3. PICK L \in past[g.dir]: Instant(g, L)
      BY <3>2 DEF Listed
    <3>4. L[f] = b
      BY <2>4, <2>5, <3>1, <3>3 DEF Instant
    <3>5. Instant(g, L)'
      BY <2>0, <2>6, <2>10, <3>3, <3>4 DEF Instant
    <3>6. Recorded(g.before)'
      BY <2>0, <3>2 DEF Listed, Recorded
    <3>7. DOMAIN g.before \cap File \subseteq g.todo \cup DOMAIN rows'
      BY <1>0, <2>3, <2>6, <3>2 DEF Listed
    <3>8. /\ Children(g.dir) \cap DOMAIN rows' \subseteq DOMAIN g.before
          /\ g.todo \cap DOMAIN rows' = {}
      BY <2>6, <3>2 DEF Listed
    <3>9. Listed(g, V)'
      BY <2>0, <3>2, <3>3, <3>5, <3>6, <3>7, <3>8 DEF Listed
    <3> QED BY <2>0, <3>1, <3>9 DEF Listed, Instant, Recorded
  <2>13. ASSUME NEW k \in 1..Len(stack'), NEW g, g = stack'[k]
         PROVE  /\ g.dir \in V /\ g.todo \cap V = {}
                /\ g.id.ino = g.dir /\ g.id.stamp <= edits'
                /\ g.turn = "after" /\ Listed(g, V)'
    <3>1. g = stack[k] /\ k \in 1..n
      BY <2>0, <2>13
    <3>2. /\ g.dir \in V /\ g.todo \cap V = {}
          /\ g.id.ino = g.dir /\ g.id.stamp <= edits
          /\ g.turn = "after" /\ Listed(g, V)
      BY <2>0, <2>2, <3>1 DEF Walk, FrameInv
    <3>3. CASE k = n
      <4>1. g = Top /\ g = Top'
        BY <2>0, <2>1, <3>1, <3>3
      <4>2. Listed(g, V)'
        BY <2>0, <2>12, <4>1 DEF Listed, Instant, Recorded
      <4> QED BY <2>0, <3>2, <4>2
    <3>4. CASE k # n
      <4>1. g.dir # Top.dir
        BY <2>1, <2>2, <3>1, <3>4 DEF Walk
      <4>2. Listed(g, V)'
        BY <2>11, <3>2, <4>1
      <4> QED BY <2>0, <3>2, <4>2
    <3> QED BY <3>3, <3>4
  <2>14. FrameInv(V)'
    <3>1. \A k \in 1..Len(stack'): \A g: g = stack'[k] =>
           /\ g.dir \in V /\ g.todo \cap V = {}
           /\ g.id.ino = g.dir /\ g.id.stamp <= edits'
           /\ k < Len(stack') \/ pc' \notin {"inventory", "stat"} => g.turn = "after"
           /\ g.turn = "before" => Untouched(g, V)'
           /\ g.turn = "after" => Listed(g, V)'
      BY <2>13
    <3> QED BY <3>1, FramesAfter
  <2>15. ASSUME NEW d \in V, \A k \in 1..Len(stack'): stack'[k].dir # d
         PROVE  Captured(d)' \in past'[d] /\ Children(d) \cap Dir \subseteq V
    <3>1. \A k \in 1..n: stack[k].dir # d
      BY <2>0, <2>15
    <3>2. In[f] # d
      BY <2>1, <2>9, <3>1
    <3>3. {g \in DOMAIN rows': In[g] = d} = {g \in DOMAIN rows: In[g] = d}
      BY <2>6, <3>2
    <3>4. Captured(d)' = Captured(d)
      BY <2>6, <3>3 DEF Captured
    <3> QED BY <2>0, <2>2, <3>1, <3>4 DEF Walk
  <2>16. Walk(V)'
    <3>1. \A g \in DOMAIN rows': In[g] \in V
      BY <2>1, <2>2, <2>6, <2>9 DEF Walk, FrameInv
    <3>2. \A k, j \in 1..Len(stack'): stack'[k].dir = stack'[j].dir => k = j
      BY <2>0, <2>2 DEF Walk
    <3> QED BY <2>0, <2>2, <2>14, <2>15, <3>1, <3>2 DEF Walk
  <2>17. Walked'
    BY <1>0, <1>2, <2>0, <2>16 DEF Walked, Responding, Writing
  <2> QED BY <2>0, <2>7, <2>8, <2>17, StillCurrent DEF WalkInv
<1> QED BY <1>1, <1>2 DEF Recheck, Goto

\* Every step keeps what is said of the walk.
LEMMA WalkInitially == Init => WalkInv
<1> SUFFICES ASSUME Init PROVE WalkInv
  OBVIOUS
<1> USE DEF Walking, Reading, Responding, Writing
<1>1. 0 \in Stamp /\ edits = 0
  BY BoundAssumption DEF Stamp, Init
<1>2. PICK here \in SUBSET File: name = [f \in File |-> IF f \in here THEN f ELSE NoIno]
  BY DEF Init
<1>3. name \in [File -> Ino \cup {NoIno}]
  BY <1>2 DEF Ino
<1>4. [b \in Block |-> 0] \in Data
  BY DEF Data
<1>5. node \in [Ino -> [stamp: Stamp, data: Data]] /\ \A i \in Ino: node[i].stamp = 0
  BY <1>1, <1>4 DEF Init
<1>6. inv \in [left: SUBSET Names, got: Identities]
  BY NothingProperties DEF Init, NoInv
<1>7. DOMAIN rows \subseteq File /\ rows \in [DOMAIN rows -> Data] /\ IsFiniteSet(DOMAIN rows)
  BY NothingProperties, FS_EmptySet DEF Init
<1>8. Shapes
  BY <1>1, <1>3, <1>5, <1>6, <1>7, EmptySeq DEF Shapes, Init
<1>9. Stations
  BY DEF Stations, Init
<1>10. Current
  BY <1>1, <1>5 DEF Current, Init
<1>11. Inventoried /\ Held /\ Walked
  BY DEF Inventoried, Held, Walked, Init
<1> QED BY <1>8, <1>9, <1>10, <1>11 DEF WalkInv

\* The step that begins the response, or refuses.
LEMMA FinishKeeps ==
  ASSUME WalkInv, Finish
  PROVE  WalkInv'
<1>0. pc \in Responding /\ child = "running"
  BY DEF Finish, At, Responding
<1>1. ASSUME NEW c \in Codes, Refuse(c) PROVE WalkInv'
  BY <1>1, RefuseKeeps
<1>2. CASE pc' = "header" /\ UNCHANGED <<tree, walk, sent, wire, child, code, pipe, client>>
  <2>1. pc' \in Responding /\ child' = "running"
    BY <1>0, <1>2 DEF Responding, Writing
  <2> QED BY <1>0, <1>2, <2>1, RespondKeeps
<1> QED BY <1>1, <1>2 DEF Finish, Codes, Goto

LEMMA EmitKeeps ==
  ASSUME WalkInv, Emit
  PROVE  WalkInv'
<1>0. pc \in Responding /\ child = "running"
  BY DEF Emit, At, Responding, Writing
<1>1. PICK r, l, rest: l \in Writing \cup {"exit"} /\ Send(r, l, rest)
  <2>1. \A r, l, rest: l \in {"rows", "carrier", "end", "exit"} /\ Send(r, l, rest) =>
          \E q, m, left: m \in Writing \cup {"exit"} /\ Send(q, m, left)
    BY DEF Writing
  <2> QED BY <2>1, Zenon DEF Emit
<1>2. CASE Fits(r)
  <2>1. pc' \in Responding /\ child' = "running" /\ UNCHANGED <<tree, walk, code>>
    BY <1>0, <1>1, <1>2 DEF Send, Goto, Responding
  <2> QED BY <1>0, <2>1, RespondKeeps
<1>3. CASE ~Fits(r)
  <2>1. Gone /\ child' = "refused" /\ code' = "LIMIT" /\ UNCHANGED tree
    BY <1>1, <1>3 DEF Send, Interrupted
  <2> QED BY <2>1, GoneKeeps DEF Codes
<1> QED BY <1>2, <1>3

LEMMA WalkNext ==
  ASSUME WalkInv, [Next]_vars
  PROVE  WalkInv'
<1>1. ASSUME NEW f \in File, Place(f) \/ Remove(f) \/ \E b \in Block: Write(f, b)
      PROVE  WalkInv'
  <2>1. Shapes
    BY DEF WalkInv
  <2>2. EditStep
    BY <1>1, <2>1, EditView
  <2> QED BY <2>2, EditKeeps
<1>2. CASE Helper
  <2>1. CASE Inputs
    BY <2>1, InputsKeeps
  <2>2. CASE Inventory
    BY <2>2, InventoryKeeps
  <2>3. ASSUME NEW n \in Names, Stat(n) PROVE WalkInv'
    BY <2>3, StatKeeps
  <2>4. CASE InventoryEnd
    BY <2>4, InventoryEndKeeps
  <2>5. CASE Unfit
    BY <2>5, RefuseKeeps DEF Unfit, Codes
  <2>6. ASSUME NEW d \in Dir, Descend(d) PROVE WalkInv'
    BY <2>6, DescendKeeps
  <2>7. ASSUME NEW f \in File, Pin(f) PROVE WalkInv'
    BY <2>7, PinKeeps
  <2>8. CASE Upgrade
    BY <2>8, UpgradeKeeps
  <2>9. CASE Read
    BY <2>9, ReadKeeps
  <2>10. CASE Recheck
    BY <2>10, RecheckKeeps
  <2>11. CASE Again
    BY <2>11, AgainKeeps
  <2>12. CASE Finish
    BY <2>12, FinishKeeps
  <2>13. CASE Emit
    BY <2>13, EmitKeeps
  <2>14. CASE WriteFails
    BY <2>14, GoneKeeps DEF WriteFails, Interrupted, Codes
  <2>15. CASE Exit
    <3>1. pc \in Responding /\ child = "running" /\ pc' = "gone" /\ child' = "ok"
      BY <2>15 DEF Exit, At, Goto, Responding
    <3> QED BY <2>15, <3>1, RespondKeeps DEF Exit
  <2> QED BY <1>2, <2>1, <2>2, <2>3, <2>4, <2>5, <2>6, <2>7, <2>8, <2>9, <2>10, <2>11, <2>12,
             <2>13, <2>14, <2>15 DEF Helper
<1>3. CASE Die
  <2>1. code = "none"
    BY <1>3 DEF Die, WalkInv, Stations
  <2>2. Gone /\ child' = "killed" /\ code' = "none" /\ UNCHANGED tree
    BY <1>3, <2>1 DEF Die
  <2> QED BY <2>2, GoneKeeps
<1>4. CASE Receive \/ Close \/ \E c \in {"CANCELLED", "IO"}: Terminate(c)
  <2>1. UNCHANGED <<tree, pc, walk, child, code>>
    BY <1>4 DEF Receive, Close, Terminate, output
  <2> QED BY <2>1, ClientKeeps
<1>5. CASE UNCHANGED vars
  <2>1. UNCHANGED <<tree, pc, walk, child, code>>
    BY <1>5 DEF vars, output
  <2> QED BY <2>1, ClientKeeps
<1> QED BY <1>1, <1>2, <1>3, <1>4, <1>5 DEF Next

-----------------------------------------------------------------------------
(* The response and the SDK. *)

\* A step of the tree's other users or of the walk: no output, no client.
LEMMA QuietKeeps ==
  ASSUME Inv, WalkInv', UNCHANGED <<output, client>>,
         \/ UNCHANGED <<pc, rows>>
         \/ pc \notin Writing \cup {"exit", "gone"} /\ pc' \notin Writing \cup {"exit", "gone"}
  PROVE  Inv'
<1>1. UNCHANGED <<sent, wire, unsent, child, code, pipe, sdk, settled>>
  BY DEF output, client
<1>2. CASE UNCHANGED <<pc, rows>>
  BY <1>1, <1>2 DEF Inv, Counted, Silent, Shared, Delivered, Settled, Written
<1>3. CASE pc \notin Writing \cup {"exit", "gone"} /\ pc' \notin Writing \cup {"exit", "gone"}
  <2>1. child = "running" /\ settled = "none"
    BY <1>3 DEF Inv, WalkInv, Stations, Settled
  <2>2. Counted'
    BY <1>1, <1>3, <2>1 DEF Inv, Counted, Silent, Writing
  <2>3. Written = {} /\ Written' = {} /\ Underway(pipe) = {}
    BY <1>3 DEF Written, Underway, Inv, Counted, Silent
  <2>4. Delivered'
    BY <1>1, <2>1, <2>3 DEF Inv, Delivered
  <2>5. Shared' /\ Settled'
    BY <1>1, <2>1 DEF Inv, Shared, Settled
  <2> QED BY <2>2, <2>4, <2>5 DEF Inv
<1> QED BY <1>2, <1>3

\* The frames are messages.
LEMMA MessageProperties ==
  ASSUME NEW k \in Kinds
  PROVE  Message(k) \in MessageType /\ Message(k).kind = k
BY DEF Message, MessageType

\* A message is written.
LEMMA UnderwayAppend ==
  ASSUME NEW p \in Seq(MessageType), NEW m \in MessageType
  PROVE  /\ Append(p, m) \in Seq(MessageType)
         /\ m.kind # "row" => Underway(Append(p, m)) = Underway(p)
         /\ m.kind = "row" => Underway(Append(p, m)) = Underway(p) \cup {m}
<1>1. /\ Append(p, m) \in Seq(MessageType)
      /\ Len(Append(p, m)) = Len(p) + 1 /\ Len(p) \in Nat
      /\ \A i \in 1..Len(p): Append(p, m)[i] = p[i]
      /\ Append(p, m)[Len(p) + 1] = m
  BY AppendProperties
<1>2. \A k: k \in 1..(Len(p) + 1) <=> k \in 1..Len(p) \/ k = Len(p) + 1
  BY <1>1
<1>3. {Append(p, m)[k]: k \in 1..Len(Append(p, m))} = {p[k]: k \in 1..Len(p)} \cup {m}
  BY <1>1, <1>2, Zenon
<1> QED BY <1>1, <1>3 DEF Underway

\* A message is received.
LEMMA UnderwayTail ==
  ASSUME NEW p \in Seq(MessageType), p # <<>>
  PROVE  /\ Tail(p) \in Seq(MessageType) /\ Head(p) \in MessageType
         /\ Head(p).kind # "row" => Underway(p) = Underway(Tail(p))
         /\ Head(p).kind = "row" => Underway(p) = Underway(Tail(p)) \cup {Head(p)}
<1>1. /\ Tail(p) \in Seq(MessageType) /\ Head(p) \in MessageType
      /\ Len(p) \in Nat \ {0} /\ Len(Tail(p)) = Len(p) - 1 /\ p[1] = Head(p)
      /\ \A i \in 1..(Len(p) - 1): Tail(p)[i] = p[i + 1]
  BY HeadTailProperties
<1>2. ASSUME NEW n \in Nat \ {0}, NEW k \in 1..n
      PROVE  k = 1 \/ (k - 1 \in 1..(n - 1) /\ (k - 1) + 1 = k)
  OBVIOUS
<1>3. ASSUME NEW n \in Nat \ {0}
      PROVE  1 \in 1..n /\ \A k \in 1..(n - 1): k + 1 \in 1..n
  OBVIOUS
<1>4. \A k \in 1..Len(p): k = 1 \/ \E i \in 1..Len(Tail(p)): p[k] = Tail(p)[i]
  BY <1>1, <1>2
<1>5. 1 \in 1..Len(p) /\ \A i \in 1..Len(Tail(p)): \E k \in 1..Len(p): Tail(p)[i] = p[k]
  BY <1>1, <1>3
<1>6. {p[k]: k \in 1..Len(p)} = {Tail(p)[k]: k \in 1..Len(Tail(p))} \cup {Head(p)}
  <2>1. ASSUME NEW x, x \in {p[k]: k \in 1..Len(p)}
        PROVE  x \in {Tail(p)[k]: k \in 1..Len(Tail(p))} \cup {Head(p)}
    BY <1>1, <1>4, <2>1
  <2>2. ASSUME NEW x, x \in {Tail(p)[k]: k \in 1..Len(Tail(p))} \cup {Head(p)}
        PROVE  x \in {p[k]: k \in 1..Len(p)}
    BY <1>1, <1>5, <2>2
  <2> QED BY <2>1, <2>2
<1> QED BY <1>1, <1>6 DEF Underway

\* The helper ends without success: the SDK may have part of the rows.
LEMMA EndKeeps ==
  ASSUME Inv, WalkInv', child = "running", Gone, child' \in {"refused", "killed"},
         child' = "refused" /\ code' # "IO" => Silent /\ pipe' = pipe,
         pipe' \in Cut, UNCHANGED <<sent, wire, client>>
  PROVE  Inv'
<1>1. pc' = "gone" /\ unsent' = {} /\ UNCHANGED <<sdk, settled>>
  BY DEF Gone, Goto, client
<1>2. settled = "none"
  BY DEF Inv, Settled
<1>3. pipe' \in Seq(MessageType)
  <2>1. pipe \in Seq(MessageType) /\ Message("torn") \in MessageType
    BY MessageProperties DEF Inv, Shared, Kinds
  <2>2. Append(pipe, Message("torn")) \in Seq(MessageType)
    BY <2>1, AppendProperties
  <2> QED BY <2>1, <2>2 DEF Cut
<1>4. Counted'
  BY <1>1 DEF Inv, Counted, Silent, Writing
<1>5. Shared'
  BY <1>1, <1>3 DEF Inv, Shared
<1>6. Delivered' /\ Settled'
  BY <1>1, <1>2 DEF Delivered, Settled
<1> QED BY <1>4, <1>5, <1>6 DEF Inv

\* A refusal ahead of the response.
LEMMA RefusalKeeps ==
  ASSUME Inv, WalkInv', NEW c, Refuse(c), child = "running",
         pc \notin Writing \cup {"exit", "gone"}
  PROVE  Inv'
<1>1. Silent
  BY DEF Inv, Counted
<1>2. Gone /\ child' = "refused" /\ UNCHANGED <<sent, wire, client>> /\ pipe' = pipe
  BY DEF Refuse
<1> QED BY <1>1, <1>2, EndKeeps DEF Cut

\* What is still to be written is a number of frames and of bytes.
LEMMA DueProperties ==
  ASSUME NEW l, NEW S \in SUBSET File, IsFiniteSet(S)
  PROVE  DueFrames(l, S) \in Nat /\ DueBytes(l, S) \in Nat
<1>1. PICK a, b, c, d, e, g \in Nat:
        /\ a = SumFunctionOnSet(RowFrames, S) /\ b = SumFunctionOnSet(RowBytes, S)
        /\ c = Chunks(InputBytes["overlay"]) /\ d = Chunks(InputBytes["carrier"])
        /\ e = InputDue("overlay") /\ g = InputDue("carrier")
  BY RowSums, InputSizes
<1>2. RowsDue(S) = b + 128 * a
  BY <1>1 DEF RowsDue
<1>3. DueFrames(l, S) \in {4 + a + c + d, 3 + a + c + d, 2 + d, 1, 0}
  BY <1>1 DEF DueFrames
<1>4. DueBytes(l, S) \in {743 + (b + 128 * a) + e + g + 97, (b + 128 * a) + e + g + 97, g + 97, 97, 0}
  BY <1>1, <1>2 DEF DueBytes
<1> QED BY <1>3, <1>4

\* The response begins.
LEMMA FinishInv ==
  ASSUME Inv, WalkInv', Finish
  PROVE  Inv'
<1>0. pc = "finish" /\ child = "running" /\ pc \notin Writing \cup {"exit", "gone"}
  BY DEF Finish, At, Writing
<1>1. ASSUME NEW c, Refuse(c) PROVE Inv'
  BY <1>0, <1>1, RefusalKeeps
<1>2. CASE /\ Frames <= MaxFrames /\ Bytes <= MaxBytes /\ unsent' = DOMAIN rows /\ pc' = "header"
           /\ UNCHANGED <<tree, walk, sent, wire, child, code, pipe, client>>
  <2>1. UNCHANGED <<rows, sent, wire, child, code, pipe, sdk, settled>>
    BY <1>2 DEF walk, client
  <2>2. Silent /\ settled = "none" /\ sent \in 0..MaxFrames /\ wire \in 0..MaxBytes
    BY <1>0 DEF Inv, Counted, Settled
  <2>3. Counted'
    <3>1. DOMAIN rows \in SUBSET File /\ IsFiniteSet(DOMAIN rows)
      BY DEF Inv, WalkInv, Shapes
    <3>2. PICK a, b, c, d, e, g \in Nat:
            /\ a = SumFunctionOnSet(RowFrames, DOMAIN rows) /\ b = SumFunctionOnSet(RowBytes, DOMAIN rows)
            /\ c = Chunks(InputBytes["overlay"]) /\ d = Chunks(InputBytes["carrier"])
            /\ e = InputBytes["overlay"] /\ g = InputBytes["carrier"]
      BY <3>1, RowSums, InputSizes
    <3>3. Frames = 4 + a + c + d /\ DueFrames("header", DOMAIN rows) = 4 + a + c + d
      BY <3>2 DEF Frames, DueFrames
    <3>4. Bytes = 2048 + b + e + g + 128 * (4 + a + c + d)
      BY <3>2, <3>3 DEF Bytes
    <3>5. DueBytes("header", DOMAIN rows) =
            743 + (b + 128 * a) + (124 + e + 128 * c) + (124 + g + 128 * d) + 97
      BY <3>2 DEF DueBytes, RowsDue, InputDue
    <3>6. DueFrames("header", DOMAIN rows) <= MaxFrames /\ DueBytes("header", DOMAIN rows) <= MaxBytes
      BY <1>2, <3>3, <3>4, <3>5, BoundAssumption
    <3>7. /\ 0 + DueFrames("header", DOMAIN rows) <= MaxFrames
          /\ 0 + DueBytes("header", DOMAIN rows) <= MaxBytes
      BY <3>1, <3>6, DueProperties
    <3> QED BY <1>0, <1>2, <2>1, <2>2, <3>7 DEF Counted, Silent, Writing
  <2>4. Shared' /\ Settled'
    BY <1>0, <2>1, <2>2 DEF Inv, Shared, Settled, Silent
  <2>5. Written = {} /\ Written' = {}
    BY <1>0, <1>2, <2>1 DEF Written, Writing
  <2>6. Delivered'
    BY <1>0, <2>1, <2>5 DEF Inv, Delivered
  <2> QED BY <2>3, <2>4, <2>6 DEF Inv
<1> QED BY <1>1, <1>2 DEF Finish, Goto

\* A record is written: it fits, since it was due.
LEMMA SendFits ==
  ASSUME Inv, child = "running", pc \in Writing,
         NEW r, NEW l \in {"rows", "carrier", "end", "exit"}, NEW rest \in SUBSET unsent,
         l # "rows" => rest = {}, Send(r, l, rest),
         r.data \in Nat, r.length \in Nat, r.length <= MaxFrameBytes, r.text <= MaxTextBytes,
         1 + Chunks(r.data) + DueFrames(l, rest) <= DueFrames(pc, unsent),
         4 + r.length + r.data + 128 * Chunks(r.data) + DueBytes(l, rest) <= DueBytes(pc, unsent)
  PROVE  /\ Counted'
         /\ UNCHANGED <<rows, child, code, sdk, settled>>
         /\ unsent' = rest /\ pc' = l /\ pipe' = Append(pipe, r.message)
<1>1. /\ unsent \subseteq DOMAIN rows /\ sent \in Nat /\ wire \in Nat
      /\ sent + DueFrames(pc, unsent) <= MaxFrames
      /\ wire + DueBytes(pc, unsent) <= MaxBytes
      /\ MaxFrames \in Nat /\ MaxBytes \in Nat
  BY BoundAssumption DEF Inv, Counted
<1>2. unsent \in SUBSET File /\ IsFiniteSet(unsent) /\ rest \in SUBSET File /\ IsFiniteSet(rest)
  BY <1>1, FS_Subset DEF Inv, WalkInv, Shapes
<1>3. PICK d, n, k, b, x, y, u, v \in Nat:
        /\ d = r.data /\ n = r.length /\ k = Chunks(r.data) /\ b = ChunkBytes(r.data)
        /\ x = DueFrames(l, rest) /\ y = DueBytes(l, rest)
        /\ u = DueFrames(pc, unsent) /\ v = DueBytes(pc, unsent)
  BY <1>2, ChunksProperties, ChunkBytesProperties, DueProperties
<1>4. b <= d + 128 * k
  BY <1>3, ChunkBytesProperties
<1>5. 1 + k + x <= u /\ 4 + n + d + 128 * k + y <= v /\ sent + u <= MaxFrames /\ wire + v <= MaxBytes
  BY <1>1, <1>3
<1>6. /\ sent + 1 + k \in 0..MaxFrames /\ wire + 4 + n + b \in 0..MaxBytes
      /\ (sent + 1 + k) + x <= MaxFrames /\ (wire + 4 + n + b) + y <= MaxBytes
  BY <1>1, <1>4, <1>5
<1>7. Encodes(r)
  BY ChunkEncodes DEF Encodes
<1>8. Fits(r)
  <2>1. sent + 1 + k <= MaxFrames /\ wire + 4 + n + b <= MaxBytes
    BY <1>1, <1>6
  <2> QED BY <1>3, <1>7, <2>1 DEF Fits
<1>9. /\ sent' = sent + 1 + k /\ wire' = wire + 4 + n + b
      /\ UNCHANGED <<rows, child, code, sdk, settled>>
      /\ unsent' = rest /\ pc' = l /\ pipe' = Append(pipe, r.message)
  BY <1>3, <1>8 DEF Send, Goto, walk, client
<1>10. Counted'
  <2>1. sent' \in 0..MaxFrames /\ wire' \in 0..MaxBytes
    BY <1>6, <1>9
  <2>2. sent' + DueFrames(pc', unsent') <= MaxFrames /\ wire' + DueBytes(pc', unsent') <= MaxBytes
    BY <1>3, <1>6, <1>9
  <2>3. unsent' \subseteq DOMAIN rows' /\ (pc' # "rows" => unsent' = {})
    BY <1>1, <1>9
  <2> QED BY <1>9, <2>1, <2>2, <2>3 DEF Counted, Writing
<1> QED BY <1>9, <1>10

\* A record other than a row's is in the pipe.
LEMMA SendKeeps ==
  ASSUME Inv, WalkInv', NEW m \in MessageType, m.kind # "row", pipe' = Append(pipe, m),
         unsent' = unsent, UNCHANGED <<rows, child, code, sdk, settled>>,
         child = "running", pc \in Writing, pc' \in Writing \cup {"exit"}, Counted'
  PROVE  Inv'
<1>1. UNCHANGED <<rows, child, code, sdk, settled, unsent>> /\ pipe' = Append(pipe, m)
  OBVIOUS
<1>2. settled = "none" /\ pipe \in Seq(MessageType)
  BY DEF Inv, Settled, Shared
<1>3. PICK p \in Seq(MessageType): p = pipe
  BY <1>2
<1>4. Append(p, m) \in Seq(MessageType) /\ Underway(Append(p, m)) = Underway(p)
  BY UnderwayAppend
<1>5. pipe' \in Seq(MessageType) /\ Underway(pipe)' = Underway(pipe)
  BY <1>1, <1>3, <1>4, Zenon
<1>6. Written' = Written
  BY <1>1 DEF Written
<1>7. Delivered'
  BY <1>1, <1>5, <1>6 DEF Inv, Delivered
<1>8. Shared' /\ Settled'
  BY <1>1, <1>2, <1>5 DEF Inv, Shared, Settled
<1> QED BY <1>7, <1>8 DEF Inv

\* A row's record is in the pipe.
LEMMA RowKeeps ==
  ASSUME Inv, WalkInv', NEW f \in unsent, pc = "rows", pipe' = Append(pipe, RowFrame(f)),
         unsent' = unsent \ {f}, UNCHANGED <<rows, child, code, sdk, settled>>,
         child = "running", pc' = pc, Counted'
  PROVE  Inv'
<1>1. UNCHANGED <<rows, child, code, sdk, settled>> /\ pipe' = Append(pipe, RowFrame(f))
  OBVIOUS
<1>2. settled = "none" /\ pipe \in Seq(MessageType) /\ unsent \subseteq DOMAIN rows
  BY DEF Inv, Settled, Shared, Counted, Writing
<1>3. f \in DOMAIN rows /\ f \in File /\ rows[f] \in Data
  BY <1>2 DEF Inv, WalkInv, Shapes
<1>4. PICK m \in MessageType: /\ m = RowFrame(f) /\ m.kind = "row"
                              /\ m.file = f /\ m.data = rows[f]
  <2>1. PICK d \in Data: d = rows[f]
    BY <1>3
  <2>2. PICK q \in MessageType: q = Message("row") /\ q.kind = "row"
    BY MessageProperties DEF Kinds
  <2> DEFINE r == [q EXCEPT !.file = f, !.data = d]
  <2>3. r \in MessageType /\ r.kind = "row" /\ r.file = f /\ r.data = d
    BY <1>3, <2>2 DEF MessageType
  <2>4. r = RowFrame(f)
    BY <2>1, <2>2 DEF RowFrame
  <2> QED BY <2>1, <2>3, <2>4
<1>5. PICK p \in Seq(MessageType): p = pipe
  BY <1>2
<1>6. Append(p, m) \in Seq(MessageType) /\ Underway(Append(p, m)) = Underway(p) \cup {m}
  BY <1>4, UnderwayAppend
<1>7. pipe' \in Seq(MessageType) /\ Underway(pipe)' = Underway(pipe) \cup {m}
  BY <1>1, <1>4, <1>5, <1>6, Zenon
<1>8. Written' = Written \cup {f}
  BY <1>1, <1>3 DEF Written, Writing
<1>9. Delivered'
  <2>1. CASE sdk.failure = "none"
    <3>1. /\ DOMAIN sdk.rows \cup {r.file: r \in Underway(pipe)} = Written
          /\ \A g \in DOMAIN sdk.rows: sdk.rows[g] = rows[g]
          /\ \A r \in Underway(pipe): r.data = rows[r.file]
      BY <1>2, <2>1 DEF Inv, Delivered
    <3>2. {r.file: r \in Underway(pipe)'} = {r.file: r \in Underway(pipe)} \cup {f}
      BY <1>4, <1>7
    <3> QED BY <1>1, <1>4, <1>7, <1>8, <3>1, <3>2 DEF Delivered
  <2>2. CASE sdk.failure # "none"
    BY <1>1, <2>2 DEF Delivered
  <2> QED BY <2>1, <2>2
<1>10. Shared' /\ Settled'
  BY <1>1, <1>2, <1>7 DEF Inv, Shared, Settled
<1> QED BY <1>9, <1>10 DEF Inv

\* The response goes on: no limit is ever met.
LEMMA EmitInv ==
  ASSUME Inv, WalkInv', Emit
  PROVE  Inv'
<1>0. /\ child = "running" /\ pc \in Writing /\ unsent \subseteq DOMAIN rows
      /\ pc \in {"carrier", "end"} => unsent = {}
  BY DEF Emit, At, Writing, Inv, Counted
<1>1. unsent \in SUBSET File /\ IsFiniteSet(unsent) /\ Cardinality(DOMAIN rows) \in Nat
  BY <1>0, FS_Subset, FS_CardinalityType DEF Inv, WalkInv, Shapes
<1>2. Chunks(0) = 0
  BY ChunksProperties
<1>3. \A S \in SUBSET unsent: RowsDue(S) \in Nat /\ SumFunctionOnSet(RowFrames, S) \in Nat
  <2> SUFFICES ASSUME NEW S \in SUBSET unsent
               PROVE  RowsDue(S) \in Nat /\ SumFunctionOnSet(RowFrames, S) \in Nat
    OBVIOUS
  <2>1. S \in SUBSET File /\ IsFiniteSet(S)
    BY <1>1, FS_Subset
  <2>2. SumFunctionOnSet(RowFrames, S) \in Nat /\ SumFunctionOnSet(RowBytes, S) \in Nat
    BY <2>1, RowSums
  <2> QED BY <2>2 DEF RowsDue
<1>4. CASE At("header") /\ Send(HeaderRecord, "rows", unsent)
  <2>1. pc = "header"
    BY <1>4 DEF At
  <2>2. PICK r: r = HeaderRecord
    OBVIOUS
  <2>3. /\ r.data = 0 /\ r.text = 64 /\ r.message = Header
        /\ r.length = 719 + HeadBytes(Cardinality(DOMAIN rows))
                          + HeadBytes(SumFunctionOnSet(DataBytes, DOMAIN rows))
                          + HeadBytes(InputBytes["overlay"]) + HeadBytes(InputBytes["carrier"])
    BY <2>2 DEF HeaderRecord
  <2>4. r.length \in Nat /\ r.length <= 739
    <3>1. PICK a, b, c, d \in 1..5:
            /\ a = HeadBytes(Cardinality(DOMAIN rows))
            /\ b = HeadBytes(SumFunctionOnSet(DataBytes, DOMAIN rows))
            /\ c = HeadBytes(InputBytes["overlay"]) /\ d = HeadBytes(InputBytes["carrier"])
      BY HeadProperties
    <3>2. r.length = 719 + a + b + c + d
      BY <2>3, <3>1
    <3> QED BY <3>2
  <2>5. r.length <= MaxFrameBytes /\ r.text <= MaxTextBytes
    BY <2>3, <2>4, SMT DEF MaxFrameBytes, MaxTextBytes
  <2>6. 1 + Chunks(r.data) + DueFrames("rows", unsent) <= DueFrames(pc, unsent)
    BY <1>2, <1>3, <2>1, <2>3, InputSizes DEF DueFrames
  <2>7. 4 + r.length + r.data + 128 * Chunks(r.data) + DueBytes("rows", unsent)
          <= DueBytes(pc, unsent)
    BY <1>2, <1>3, <2>1, <2>3, <2>4, InputSizes DEF DueBytes
  <2>8. Send(r, "rows", unsent) /\ r.data \in Nat
    BY <1>4, <2>2, <2>3
  <2>9. /\ Counted' /\ UNCHANGED <<rows, child, code, sdk, settled>>
        /\ unsent' = unsent /\ pc' = "rows" /\ pipe' = Append(pipe, r.message)
    BY <1>0, <2>4, <2>5, <2>6, <2>7, <2>8, SendFits
  <2>10. PICK m \in MessageType: m = Header /\ m.kind # "row"
    <3>1. PICK m: m = [kind |-> "header", count |-> Cardinality(DOMAIN rows), file |-> NoIno, data |-> <<>>]
      OBVIOUS
    <3>2. m \in MessageType /\ m.kind = "header"
      BY <1>1, <3>1 DEF MessageType, Kinds
    <3>3. m = Header
      BY <3>1 DEF Header, Message
    <3> QED BY <3>2, <3>3
  <2> QED BY <1>0, <2>3, <2>9, <2>10, SendKeeps DEF Writing
<1>5. ASSUME NEW f \in unsent, At("rows"), Send(RowRecord(f), "rows", unsent \ {f})
      PROVE  Inv'
  <2>1. pc = "rows" /\ f \in File
    BY <1>1, <1>5 DEF At
  <2>2. PICK r: r = RowRecord(f)
    OBVIOUS
  <2>3. /\ r.data = DataBytes[f] /\ r.text = PathBytes[f] /\ r.message = RowFrame(f)
        /\ r.length = 126 + HeadBytes(Cardinality(DOMAIN rows \ unsent)) + HeadBytes(PathBytes[f])
                          + PathBytes[f] + HeadBytes(DataBytes[f])
    BY <2>2 DEF RowRecord
  <2>4. PICK D, P, k \in Nat: D = DataBytes[f] /\ P = PathBytes[f] /\ k = Chunks(DataBytes[f])
                              /\ P <= MaxTextBytes
    <3>1. DataBytes[f] \in Nat /\ PathBytes[f] \in Nat /\ PathBytes[f] <= MaxTextBytes
      BY <2>1, SizeProperties
    <3>2. Chunks(DataBytes[f]) \in Nat
      BY <3>1, ChunksProperties
    <3> QED BY <3>1, <3>2
  <2>5. r.length \in Nat /\ r.length <= 141 + P
    <3>1. PICK a, b, c \in 1..5:
            /\ a = HeadBytes(Cardinality(DOMAIN rows \ unsent))
            /\ b = HeadBytes(PathBytes[f]) /\ c = HeadBytes(DataBytes[f])
      BY HeadProperties
    <3>2. r.length = 126 + a + b + P + c
      BY <2>3, <2>4, <3>1
    <3> QED BY <3>2
  <2>6. r.length <= MaxFrameBytes /\ r.text <= MaxTextBytes
    <3>1. 141 + P <= MaxFrameBytes
      BY <2>4, SMT DEF MaxFrameBytes, MaxTextBytes
    <3>2. MaxFrameBytes \in Nat
      BY SMT DEF MaxFrameBytes
    <3> QED BY <2>3, <2>4, <2>5, <3>1, <3>2
  <2>7. PICK F, B, G, C \in Nat:
          /\ F = SumFunctionOnSet(RowFrames, unsent) /\ B = SumFunctionOnSet(RowBytes, unsent)
          /\ G = SumFunctionOnSet(RowFrames, unsent \ {f}) /\ C = SumFunctionOnSet(RowBytes, unsent \ {f})
          /\ F = 1 + k + G /\ B = D + P + 160 + C
    BY <1>1, <2>4, RowSums
  <2>8. PICK o, c, x, y \in Nat:
          /\ o = Chunks(InputBytes["overlay"]) /\ c = Chunks(InputBytes["carrier"])
          /\ x = InputDue("overlay") /\ y = InputDue("carrier")
    BY InputSizes
  <2>9. 1 + Chunks(r.data) + DueFrames("rows", unsent \ {f}) <= DueFrames(pc, unsent)
    <3>1. Chunks(r.data) = k
      BY <2>3, <2>4
    <3>2. DueFrames("rows", unsent \ {f}) = 3 + G + o + c /\ DueFrames(pc, unsent) = 3 + F + o + c
      BY <2>1, <2>7, <2>8 DEF DueFrames
    <3> QED BY <2>7, <3>1, <3>2
  <2>10. 4 + r.length + r.data + 128 * Chunks(r.data) + DueBytes("rows", unsent \ {f})
           <= DueBytes(pc, unsent)
    <3>1. Chunks(r.data) = k /\ r.data = D
      BY <2>3, <2>4
    <3>2. /\ DueBytes("rows", unsent \ {f}) = C + 128 * G + x + y + 97
          /\ DueBytes(pc, unsent) = B + 128 * F + x + y + 97
      BY <2>1, <2>7, <2>8 DEF DueBytes, RowsDue
    <3> QED BY <2>5, <2>7, <3>1, <3>2
  <2>11. Send(r, "rows", unsent \ {f}) /\ r.data \in Nat /\ unsent \ {f} \in SUBSET unsent
    BY <1>5, <2>2, <2>3, <2>4
  <2>12. /\ Counted' /\ UNCHANGED <<rows, child, code, sdk, settled>>
         /\ unsent' = unsent \ {f} /\ pc' = "rows" /\ pipe' = Append(pipe, r.message)
    BY <1>0, <2>5, <2>6, <2>9, <2>10, <2>11, SendFits
  <2> QED BY <1>0, <2>1, <2>3, <2>12, RowKeeps
<1>6. ASSUME NEW role \in {"overlay", "carrier"}, NEW l \in {"carrier", "end"}, unsent = {},
             role = "overlay" => pc = "rows" /\ l = "carrier",
             role = "carrier" => pc = "carrier" /\ l = "end",
             Send(InputRecord(role), l, unsent)
      PROVE  Inv'
  <2>1. PICK r: r = InputRecord(role)
    OBVIOUS
  <2>2. /\ r.data = InputBytes[role] /\ r.text = 64 /\ r.message = Message(role)
        /\ r.length = 115 + HeadBytes(InputBytes[role])
    BY <2>1 DEF InputRecord
  <2>3. r.length \in Nat /\ r.length <= 120
    <3>1. PICK a \in 1..5: a = HeadBytes(InputBytes[role])
      BY HeadProperties
    <3> QED BY <2>2, <3>1
  <2>4. r.length <= MaxFrameBytes /\ r.text <= MaxTextBytes
    BY <2>2, <2>3, SMT DEF MaxFrameBytes, MaxTextBytes
  <2>5. PICK o, c, x, y \in Nat:
          /\ o = Chunks(InputBytes["overlay"]) /\ c = Chunks(InputBytes["carrier"])
          /\ x = InputBytes["overlay"] /\ y = InputBytes["carrier"]
    BY InputSizes
  <2>6. SumFunctionOnSet(RowFrames, unsent) \in Nat /\ RowsDue(unsent) \in Nat
    BY <1>3
  <2>7. 1 + Chunks(r.data) + DueFrames(l, unsent) <= DueFrames(pc, unsent)
    BY <1>6, <2>2, <2>5, <2>6 DEF DueFrames
  <2>8. 4 + r.length + r.data + 128 * Chunks(r.data) + DueBytes(l, unsent) <= DueBytes(pc, unsent)
    BY <1>6, <2>2, <2>3, <2>5, <2>6 DEF DueBytes, InputDue
  <2>9. Send(r, l, unsent) /\ r.data \in Nat
    BY <1>6, <2>1, <2>2, <2>5
  <2>10. /\ Counted' /\ UNCHANGED <<rows, child, code, sdk, settled>>
         /\ unsent' = unsent /\ pc' = l /\ pipe' = Append(pipe, r.message)
    BY <1>0, <1>6, <2>3, <2>4, <2>7, <2>8, <2>9, SendFits
  <2>11. PICK m \in MessageType: m = Message(role) /\ m.kind # "row"
    BY MessageProperties DEF Kinds
  <2> QED BY <1>0, <1>6, <2>2, <2>10, <2>11, SendKeeps DEF Writing
<1>7. CASE At("end") /\ Send(EndRecord, "exit", unsent)
  <2>1. pc = "end" /\ unsent = {}
    BY <1>0, <1>7 DEF At
  <2>2. PICK r: r = EndRecord
    OBVIOUS
  <2>3. r.data = 0 /\ r.text = 64 /\ r.message = Message("end") /\ r.length = 93
    BY <2>2 DEF EndRecord
  <2>4. r.length \in Nat /\ r.length <= MaxFrameBytes /\ r.text <= MaxTextBytes
    BY <2>3, SMT DEF MaxFrameBytes, MaxTextBytes
  <2>5. 1 + Chunks(r.data) + DueFrames("exit", unsent) <= DueFrames(pc, unsent)
    BY <1>2, <2>1, <2>3 DEF DueFrames
  <2>6. 4 + r.length + r.data + 128 * Chunks(r.data) + DueBytes("exit", unsent) <= DueBytes(pc, unsent)
    BY <1>2, <2>1, <2>3 DEF DueBytes
  <2>7. Send(r, "exit", unsent) /\ r.data \in Nat
    BY <1>7, <2>2, <2>3
  <2>8. /\ Counted' /\ UNCHANGED <<rows, child, code, sdk, settled>>
        /\ unsent' = unsent /\ pc' = "exit" /\ pipe' = Append(pipe, r.message)
    BY <1>0, <2>1, <2>4, <2>5, <2>6, <2>7, SendFits
  <2>9. PICK m \in MessageType: m = Message("end") /\ m.kind # "row"
    BY MessageProperties DEF Kinds
  <2> QED BY <1>0, <2>3, <2>8, <2>9, SendKeeps
<1> QED BY <1>0, <1>4, <1>5, <1>6, <1>7 DEF Emit, At

\* The helper exits with every frame written.
LEMMA ExitInv ==
  ASSUME Inv, WalkInv', Exit
  PROVE  Inv'
<1>1. /\ pc = "exit" /\ child = "running" /\ child' = "ok" /\ pc' = "gone"
      /\ UNCHANGED <<rows, sent, wire, unsent, code, pipe, sdk, settled>>
  BY DEF Exit, At, Goto, walk, client
<1>2. settled = "none" /\ unsent = {}
  BY <1>1 DEF Inv, Settled, Counted
<1>3. Counted'
  BY <1>1, <1>2 DEF Inv, Counted, Writing
<1>4. Written' = Written
  BY <1>1 DEF Written
<1>5. Delivered' /\ Shared' /\ Settled'
  BY <1>1, <1>2, <1>4 DEF Inv, Delivered, Shared, Settled
<1> QED BY <1>3, <1>5 DEF Inv

\* Rows received stay rows.
LEMMA WithRows ==
  ASSUME NEW f \in RowsType, NEW n \in File \cup {NoIno}, NEW v \in Data \cup {<<>>}
  PROVE  /\ With(f, n, v) \in RowsType
         /\ DOMAIN With(f, n, v) = DOMAIN f \cup {n} /\ With(f, n, v)[n] = v
         /\ \A m \in DOMAIN f: m # n => With(f, n, v)[m] = f[m]
<1>1. PICK S \in SUBSET (File \cup {NoIno}): f \in [S -> Data \cup {<<>>}]
  BY DEF RowsType
<1>2. With(f, n, v) \in [S \cup {n} -> Data \cup {<<>>}]
  BY <1>1 DEF With
<1>3. With(f, n, v) \in RowsType
  BY <1>1, <1>2 DEF RowsType
<1>4. /\ DOMAIN With(f, n, v) = DOMAIN f \cup {n} /\ With(f, n, v)[n] = v
      /\ \A m \in DOMAIN f: m # n => With(f, n, v)[m] = f[m]
  BY DEF With
<1> QED BY <1>3, <1>4

\* CaptureReceiver.accept, for each kind of frame.
LEMMA AcceptProperties ==
  ASSUME NEW s \in ReceiverType, NEW m \in MessageType
  PROVE  /\ Accept(s, m) \in ReceiverType /\ Accept(s, m).failure = s.failure
         /\ m.kind # "row" => Accept(s, m).rows = s.rows
         /\ m.kind = "row" => Accept(s, m).rows = With(s.rows, m.file, m.data)
<1>0. m.kind \in Kinds /\ m.count \in Int /\ m.file \in File \cup {NoIno} /\ m.data \in Data \cup {<<>>}
  BY DEF MessageType
<1>1. CASE m.kind = "header"
  <2>1. Accept(s, m) = [s EXCEPT !.count = m.count]
    BY <1>1, Zenon DEF Accept
  <2> QED BY <1>0, <1>1, <2>1 DEF ReceiverType
<1>2. CASE m.kind = "row"
  <2>1. Accept(s, m) = [s EXCEPT !.rows = With(s.rows, m.file, m.data)]
    BY <1>2, Zenon DEF Accept
  <2>2. PICK r \in RowsType: r = With(s.rows, m.file, m.data)
    <3>1. s.rows \in RowsType
      BY DEF ReceiverType
    <3> QED BY <1>0, <3>1, WithRows
  <2>3. /\ [s EXCEPT !.rows = r] \in ReceiverType
        /\ [s EXCEPT !.rows = r].failure = s.failure
        /\ [s EXCEPT !.rows = r].rows = r
    BY DEF ReceiverType
  <2> QED BY <1>2, <2>1, <2>2, <2>3
<1>3. CASE m.kind \in {"overlay", "carrier"}
  <2>1. Accept(s, m) = [s EXCEPT !.inputs = s.inputs + 1]
    BY <1>3, Zenon DEF Accept
  <2> QED BY <1>0, <1>3, <2>1 DEF ReceiverType
<1>4. CASE m.kind = "end"
  <2>1. Accept(s, m) = [s EXCEPT !.end = TRUE]
    BY <1>4, Zenon DEF Accept
  <2> QED BY <1>0, <1>4, <2>1 DEF ReceiverType
<1>5. CASE m.kind = "torn"
  <2>1. Accept(s, m) = [s EXCEPT !.torn = TRUE]
    BY <1>5, Zenon DEF Accept
  <2> QED BY <1>0, <1>5, <2>1 DEF ReceiverType
<1> QED BY <1>0, <1>1, <1>2, <1>3, <1>4, <1>5 DEF Kinds

\* A data event: a row on the way is a row received.
LEMMA ReceiveInv ==
  ASSUME Inv, WalkInv', Receive
  PROVE  Inv'
<1>1. /\ UNCHANGED <<pc, rows, sent, wire, unsent, child, code, settled>>
      /\ pipe # <<>> /\ pipe' = Tail(pipe)
  BY DEF Receive, walk
<1>2. settled = "none" /\ pipe \in Seq(MessageType) /\ sdk \in ReceiverType
  BY <1>1 DEF Inv, Settled, Shared
<1>3. PICK p \in Seq(MessageType): p = pipe /\ p # <<>>
  BY <1>1, <1>2
<1>4. PICK m \in MessageType, q \in Seq(MessageType):
        /\ m = Head(p) /\ q = Tail(p)
        /\ m.kind # "row" => Underway(p) = Underway(q)
        /\ m.kind = "row" => Underway(p) = Underway(q) \cup {m}
  BY <1>3, UnderwayTail
<1>5. PICK t \in ReceiverType: /\ t = [sdk EXCEPT !.bytes = TRUE]
                               /\ t.failure = sdk.failure /\ t.rows = sdk.rows
  <2>1. PICK r \in ReceiverType: r = sdk
    BY <1>2
  <2>2. /\ [r EXCEPT !.bytes = TRUE] \in ReceiverType
        /\ [r EXCEPT !.bytes = TRUE].failure = r.failure
        /\ [r EXCEPT !.bytes = TRUE].rows = r.rows
    BY DEF ReceiverType
  <2> QED BY <2>1, <2>2
<1>6. sdk' = IF t.failure = "none" THEN Accept(t, m) ELSE t
  BY <1>3, <1>4, <1>5 DEF Receive
<1>7. /\ Accept(t, m) \in ReceiverType /\ Accept(t, m).failure = t.failure
      /\ m.kind # "row" => Accept(t, m).rows = t.rows
      /\ m.kind = "row" => Accept(t, m).rows = With(t.rows, m.file, m.data)
  BY AcceptProperties
<1>8. sdk' \in ReceiverType /\ sdk'.failure = sdk.failure
  BY <1>5, <1>6, <1>7
<1>9. Counted'
  BY <1>1 DEF Inv, Counted, Silent
<1>10. Shared' /\ Settled'
  BY <1>1, <1>2, <1>3, <1>4, <1>8 DEF Inv, Shared, Settled
<1>11. pipe' = q /\ Written' = Written
  BY <1>1, <1>3, <1>4 DEF Written
<1>12. ASSUME sdk.failure = "none" /\ child \in {"running", "ok"}
       PROVE  Delivered'
  <2>1. /\ DOMAIN t.rows \cup {r.file: r \in Underway(p)} = Written
        /\ \A f \in DOMAIN t.rows: t.rows[f] = rows[f]
        /\ \A r \in Underway(p): r.data = rows[r.file]
    BY <1>2, <1>3, <1>5, <1>12 DEF Inv, Delivered
  <2>2. PICK u \in RowsType: u = sdk'.rows
    BY <1>8 DEF ReceiverType
  <2>3. CASE m.kind # "row"
    <3>1. u = t.rows /\ Underway(q) = Underway(p)
      BY <1>4, <1>5, <1>6, <1>7, <1>12, <2>2, <2>3
    <3> QED BY <1>1, <1>11, <2>1, <2>2, <3>1 DEF Delivered
  <2>4. CASE m.kind = "row"
    <3>1. t.rows \in RowsType /\ m.file \in File \cup {NoIno} /\ m.data \in Data \cup {<<>>}
      BY DEF ReceiverType, MessageType
    <3>2. u = With(t.rows, m.file, m.data) /\ Underway(p) = Underway(q) \cup {m}
      BY <1>4, <1>5, <1>6, <1>7, <1>12, <2>2, <2>4
    <3>3. /\ DOMAIN u = DOMAIN t.rows \cup {m.file} /\ u[m.file] = m.data
          /\ \A f \in DOMAIN t.rows: f # m.file => u[f] = t.rows[f]
      <4>1. PICK g \in RowsType, x \in File \cup {NoIno}, y \in Data \cup {<<>>}:
              g = t.rows /\ x = m.file /\ y = m.data
        BY <3>1
      <4>2. PICK w: w = With(g, x, y)
        OBVIOUS
      <4>3. /\ DOMAIN w = DOMAIN g \cup {x} /\ w[x] = y
            /\ \A f \in DOMAIN g: f # x => w[f] = g[f]
        BY <4>2, WithRows, ZenonT(60)
      <4>4. u = w
        BY <3>2, <4>1, <4>2
      <4> QED BY <4>1, <4>3, <4>4
    <3>4. m.data = rows[m.file]
      BY <2>1, <3>2
    <3>5. \A f \in DOMAIN u: u[f] = rows[f]
      BY <2>1, <3>3, <3>4
    <3>6. {r.file: r \in Underway(p)} = {r.file: r \in Underway(q)} \cup {m.file}
      BY <3>2
    <3>7. DOMAIN u \cup {r.file: r \in Underway(q)} = Written
      BY <2>1, <3>3, <3>6
    <3>8. \A r \in Underway(q): r.data = rows[r.file]
      BY <2>1, <3>2
    <3> QED BY <1>1, <1>11, <2>2, <3>5, <3>7, <3>8 DEF Delivered
  <2> QED BY <2>3, <2>4
<1>13. ASSUME ~(sdk.failure = "none" /\ child \in {"running", "ok"})
       PROVE  Delivered'
  BY <1>1, <1>8, <1>13 DEF Delivered
<1> QED BY <1>9, <1>10, <1>12, <1>13 DEF Inv

\* What is received is dropped.
LEMMA DiscardedProperties ==
  ASSUME NEW s \in ReceiverType
  PROVE  Discarded(s) \in ReceiverType /\ Discarded(s).rows = Nothing /\ Discarded(s).bytes = s.bytes
<1>1. Nothing \in RowsType
  BY NothingProperties DEF RowsType, Nothing
<1>2. PICK e \in RowsType: e = Nothing
  BY <1>1
<1>3. /\ [s EXCEPT !.rows = e, !.inputs = 0] \in ReceiverType
      /\ [s EXCEPT !.rows = e, !.inputs = 0].rows = e
      /\ [s EXCEPT !.rows = e, !.inputs = 0].bytes = s.bytes
  BY DEF ReceiverType
<1> QED BY <1>2, <1>3 DEF Discarded

\* The timer, the abort signal or an error ends the wait.
LEMMA TerminateInv ==
  ASSUME Inv, WalkInv', NEW c \in {"CANCELLED", "IO"}, Terminate(c)
  PROVE  Inv'
<1>1. /\ UNCHANGED <<pc, rows, sent, wire, unsent, child, code, pipe, settled>>
      /\ sdk' = [Discarded(sdk) EXCEPT !.failure = c, !.kill = TRUE]
      /\ settled = "none"
  BY DEF Terminate, walk, output
<1>2. PICK s \in ReceiverType: s = sdk
  BY DEF Inv, Shared
<1>3. PICK t \in ReceiverType: t = Discarded(s) /\ t.bytes = s.bytes
  BY DiscardedProperties
<1>4. c \in Codes /\ c # "none"
  BY DEF Codes
<1>5. /\ [t EXCEPT !.failure = c, !.kill = TRUE] \in ReceiverType
      /\ [t EXCEPT !.failure = c, !.kill = TRUE].failure = c
      /\ [t EXCEPT !.failure = c, !.kill = TRUE].bytes = t.bytes
  BY <1>4 DEF ReceiverType
<1>6. sdk' \in ReceiverType /\ sdk'.failure = c /\ sdk'.bytes = sdk.bytes
  BY <1>1, <1>2, <1>3, <1>5
<1>7. Counted'
  BY <1>1, <1>6 DEF Inv, Counted, Silent
<1>8. Shared' /\ Settled'
  BY <1>1, <1>6 DEF Inv, Shared, Settled
<1>9. Delivered'
  BY <1>4, <1>6 DEF Delivered
<1> QED BY <1>7, <1>8, <1>9 DEF Inv

\* The close event: everything has been received, or nothing is handed out.
LEMMA CloseInv ==
  ASSUME Inv, WalkInv', Close
  PROVE  Inv'
<1>1. /\ UNCHANGED <<pc, rows, sent, wire, unsent, child, code, pipe>>
      /\ settled = "none" /\ child # "running" /\ pipe = <<>>
      /\ sdk' = IF settled' = "resolved" THEN sdk ELSE Discarded(sdk)
  BY DEF Close, walk, output
<1>2. sdk \in ReceiverType /\ sdk.failure \in Codes \cup {"none"}
  BY DEF Inv, Shared, ReceiverType
<1>3. /\ sdk' \in ReceiverType /\ sdk'.bytes = sdk.bytes
      /\ settled' # "resolved" => sdk'.rows = Nothing
  BY <1>1, <1>2, DiscardedProperties
<1>4. "CANCELLED" \in Codes /\ "IO" \in Codes /\ "MALFORMED" \in Codes /\ "none" \notin Codes
      /\ "resolved" \notin Codes
  BY DEF Codes
<1>5. child = "refused" => code \in Codes
  BY DEF Inv, WalkInv, Stations
<1>6. /\ settled' \in Codes \cup {"resolved"}
      /\ settled' = "resolved" => sdk.failure = "none" /\ child = "ok"
  BY <1>2, <1>4, <1>5 DEF Close, Outcome
<1>7. ASSUME settled' = "resolved"
      PROVE  sdk.rows = rows
  <2>1. pc = "gone" /\ unsent = {}
    BY <1>1 DEF Inv, WalkInv, Stations, Counted
  <2>2. Underway(pipe) = {}
    BY <1>1 DEF Underway
  <2>3. Written = DOMAIN rows
    BY <2>1 DEF Written
  <2>4. DOMAIN sdk.rows = DOMAIN rows /\ \A f \in DOMAIN sdk.rows: sdk.rows[f] = rows[f]
    BY <1>1, <1>6, <1>7, <2>2, <2>3 DEF Inv, Delivered
  <2>5. PICK S \in SUBSET (File \cup {NoIno}): sdk.rows \in [S -> Data \cup {<<>>}]
    BY <1>2 DEF ReceiverType, RowsType
  <2>6. rows \in [DOMAIN rows -> Data]
    BY DEF Inv, WalkInv, Shapes
  <2> QED BY <2>4, <2>5, <2>6
<1>8. Counted'
  BY <1>1, <1>3 DEF Inv, Counted, Silent
<1>9. Shared'
  BY <1>1, <1>3, <1>6 DEF Inv, Shared
<1>10. Delivered'
  BY <1>4, <1>6 DEF Delivered
<1>11. Settled'
  BY <1>1, <1>3, <1>6, <1>7 DEF Settled
<1> QED BY <1>8, <1>9, <1>10, <1>11 DEF Inv

-----------------------------------------------------------------------------
(* The specification. *)

LEMMA InvInitially == Init => Inv
<1> SUFFICES ASSUME Init PROVE Inv
  OBVIOUS
<1>1. WalkInv
  BY WalkInitially
<1>2. Counted
  BY BoundAssumption DEF Init, Counted, Silent, Fresh, Writing
<1>3. Nothing \in RowsType /\ DOMAIN Nothing = {}
  BY NothingProperties DEF RowsType, Nothing
<1>4. PICK e \in RowsType: e = Nothing
  BY <1>3
<1>5. [failure |-> "none", kill |-> FALSE, bytes |-> FALSE, torn |-> FALSE,
       count |-> -1, rows |-> e, inputs |-> 0, end |-> FALSE] \in ReceiverType
  BY DEF ReceiverType
<1>6. sdk \in ReceiverType /\ sdk.rows = Nothing
  BY <1>4, <1>5 DEF Init, Fresh
<1>7. Shared /\ Settled
  BY <1>6, EmptySeq DEF Init, Shared, Settled
<1>8. Written = {} /\ Underway(pipe) = {}
  BY DEF Init, Written, Underway, Writing
<1>9. Delivered
  BY <1>3, <1>6, <1>8 DEF Delivered
<1> QED BY <1>1, <1>2, <1>7, <1>9 DEF Inv

LEMMA InvNext ==
  ASSUME Inv, [Next]_vars
  PROVE  Inv'
<1>0. WalkInv'
  BY WalkNext DEF Inv
<1>1. ASSUME NEW f \in File, Place(f) \/ Remove(f) \/ \E b \in Block: Write(f, b)
      PROVE  Inv'
  <2>1. UNCHANGED <<pc, walk, output, client>>
    BY <1>1 DEF Place, Remove, Write, Edit
  <2> QED BY <1>0, <2>1, QuietKeeps DEF walk
<1>2. CASE Inputs \/ Inventory \/ (\E n \in Names: Stat(n)) \/ InventoryEnd \/ Unfit
           \/ (\E d \in Dir: Descend(d)) \/ (\E f \in File: Pin(f)) \/ Upgrade \/ Read \/ Recheck
           \/ Again
  <2>1. child = "running" /\ pc \in {"inputs"} \cup Walking
    BY <1>2 DEF Inputs, Inventory, Stat, InventoryEnd, Unfit, Descend, Pin, Upgrade, Read, Recheck,
                Again, At, Walking, Reading
  <2>2. pc \notin Writing \cup {"exit", "gone"}
    BY <2>1 DEF Walking, Reading, Writing
  <2>3. ASSUME NEW c, Refuse(c) PROVE Inv'
    BY <1>0, <2>1, <2>2, <2>3, RefusalKeeps
  <2>4. CASE \A c: ~Refuse(c)
    <3>1. Keep /\ pc' \in {"finish"} \cup Walking
      <4>1. CASE Inputs \/ Inventory \/ (\E n \in Names: Stat(n))
        BY <2>4, <4>1 DEF Inputs, Inventory, Stat, At, Goto, Walking
      <4>2. CASE InventoryEnd \/ Unfit
        BY <2>4, <4>2 DEF InventoryEnd, Unfit, Goto, Walking
      <4>3. CASE (\E d \in Dir: Descend(d)) \/ (\E f \in File: Pin(f))
        BY <2>4, <4>3 DEF Descend, Pin, Goto, Walking, Reading
      <4>4. CASE Upgrade \/ Read \/ Recheck \/ Again
        BY <2>4, <4>4 DEF Upgrade, Read, Recheck, Again, Goto, Walking, Reading
      <4> QED BY <1>2, <4>1, <4>2, <4>3, <4>4
    <3>2. UNCHANGED <<output, client>> /\ pc' \notin Writing \cup {"exit", "gone"}
      BY <3>1 DEF Keep, Walking, Reading, Writing
    <3> QED BY <1>0, <2>2, <3>2, QuietKeeps
  <2> QED BY <2>3, <2>4
<1>3. CASE Finish
  BY <1>0, <1>3, FinishInv
<1>4. CASE Emit
  BY <1>0, <1>4, EmitInv
<1>5. CASE WriteFails
  BY <1>0, <1>5, EndKeeps DEF WriteFails, Interrupted
<1>6. CASE Exit
  BY <1>0, <1>6, ExitInv
<1>7. CASE Die
  BY <1>0, <1>7, EndKeeps DEF Die
<1>8. CASE Receive
  BY <1>0, <1>8, ReceiveInv
<1>9. CASE Close
  BY <1>0, <1>9, CloseInv
<1>10. ASSUME NEW c \in {"CANCELLED", "IO"}, Terminate(c) PROVE Inv'
  BY <1>0, <1>10, TerminateInv
<1>11. CASE UNCHANGED vars
  <2>1. UNCHANGED <<pc, rows, output, client>>
    BY <1>11 DEF vars, walk
  <2> QED BY <1>0, <2>1, QuietKeeps
<1> QED BY <1>1, <1>2, <1>3, <1>4, <1>5, <1>6, <1>7, <1>8, <1>9, <1>10, <1>11 DEF Next, Helper

\* The inductive invariant.
LEMMA Invariance == Spec => []Inv
<1>1. Init => Inv
  BY InvInitially
<1>2. Inv /\ [Next]_vars => Inv'
  BY InvNext
<1> QED BY <1>1, <1>2, PTL DEF Spec

\* Every variable keeps its shape: the lists of capture_directory hold nothing
\* that is captured already, and the response never exceeds MAX_CAPTURE_FRAMES or
\* MAX_CAPTURE_RESPONSE_BYTES.
THEOREM TypeCorrect == Spec => []TypeOK
<1>1. Inv => TypeOK
  <2> SUFFICES ASSUME Inv PROVE TypeOK
    OBVIOUS
  <2>1. /\ name \in [File -> Ino \cup {NoIno}]
        /\ node \in [Ino -> [stamp: Stamp, data: Data]]
        /\ touched \in [Dir -> Stamp] /\ edits \in Stamp
        /\ inv.left \subseteq Names
        /\ DOMAIN rows \subseteq File /\ \A f \in DOMAIN rows: rows[f] \in Data
    BY DEF Inv, WalkInv, Shapes
  <2>2. DOMAIN inv.got \subseteq Names
    BY IdentitiesProperties DEF Inv, WalkInv, Shapes
  <2>3. ASSUME NEW i \in 1..Len(stack)
        PROVE  /\ stack[i].dir \in Dir /\ stack[i].id \in Id
               /\ stack[i].todo \subseteq DOMAIN stack[i].before
               /\ stack[i].todo \cap DOMAIN rows = {}
    <3>1. stack # <<>> /\ pc \in Walking
      BY DEF Inv, WalkInv, Stations
    <3>2. stack[i] \in FrameType
      BY <3>1, WalkingHere DEF Inv
    <3>3. PICK V \in SUBSET Dir: Walk(V)
      BY <3>1, WalkingHere DEF Inv
    <3>4. PICK g \in FrameType: g = stack[i]
      BY <3>2
    <3>5. (g.turn = "before" => Untouched(g, V)) /\ (g.turn = "after" => Listed(g, V))
      BY <3>3, <3>4 DEF Walk, FrameInv
    <3>6. g.turn \in {"before", "after"} /\ g.dir \in Dir /\ g.id \in Id
      BY DEF FrameType
    <3>7. g.todo \subseteq DOMAIN g.before /\ g.todo \cap DOMAIN rows = {}
      BY <3>5, <3>6 DEF Untouched, Listed
    <3> QED BY <3>4, <3>6, <3>7
  <2>4. sent \in 0..MaxFrames /\ wire \in 0..MaxBytes /\ unsent \subseteq DOMAIN rows
    BY DEF Inv, Counted
  <2>5. /\ child \in {"running", "ok", "refused", "killed"}
        /\ pc = "gone" <=> child # "running"
        /\ code \in Codes \cup {"none"} /\ (code # "none" <=> child = "refused")
    BY DEF Inv, WalkInv, Stations
  <2>6. sdk.failure \in Codes \cup {"none"} /\ settled \in Codes \cup {"none", "resolved"}
    BY DEF Inv, Shared, ReceiverType
  <2> QED BY <2>1, <2>2, <2>3, <2>4, <2>5, <2>6 DEF TypeOK
<1> QED BY <1>1, Invariance, PTL

\* For every tree and every interleaving of edits, what
\* capturePackagedNativePatchInputsV1 resolves with is, directory by directory,
\* what was there at one instant.
THEOREM CaptureIsConsistent == Spec => []DirectoryAtOneInstant
<1>1. Inv => DirectoryAtOneInstant
  <2> SUFFICES ASSUME Inv, settled = "resolved", NEW d \in Dir
               PROVE  [f \in {f \in DOMAIN sdk.rows: In[f] = d} |-> sdk.rows[f]] \in past[d]
    BY DEF DirectoryAtOneInstant
  <2>1. child = "ok" /\ sdk.rows = rows
    BY DEF Inv, Settled
  <2>2. Captured(d) \in past[d]
    BY <2>1 DEF Inv, WalkInv, Walked
  <2> QED BY <2>1, <2>2 DEF Captured
<1> QED BY <1>1, Invariance, PTL

\* The SDK hands out all the rows the helper captured, after the helper exited
\* with success, or none.
THEOREM CaptureIsAtomic == Spec => []AllOrNothing
<1>1. Inv => AllOrNothing
  BY DEF Inv, Settled, AllOrNothing
<1> QED BY <1>1, Invariance, PTL

\* The promise settles only after the helper is gone.
THEOREM NoHelperLeft == Spec => []NoOrphan
<1>1. Inv => NoOrphan
  BY DEF Inv, Settled, NoOrphan
<1> QED BY <1>1, Invariance, PTL

\* check_response_budget, for all lengths of paths and data and all limits: a
\* refusal of the helper comes before its first frame.  The limits of frames, of
\* bytes and of the encoding never interrupt a response that has begun.
THEOREM BudgetSuffices == Spec => []RefusedBeforeOutput
<1>1. Inv => RefusedBeforeOutput
  BY DEF Inv, Counted, Silent, RefusedBeforeOutput
<1> QED BY <1>1, Invariance, PTL
===============================================================================
