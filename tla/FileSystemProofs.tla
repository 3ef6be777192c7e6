-------------------------- MODULE FileSystemProofs --------------------------
(***************************************************************************)
(* Proofs about FileSystem.                                                *)
(***************************************************************************)
EXTENDS FileSystem, WellFoundedInduction, TLAPS

-----------------------------------------------------------------------------
(* Induction over the natural numbers, stated for sets.                    *)

\* A nonempty set of natural numbers has a least element.
LEMMA LeastElement ==
  ASSUME NEW T \in SUBSET Nat, T # {}
  PROVE  \E x \in T : \A y \in T : x <= y
<1>1. IsWellFoundedOn(OpToRel(<, Nat), Nat)
  BY NatLessThanWellFounded
<1>2. PICK x \in T : \A y \in T : ~ (<<y, x>> \in OpToRel(<, Nat))
  BY <1>1, WFMin
<1>3. ASSUME NEW y \in T PROVE x <= y
  <2>1. ~ (<<y, x>> \in OpToRel(<, Nat))
    BY <1>2
  <2>2. ~ (y < x)
    BY <2>1 DEF OpToRel
  <2>3. QED
    BY <2>2
<1>4. QED
  BY <1>3

LEMMA InductionLemma ==
  ASSUME NEW S, 0 \in S, \A n \in Nat : n \in S => n + 1 \in S
  PROVE  Nat \subseteq S
<1>1. SUFFICES ASSUME Nat \ S # {} PROVE FALSE
  OBVIOUS
<1>2. PICK x \in Nat \ S : \A y \in Nat \ S : x <= y
  BY <1>1, LeastElement
<1>3. x - 1 \in Nat /\ x - 1 \in S
  BY <1>2
<1>4. QED
  BY <1>2, <1>3

\* A function given by its first value and a step from each value to the next.
LEMMA RecursionLemma ==
  ASSUME NEW N \in Nat, NEW S, NEW start \in S, NEW step \in [1 .. N -> [S -> S]]
  PROVE  \E f \in [0 .. N -> S] :
           f[0] = start /\ \A n \in 1 .. N : f[n] = step[n][f[n - 1]]
<1> DEFINE Grows(f, n) == f[0] = start /\ \A k \in 1 .. n : f[k] = step[k][f[k - 1]]
           Reached == {n \in Nat : n <= N => \E f \in [0 .. n -> S] : Grows(f, n)}
<1>1. 0 \in Reached
  <2>1. [k \in 0 .. 0 |-> start] \in [0 .. 0 -> S] /\ Grows([k \in 0 .. 0 |-> start], 0)
    OBVIOUS
  <2>2. QED
    BY <2>1
<1>2. ASSUME NEW n \in Nat, n \in Reached PROVE n + 1 \in Reached
  <2>1. SUFFICES ASSUME n + 1 <= N PROVE \E f \in [0 .. n + 1 -> S] : Grows(f, n + 1)
    OBVIOUS
  <2>2. PICK f \in [0 .. n -> S] : Grows(f, n)
    BY <1>2, <2>1
  <2> DEFINE g == [k \in 0 .. n + 1 |-> IF k = n + 1 THEN step[n + 1][f[n]] ELSE f[k]]
  <2>3. step[n + 1] \in [S -> S] /\ f[n] \in S
    BY <2>1
  <2>4. g \in [0 .. n + 1 -> S]
    BY <2>3
  <2>5. ASSUME NEW k \in 1 .. n + 1 PROVE g[k] = step[k][g[k - 1]]
    <3>1. CASE k = n + 1
      BY <3>1
    <3>2. CASE k # n + 1
      BY <2>2, <3>2
    <3>3. QED
      BY <3>1, <3>2
  <2>6. g[0] = start
    BY <2>2
  <2>7. QED
    BY <2>4, <2>5, <2>6
<1>3. N \in Reached
  <2> HIDE DEF Reached
  <2>1. QED
    BY <1>1, <1>2, InductionLemma
<1>4. QED
  BY <1>3

-----------------------------------------------------------------------------
(* The steps the invariants are about: those of a session, whatever paths  *)
(* and texts its calls are given.  Paths and Contents are a user's;        *)
(* version control has its own.                                            *)

AnyPath == {path \in PathType : path.comps # <<>>}
AnyText == {data \in Seq(Text) : Len(data) <= MAX_BLOCKS_PER_INODE * ENTRIES_PER_BLOCK}

CommandOf(texts) == \E path \in AnyPath :
  \/ handle_create(path) \/ handle_delete(path) \/ handle_cd(path)
  \/ WriteRefused(path) \/ \E data \in texts : Write(path, data)
AnyCommand == CommandOf(AnyText)
AnySession == AnyCommand \/ Step
AnyNext == AnySession \/ Restart \/ Crash

LEMMA AnyLemma ==
  /\ Contents \in SUBSET AnyText
  /\ SessionNext => CommandOf(Contents) \/ Step
  /\ SessionNext => AnySession
  /\ Next => AnyNext
<1>1. Paths \subseteq AnyPath /\ Contents \subseteq AnyText
  BY InputsAssumption DEF AnyPath, AnyText
<1>2. Command => CommandOf(Contents)
  BY <1>1 DEF Command, CommandOf, handle_write
<1>3. CommandOf(Contents) => AnyCommand
  BY <1>1 DEF CommandOf, AnyCommand
<1>4. QED
  BY <1>1, <1>2, <1>3 DEF SessionNext, AnySession, Next, AnyNext

-----------------------------------------------------------------------------
(* Type correctness.                                                       *)

\* What the running call knows of its own progress.
CallOK ==
  /\ Len(arg.data) <= MAX_BLOCKS_PER_INODE * ENTRIES_PER_BLOCK
  /\ pc = "attach" => new \in Blocks /\ ~DirFull
  /\ pc = "put" => new \in Blocks /\ MoreBlocksNeeded

TypeInv == TypeOK /\ CallOK

LEMMA SizesLemma ==
  /\ MAX_INODES \in Nat \ {0} /\ MAX_BLOCKS_PER_INODE \in Nat \ {0}
  /\ ENTRIES_PER_BLOCK \in Nat \ {0}
  /\ TOTAL_BLOCKS \in Nat /\ FIRST_DATA_BLOCK \in 1 .. TOTAL_BLOCKS
  /\ SPLIT_INODE \in Inodes /\ SPLIT_BLOCKS \in 0 .. MAX_BLOCKS_PER_INODE
  /\ 0 \in Inodes /\ 0 \in Blocks /\ 1 \in Slots
BY SizesAssumption, BlocksAssumption DEF Inodes, Blocks, Slots

LEMMA InodeLemma ==
  /\ UnusedInode \in Inode
  /\ \A type \in {FILE_TYPE, DIR_TYPE}, d \in Inodes : NewInode(type, d) \in Inode
<1>1. UnusedInode \in Inode
  BY SizesLemma DEF UnusedInode, Inode
<1>2. ASSUME NEW type \in {FILE_TYPE, DIR_TYPE}, NEW d \in Inodes
      PROVE  NewInode(type, d) \in Inode
  BY <1>1 DEF NewInode, Inode
<1>3. QED
  BY <1>1, <1>2

LEMMA ResizeLemma ==
  ASSUME NEW r \in Inode, NEW count \in 0 .. MAX_BLOCKS_PER_INODE, NEW size \in Nat
  PROVE  [r EXCEPT !.block_count = count, !.file_size = size] \in Inode
BY DEF Inode

LEMMA GrowLemma ==
  ASSUME NEW r \in Inode, NEW n \in 1 .. MAX_BLOCKS_PER_INODE, NEW b \in Blocks
  PROVE  [r EXCEPT !.blocks[n] = b, !.block_count = n] \in Inode
<1>1. n \in 0 .. MAX_BLOCKS_PER_INODE
  BY SizesLemma
<1>2. [r EXCEPT !.blocks[n] = b] \in Inode
  BY DEF Inode
<1>3. [[r EXCEPT !.blocks[n] = b] EXCEPT !.block_count = n] \in Inode
  BY <1>1, <1>2 DEF Inode
<1>4. QED
  BY <1>3

LEMMA NoArgLemma == NoArg \in Arguments /\ Len(NoArg.data) = 0
BY SizesLemma DEF NoArg, Arguments, Components

LEMMA BlockLemma ==
  /\ EmptyBlock \in [Slots -> DirEntry]
  /\ \A name \in Components, i \in Inodes : [name |-> name, inode_index |-> i] \in DirEntry
  /\ \A data \in Seq(Text), n \in Nat \ {0} : Chunk(data, n) \in [Slots -> DirEntry]
<1>1. EmptySlot \in DirEntry /\ \A t \in Text : TextSlot(t) \in DirEntry
  BY SizesLemma, TextAssumption DEF EmptySlot, TextSlot, DirEntry, Components
<1>2. ASSUME NEW data \in Seq(Text), NEW n \in Nat \ {0}
      PROVE  Chunk(data, n) \in [Slots -> DirEntry]
  <2>1. (n - 1) * ENTRIES_PER_BLOCK \in Nat
    BY SizesLemma
  <2>2. ASSUME NEW s \in Slots, (n - 1) * ENTRIES_PER_BLOCK + s <= Len(data)
        PROVE  data[(n - 1) * ENTRIES_PER_BLOCK + s] \in Text
    BY <2>1, <2>2 DEF Slots
  <2>3. QED
    BY <1>1, <2>2 DEF Chunk
<1>3. QED
  BY <1>1, <1>2 DEF EmptyBlock, DirEntry

LEMMA InitTypeInv == Init => TypeInv
<1> SUFFICES ASSUME Init PROVE TypeInv
  OBVIOUS
<1> USE DEF Init
<1>1. inode_table \in [Inodes -> Inode] /\ table \in [Inodes -> Inode]
  BY SizesLemma, InodeLemma
<1>2. cwd_inode \in Inodes /\ turn \in 0 .. MAX_BLOCKS_PER_INODE
  BY SizesLemma
<1>3. bitmap \in SUBSET Blocks
  BY SizesLemma DEF AllocatorInit, MetadataBits, Blocks
<1>4. block \in [Blocks -> [Slots -> DirEntry]]
  BY BlockLemma
<1>5. CallOK
  BY SizesLemma, NoArgLemma DEF CallOK
<1>6. QED
  BY <1>1, <1>2, <1>3, <1>4, <1>5, NoArgLemma DEF TypeInv, TypeOK

\* The facts of TypeInv in the form the steps below use.
LEMMA TypeFacts ==
  TypeInv => /\ inode_table \in [Inodes -> Inode] /\ table \in [Inodes -> Inode]
             /\ block \in [Blocks -> [Slots -> DirEntry]] /\ bitmap \subseteq Blocks
             /\ arg.ino \in Inodes /\ arg.dir \in Inodes /\ arg.name \in Components
             /\ arg.data \in Seq(Text) /\ Len(arg.data) \in Nat
             /\ turn \in 0 .. MAX_BLOCKS_PER_INODE
BY DEF TypeInv, TypeOK, Arguments

LEMMA ReturnLemma ==
  ASSUME NEW rc \in {0, -1}, Return(rc)
  PROVE  /\ pc' \in {"idle"} /\ arg' \in Arguments /\ turn' \in 0 .. MAX_BLOCKS_PER_INODE
         /\ new' \in Blocks \union {NoBlock} /\ ret' \in {0, -1}
         /\ CallOK'
BY SizesLemma, NoArgLemma DEF Return, CallOK

LEMMA ProductLemma ==
  ASSUME NEW m \in Nat, NEW n \in Nat, NEW e \in Nat
  PROVE  m * e \in Nat /\ (m >= n => m * e >= n * e)
OBVIOUS

LEMMA CapacityLemma == MAX_BLOCKS_PER_INODE * ENTRIES_PER_BLOCK \in Nat
BY SizesLemma, ProductLemma

\* A turn of the loop of fs_write stays inside the inode's block array.
LEMMA TurnLemma ==
  ASSUME TypeInv, MoreBlocksNeeded
  PROVE  turn < MAX_BLOCKS_PER_INODE /\ turn + 1 \in 1 .. MAX_BLOCKS_PER_INODE
<1>1. Len(arg.data) \in Nat /\ Len(arg.data) <= MAX_BLOCKS_PER_INODE * ENTRIES_PER_BLOCK
  BY SizesLemma, TypeFacts DEF TypeInv, CallOK
<1>2. turn \in Nat /\ turn * ENTRIES_PER_BLOCK < Len(arg.data)
  BY SizesLemma DEF TypeInv, TypeOK, MoreBlocksNeeded
<1>3. ASSUME turn >= MAX_BLOCKS_PER_INODE
      PROVE  turn * ENTRIES_PER_BLOCK >= MAX_BLOCKS_PER_INODE * ENTRIES_PER_BLOCK
  BY <1>2, <1>3, SizesLemma, ProductLemma
<1>4. /\ turn * ENTRIES_PER_BLOCK \in Nat
      /\ MAX_BLOCKS_PER_INODE * ENTRIES_PER_BLOCK \in Nat
  BY <1>2, SizesLemma, ProductLemma
<1>5. turn < MAX_BLOCKS_PER_INODE
  BY <1>1, <1>2, <1>3, <1>4, SizesLemma
<1>6. QED
  BY <1>2, <1>5, SizesLemma

\* Nor does a turn of the loop of free_inode_blocks leave it.
LEMMA TurnInArray ==
  ASSUME TypeInv, FreeBlock
  PROVE  /\ turn + 1 \in 1 .. inode_table[arg.ino].block_count
         /\ turn + 1 \in 1 .. MAX_BLOCKS_PER_INODE
<1>1. inode_table[arg.ino].block_count \in 0 .. MAX_BLOCKS_PER_INODE
  BY TypeFacts DEF Inode
<1>2. turn \in Nat /\ turn < inode_table[arg.ino].block_count
  BY SizesLemma, TypeFacts DEF FreeBlock
<1>3. QED
  BY <1>1, <1>2, SizesLemma

\* Nor does the block that a directory is given.
LEMMA AttachInArray ==
  ASSUME TypeInv, AttachBlock
  PROVE  new \in Blocks /\ inode_table[arg.dir].block_count + 1 \in 1 .. MAX_BLOCKS_PER_INODE
<1>1. inode_table[arg.dir].block_count \in 0 .. MAX_BLOCKS_PER_INODE
  BY TypeFacts DEF Inode
<1>2. new \in Blocks /\ ~(inode_table[arg.dir].block_count >= MAX_BLOCKS_PER_INODE)
  BY DEF AttachBlock, TypeInv, CallOK, DirFull
<1>3. QED
  BY <1>1, <1>2, SizesLemma

\* Writing one slot of an inode's blocks.
LEMMA SetSlotLemma ==
  ASSUME TypeInv, NEW d \in Inodes, NEW p \in Positions(d), NEW slot \in DirEntry,
         SetSlot(d, p, slot)
  PROVE  block' \in [Blocks -> [Slots -> DirEntry]]
<1>1. inode_table[d] \in Inode
  BY TypeFacts
<1>2. p[1] \in 1 .. MAX_BLOCKS_PER_INODE /\ p[2] \in Slots
  BY <1>1, SizesLemma DEF Positions, Inode
<1>3. inode_table[d].blocks[p[1]] \in Blocks
  BY <1>1, <1>2 DEF Inode
<1>4. QED
  BY <1>2, <1>3, TypeFacts DEF SetSlot

LEMMA StepTypeInv == TypeInv /\ [AnyNext]_vars => TypeInv'
<1> SUFFICES ASSUME TypeInv, [AnyNext]_vars PROVE TypeInv'
  OBVIOUS
<1>0. /\ inode_table \in [Inodes -> Inode] /\ table \in [Inodes -> Inode]
      /\ block \in [Blocks -> [Slots -> DirEntry]]
      /\ arg.ino \in Inodes /\ arg.dir \in Inodes
  BY TypeFacts
<1>n. MAX_BLOCKS_PER_INODE \in Nat \ {0} /\ 0 \in Inodes /\ 0 \in Blocks
  BY SizesLemma
<1>1. ASSUME NEW path \in AnyPath, CreateRefused(path) \/ DeleteRefused(path) \/ WriteRefused(path)
      PROVE  TypeInv'
  BY <1>1, ReturnLemma
     DEF CreateRefused, DeleteRefused, WriteRefused, TypeInv, TypeOK
<1>2. ASSUME NEW path \in AnyPath, NEW type \in {FILE_TYPE, DIR_TYPE}, Create(path, type)
      PROVE  TypeInv'
  <2>1. Last(path.comps) \in Components
    BY DEF AnyPath, PathType, Last
  <2>2. PICK d \in Inodes, i \in Inodes :
          /\ inode_table' = [inode_table EXCEPT ![i] = NewInode(type, d)]
          /\ arg' = [NoArg EXCEPT !.op = "create", !.ino = i, !.dir = d, !.name = Last(path.comps)]
    BY <1>2 DEF Create
  <2>3. arg' \in Arguments /\ Len(arg'.data) = 0
    BY <2>1, <2>2, NoArgLemma DEF Arguments, NoArg
  <2>4. inode_table' \in [Inodes -> Inode]
    BY <1>0, <2>2, InodeLemma
  <2>5. CallOK'
    BY <1>2, <2>3, CapacityLemma DEF Create, CallOK
  <2>6. QED
    BY <1>2, <2>3, <2>4, <2>5 DEF Create, TypeInv, TypeOK
<1>3. ASSUME NEW path \in AnyPath, Delete(path)
      PROVE  TypeInv'
  <2>1. PICK i \in Inodes \ {0} :
          LET parent == inode_table[i].parent_inode IN
          /\ \E p \in EntriesOf(parent, i) : SetSlot(parent, p, Cleared(SlotAt(parent, p)))
          /\ arg' = [NoArg EXCEPT !.op = "delete", !.ino = i]
    BY <1>3 DEF Delete
  <2>2. arg' \in Arguments /\ Len(arg'.data) = 0
    BY <2>1, NoArgLemma DEF Arguments, NoArg
  <2>3. inode_table[i].parent_inode \in Inodes
    BY TypeFacts DEF Inode
  <2>4. PICK p \in Positions(inode_table[i].parent_inode) :
          SetSlot(inode_table[i].parent_inode, p, EmptySlot)
    BY <2>1 DEF EntriesOf, Cleared
  <2>8. EmptySlot \in DirEntry
    BY <1>n DEF EmptySlot, DirEntry, Components
  <2>5. block' \in [Blocks -> [Slots -> DirEntry]]
    BY <2>3, <2>4, <2>8, SetSlotLemma
  <2>6. CallOK'
    BY <1>3, <2>2, CapacityLemma DEF Delete, CallOK
  <2>7. QED
    BY <1>3, <2>2, <2>5, <2>6 DEF Delete, TypeInv, TypeOK
<1>4. ASSUME NEW path \in AnyPath, NEW data \in AnyText, Write(path, data)
      PROVE  TypeInv'
  <2>1. data \in Seq(Text) /\ Len(data) <= MAX_BLOCKS_PER_INODE * ENTRIES_PER_BLOCK
    BY DEF AnyText
  <2>2. PICK i \in Inodes : arg' = [NoArg EXCEPT !.op = "write", !.ino = i, !.data = data]
    BY <1>4 DEF Write
  <2>3. arg' \in Arguments /\ arg'.data = data
    BY <2>1, <2>2, NoArgLemma DEF Arguments, NoArg
  <2>4. CallOK'
    BY <1>4, <2>1, <2>3 DEF Write, CallOK
  <2>5. QED
    BY <1>4, <2>3, <2>4 DEF Write, TypeInv, TypeOK
<1>5. ASSUME NEW path \in AnyPath, handle_cd(path)
      PROVE  TypeInv'
  <2>1. cwd_inode' \in Inodes /\ ret' \in {0, -1}
    BY <1>5 DEF handle_cd, CdTarget, TypeInv, TypeOK
  <2>2. QED
    BY <1>5, <2>1 DEF handle_cd, disk, TypeInv, TypeOK, CallOK
<1>6. CASE InsertEntry
  <2>1. PICK p \in Positions(arg.dir) :
          SetSlot(arg.dir, p, [name |-> arg.name, inode_index |-> arg.ino])
    BY <1>6 DEF InsertEntry, FreeSlots
  <2>2. block' \in [Blocks -> [Slots -> DirEntry]]
    BY <2>1, SetSlotLemma, TypeFacts, BlockLemma
  <2>3. QED
    BY <1>6, <2>2 DEF InsertEntry, TypeInv, TypeOK, CallOK
<1>7. CASE InsertAlloc
  <2>1. bitmap' \in SUBSET Blocks /\ new' \in Blocks
    BY <1>7 DEF InsertAlloc, alloc_block, TypeInv, TypeOK
  <2>2. QED
    BY <1>7, <2>1 DEF InsertAlloc, TypeInv, TypeOK, CallOK, DirFull
<1>8. CASE AttachBlock
  <2> DEFINE count == inode_table[arg.dir].block_count
  <2>1. new \in Blocks /\ count + 1 \in 1 .. MAX_BLOCKS_PER_INODE
    BY <1>8, AttachInArray
  <2>2. inode_table' \in [Inodes -> Inode]
    <3>1. [inode_table[arg.dir] EXCEPT !.blocks[count + 1] = new, !.block_count = count + 1]
            \in Inode
      BY <1>0, <2>1, GrowLemma
    <3>2. inode_table' = [inode_table EXCEPT ![arg.dir].blocks[count + 1] = new,
                                             ![arg.dir].block_count = count + 1]
      BY <1>8 DEF AttachBlock
    <3>3. QED
      BY <1>0, <3>1, <3>2
  <2>3. block' \in [Blocks -> [Slots -> DirEntry]]
    BY <1>0, <1>8, <2>1, BlockLemma, SizesLemma, TypeFacts DEF AttachBlock
  <2>4. QED
    BY <1>8, <2>2, <2>3 DEF AttachBlock, TypeInv, TypeOK, CallOK
<1>9. CASE InsertFailed
  <2>1. inode_table' \in [Inodes -> Inode]
    BY <1>9, <1>0 DEF InsertFailed, Inode
  <2>2. QED
    BY <1>9, <2>1, ReturnLemma DEF InsertFailed, TypeInv, TypeOK
<1>10. CASE FreeBlock
  <2>1. turn + 1 \in 1 .. MAX_BLOCKS_PER_INODE
    BY <1>10, TurnInArray
  <2>2. inode_table' \in [Inodes -> Inode]
    BY <1>n, <1>10, <2>1, <1>0 DEF FreeBlock, Inode
  <2>3. bitmap' \in SUBSET Blocks
    BY <1>10 DEF FreeBlock, free_block, TypeInv, TypeOK
  <2>4. QED
    BY <1>10, <2>1, <2>2, <2>3 DEF FreeBlock, NextTurn, TypeInv, TypeOK, CallOK
<1>11. CASE FreeDone
  <2>1. inode_table' \in [Inodes -> Inode]
    <3>1. 0 \in 0 .. MAX_BLOCKS_PER_INODE
      BY <1>n
    <3>2. inode_table[arg.ino] \in Inode
      BY <1>0
    <3>3. PICK used \in BOOLEAN :
            inode_table' = [inode_table EXCEPT ![arg.ino].block_count = 0,
                                               ![arg.ino].file_size = 0,
                                               ![arg.ino].used = used]
      BY <1>11, <3>2 DEF FreeDone, Inode
    <3>4. [inode_table[arg.ino] EXCEPT !.block_count = 0, !.file_size = 0, !.used = used]
            \in Inode
      BY <3>1, <3>2 DEF Inode
    <3>5. QED
      BY <1>0, <3>3, <3>4
  <2>2. QED
    BY <1>n, <1>11, <2>1 DEF FreeDone, AfterFree, TypeInv, TypeOK, CallOK
<1>12. CASE WriteAlloc
  <2>1. bitmap' \in SUBSET Blocks /\ new' \in Blocks
    BY <1>12 DEF WriteAlloc, alloc_block, TypeInv, TypeOK
  <2>2. QED
    BY <1>12, <2>1 DEF WriteAlloc, TypeInv, TypeOK, CallOK, MoreBlocksNeeded
<1>13. CASE WriteBlock
  <2>1. new \in Blocks /\ turn + 1 \in 1 .. MAX_BLOCKS_PER_INODE
    BY <1>13, TurnLemma DEF WriteBlock, TypeInv, CallOK
  <2>2. inode_table' \in [Inodes -> Inode]
    BY <1>13, <2>1, <1>0 DEF WriteBlock, Inode
  <2>4. Chunk(arg.data, turn + 1) \in [Slots -> DirEntry]
    BY <2>1, TypeFacts, BlockLemma, SizesLemma
  <2>3. block' \in [Blocks -> [Slots -> DirEntry]]
    BY <1>0, <1>13, <2>1, <2>4 DEF WriteBlock
  <2>5. QED
    BY <1>13, <2>1, <2>2, <2>3 DEF WriteBlock, TypeInv, TypeOK, CallOK
<1>14. CASE WriteFailed
  BY <1>14, ReturnLemma DEF WriteFailed, TypeInv, TypeOK
<1>15. CASE WriteDone
  <2>1. inode_table' \in [Inodes -> Inode]
    <3>1. turn \in 0 .. MAX_BLOCKS_PER_INODE /\ Len(arg.data) \in Nat
      BY TypeFacts
    <3>2. inode_table' = [inode_table EXCEPT ![arg.ino].block_count = turn,
                                             ![arg.ino].file_size = Len(arg.data)]
      BY <1>15 DEF WriteDone
    <3>3. [inode_table[arg.ino] EXCEPT !.block_count = turn,
                                       !.file_size = Len(arg.data)] \in Inode
      BY <1>0, <3>1, ResizeLemma
    <3>4. QED
      BY <1>0, <3>2, <3>3
  <2>2. QED
    BY <1>n, <1>15, <2>1 DEF WriteDone, TypeInv, TypeOK, CallOK
<1>16. CASE save_inode_table
  <2>1. ASSUME NEW i \in Inodes PROVE FirstPart(i) \in Inode
    <3>1. inode_table[i] \in Inode /\ table[i] \in Inode
      BY <1>0
    <3>2. CASE i # SPLIT_INODE
      BY <3>1, <3>2, SizesLemma DEF FirstPart, Inodes
    <3>3. CASE i = SPLIT_INODE
      BY <3>1, <3>3, SizesLemma DEF FirstPart, Inodes, Inode
    <3>4. QED
      BY <3>2, <3>3
  <2>2. QED
    BY <1>16, <2>1 DEF save_inode_table, TypeInv, TypeOK, CallOK
<1>17. CASE FlushTable
  BY <1>17, ReturnLemma DEF FlushTable, TypeInv, TypeOK
<1>18. CASE Restart \/ Crash
  BY <1>n, <1>18, ReturnLemma DEF Restart, Crash, Mount, disk, TypeInv, TypeOK
<1>19. CASE UNCHANGED vars
  BY <1>19 DEF vars, TypeInv, TypeOK, CallOK, DirFull, MoreBlocksNeeded
<1>20. QED
  BY <1>1, <1>2, <1>3, <1>4, <1>5, <1>6, <1>7, <1>8, <1>9, <1>10, <1>11, <1>12, <1>13,
     <1>14, <1>15, <1>16, <1>17, <1>18, <1>19
  DEF AnyNext, AnySession, AnyCommand, CommandOf, Step, handle_create, handle_delete

\* Every reachable state is well typed, with restarts and crashes.
THEOREM TypeCorrect == Spec => []TypeOK
<1>1. Init => TypeInv
  BY InitTypeInv
<1>2. TypeInv /\ [Next]_vars => TypeInv'
  BY StepTypeInv, AnyLemma
<1>3. TypeInv => TypeOK
  BY DEF TypeInv
<1>4. QED
  BY <1>1, <1>2, <1>3, PTL DEF Spec

-----------------------------------------------------------------------------
(* The root directory.                                                     *)

\* A created or deleted inode is never the root: the first is unused, and
\* fs_delete refuses inode 0.
RootInv ==
  /\ RootIntact
  /\ pc \in {"insert", "attach"} => arg.ino # 0
  /\ arg.op = "delete" => arg.ino # 0

IsRoot(r) == r.used /\ r.type = DIR_TYPE /\ r.parent_inode = 0

LEMMA RootFacts ==
  TypeInv => (RootIntact <=> IsRoot(inode_table[0]) /\ IsRoot(table[0]))
BY DEF RootIntact, IsRoot

LEMMA InitRootInv == Init => RootInv
<1> SUFFICES ASSUME Init PROVE RootInv
  OBVIOUS
<1>1. inode_table[0] = NewInode(DIR_TYPE, 0) /\ table = inode_table
  BY SizesLemma DEF Init
<1>2. RootIntact
  BY <1>1 DEF RootIntact, NewInode, UnusedInode
<1>3. QED
  BY <1>2 DEF Init, RootInv, NoArg

LEMMA StepRootInv == TypeInv /\ RootInv /\ [AnyNext]_vars => RootInv'
<1> SUFFICES ASSUME TypeInv, RootInv, [AnyNext]_vars PROVE RootInv'
  OBVIOUS
<1>0. /\ inode_table \in [Inodes -> Inode] /\ table \in [Inodes -> Inode]
      /\ arg.ino \in Inodes /\ arg.dir \in Inodes /\ 0 \in Inodes
      /\ inode_table[0] \in Inode
  BY TypeFacts, SizesLemma
<1>r. IsRoot(inode_table[0]) /\ IsRoot(table[0])
  BY DEF RootInv, RootIntact, IsRoot
<1>1. ASSUME IsRoot(inode_table'[0]), IsRoot(table'[0]) PROVE RootIntact'
  BY <1>1 DEF RootIntact, IsRoot
<1>2. ASSUME NEW path \in AnyPath, CreateRefused(path) \/ DeleteRefused(path) \/ WriteRefused(path)
      PROVE  RootInv'
  <2>1. Return(-1) /\ UNCHANGED <<inode_table, table>>
    BY <1>2 DEF CreateRefused, DeleteRefused, WriteRefused
  <2>2. QED
    BY <2>1, <1>1, <1>r DEF Return, NoArg, RootInv
<1>3. ASSUME NEW path \in AnyPath, NEW type \in {FILE_TYPE, DIR_TYPE}, Create(path, type)
      PROVE  RootInv'
  <2>1. PICK d \in Inodes, i \in UnusedInodes :
          /\ inode_table' = [inode_table EXCEPT ![i] = NewInode(type, d)]
          /\ arg' = [NoArg EXCEPT !.op = "create", !.ino = i, !.dir = d, !.name = Last(path.comps)]
    BY <1>3 DEF Create, IsFirst
  <2>2. i # 0
    BY <1>r, <2>1 DEF UnusedInodes, IsRoot
  <2>3. arg'.op = "create" /\ arg'.ino = i
    BY <2>1 DEF NoArg
  <2>4. inode_table'[0] = inode_table[0] /\ table' = table
    BY <1>0, <1>3, <2>1, <2>2 DEF Create
  <2>5. QED
    BY <1>1, <1>r, <2>2, <2>3, <2>4 DEF RootInv
<1>4. ASSUME NEW path \in AnyPath, Delete(path)
      PROVE  RootInv'
  <2>1. arg'.ino # 0 /\ UNCHANGED <<inode_table, table>>
    BY <1>4 DEF Delete, NoArg
  <2>2. QED
    BY <1>1, <1>r, <2>1 DEF RootInv
<1>5. ASSUME NEW path \in AnyPath, NEW data \in AnyText, Write(path, data)
      PROVE  RootInv'
  <2>1. arg'.op = "write" /\ pc' = "free" /\ UNCHANGED <<inode_table, table>>
    BY <1>5 DEF Write, NoArg
  <2>2. QED
    BY <1>1, <1>r, <2>1 DEF RootInv
<1>6. ASSUME NEW path \in AnyPath, handle_cd(path)
      PROVE  RootInv'
  BY <1>6, <1>1, <1>r DEF handle_cd, disk, RootInv
<1>7. CASE InsertEntry
  BY <1>7, <1>1, <1>r DEF InsertEntry, RootInv
<1>8. CASE InsertAlloc
  BY <1>8, <1>1, <1>r DEF InsertAlloc, RootInv
<1>9. CASE AttachBlock
  <2>1. IsRoot(inode_table'[0])
    BY <1>0, <1>9, <1>r DEF AttachBlock, IsRoot, Inode
  <2>2. QED
    BY <2>1, <1>9, <1>1, <1>r DEF AttachBlock, RootInv
<1>10. CASE InsertFailed
  <2>1. IsRoot(inode_table'[0])
    BY <1>0, <1>10, <1>r DEF InsertFailed, RootInv, IsRoot, Inode
  <2>2. QED
    BY <2>1, <1>10, <1>1, <1>r DEF InsertFailed, Return, NoArg, RootInv
<1>11. CASE FreeBlock
  <2>1. IsRoot(inode_table'[0])
    BY <1>0, <1>11, <1>r DEF FreeBlock, IsRoot, Inode
  <2>2. QED
    BY <2>1, <1>11, <1>1, <1>r DEF FreeBlock, RootInv
<1>12. CASE FreeDone
  <2>1. IsRoot(inode_table'[0])
    BY <1>0, <1>12, <1>r DEF FreeDone, RootInv, IsRoot, Inode
  <2>2. QED
    BY <2>1, <1>12, <1>1, <1>r DEF FreeDone, AfterFree, RootInv
<1>13. CASE WriteAlloc
  BY <1>13, <1>1, <1>r DEF WriteAlloc, RootInv
<1>14. CASE WriteBlock
  <2>1. IsRoot(inode_table'[0])
    BY <1>0, <1>14, <1>r DEF WriteBlock, IsRoot, Inode
  <2>2. QED
    BY <2>1, <1>14, <1>1, <1>r DEF WriteBlock, RootInv
<1>15. CASE WriteFailed
  BY <1>15, <1>1, <1>r DEF WriteFailed, Return, NoArg, RootInv
<1>16. CASE WriteDone
  <2>1. IsRoot(inode_table'[0])
    BY <1>0, <1>16, <1>r DEF WriteDone, IsRoot, Inode
  <2>2. QED
    BY <2>1, <1>16, <1>1, <1>r DEF WriteDone, RootInv
<1>17. CASE save_inode_table
  <2>1. IsRoot(FirstPart(0))
    BY <1>0, <1>r, SizesLemma DEF FirstPart, IsRoot, Inode, Inodes
  <2>2. IsRoot(table'[0])
    BY <1>0, <1>17, <2>1 DEF save_inode_table
  <2>3. QED
    BY <2>2, <1>17, <1>1, <1>r DEF save_inode_table, RootInv
<1>18. CASE FlushTable
  BY <1>18, <1>1, <1>r DEF FlushTable, Return, NoArg, RootInv
<1>19. CASE Restart \/ Crash
  <2>1. Return(0) /\ table' = table /\ inode_table' = table
    BY <1>19 DEF Restart, Crash, Mount, disk
  <2>2. QED
    BY <2>1, <1>1, <1>r DEF Return, NoArg, RootInv
<1>20. CASE UNCHANGED vars
  BY <1>20, <1>1, <1>r DEF vars, RootInv
<1>21. QED
  BY <1>2, <1>3, <1>4, <1>5, <1>6, <1>7, <1>8, <1>9, <1>10, <1>11, <1>12, <1>13,
     <1>14, <1>15, <1>16, <1>17, <1>18, <1>19, <1>20
  DEF AnyNext, AnySession, AnyCommand, CommandOf, Step, handle_create, handle_delete

\* Whatever the program has run and wherever it has died, inode 0 is the root
\* directory, in memory and on disk.
THEOREM RootAlwaysIntact == Spec => []RootIntact
<1>1. Init => TypeInv /\ RootInv
  BY InitTypeInv, InitRootInv
<1>2. TypeInv /\ RootInv /\ [Next]_vars => TypeInv' /\ RootInv'
  BY StepTypeInv, StepRootInv, AnyLemma
<1>3. RootInv => RootIntact
  BY DEF RootInv
<1>4. QED
  BY <1>1, <1>2, <1>3, PTL DEF Spec

-----------------------------------------------------------------------------
(* The metadata blocks.                                                    *)

\* Also the entries of the arrays above block_count stay outside the metadata: a
\* save that was cut off can bring them back below it.
Outside(t) == \A i \in Inodes : \A k \in 1 .. MAX_BLOCKS_PER_INODE : OutsideMetadata(t[i].blocks[k])
Reserved == \A b \in Blocks : OutsideMetadata(b) \/ b \in bitmap
MetadataInv == Reserved /\ Outside(inode_table) /\ Outside(table) /\ (new \in Blocks => OutsideMetadata(new))

LEMMA MetadataInvImplies == TypeInv /\ MetadataInv => MetadataProtected
<1> SUFFICES ASSUME TypeInv, MetadataInv,
                    NEW t \in {inode_table, table}, NEW i \in Inodes,
                    NEW k \in 1 .. t[i].block_count
             PROVE  OutsideMetadata(t[i].blocks[k])
  BY DEF MetadataInv, Reserved, MetadataProtected
<1>1. t[i] \in Inode
  BY TypeFacts
<1>2. k \in 1 .. MAX_BLOCKS_PER_INODE
  BY <1>1, SizesLemma DEF Inode
<1>3. QED
  BY <1>2 DEF MetadataInv, Outside

LEMMA InitMetadataInv == Init => MetadataInv
<1> SUFFICES ASSUME Init PROVE MetadataInv
  OBVIOUS
<1>1. Reserved
  BY SizesLemma DEF Init, AllocatorInit, MetadataBits, Reserved, OutsideMetadata, Blocks
<1>2. ASSUME NEW i \in Inodes, NEW k \in 1 .. MAX_BLOCKS_PER_INODE
      PROVE  inode_table[i].blocks[k] = 0
  BY SizesLemma DEF Init, NewInode, UnusedInode
<1>3. Outside(inode_table) /\ Outside(table)
  BY <1>2 DEF Init, Outside, OutsideMetadata, SUPERBLOCK_BLOCK
<1>4. new \notin Blocks
  BY DEF Init, NoBlock, Blocks
<1>5. QED
  BY <1>1, <1>3, <1>4 DEF MetadataInv

\* What alloc_block hands out is outside the metadata, and alloc_block and
\* free_block leave the bits of the metadata set.
LEMMA AllocOutside ==
  ASSUME Reserved, NEW b \in Blocks, alloc_block(b)
  PROVE  Reserved' /\ OutsideMetadata(b)
BY DEF Reserved, alloc_block, IsFirst, FreeBlocks, OutsideMetadata

LEMMA FreeOutside ==
  ASSUME Reserved, NEW b \in Blocks, OutsideMetadata(b), free_block(b)
  PROVE  Reserved'
BY DEF Reserved, free_block, OutsideMetadata

LEMMA SetEntryLemma ==
  ASSUME inode_table \in [Inodes -> Inode], NEW i \in Inodes,
         NEW k \in 1 .. MAX_BLOCKS_PER_INODE, NEW b \in Blocks,
         inode_table' = [inode_table EXCEPT ![i].blocks[k] = b]
  PROVE  \A j \in Inodes : inode_table'[j].blocks =
           IF j = i THEN [inode_table[j].blocks EXCEPT ![k] = b] ELSE inode_table[j].blocks
BY DEF Inode

\* One entry of one array is set.
LEMMA SetEntryOutside ==
  ASSUME TypeInv, Outside(inode_table), NEW i \in Inodes, NEW k \in 1 .. MAX_BLOCKS_PER_INODE,
         NEW b \in Blocks, OutsideMetadata(b),
         \A j \in Inodes : inode_table'[j].blocks =
           IF j = i THEN [inode_table[j].blocks EXCEPT ![k] = b] ELSE inode_table[j].blocks
  PROVE  Outside(inode_table')
<1> SUFFICES ASSUME NEW j \in Inodes, NEW l \in 1 .. MAX_BLOCKS_PER_INODE
             PROVE  OutsideMetadata(inode_table'[j].blocks[l])
  BY DEF Outside
<1>1. inode_table[j].blocks \in [1 .. MAX_BLOCKS_PER_INODE -> Blocks]
  BY TypeFacts DEF Inode
<1>2. QED
  BY <1>1 DEF Outside

\* The arrays are left alone.
LEMMA SameEntriesOutside ==
  ASSUME Outside(inode_table),
         \A j \in Inodes : inode_table'[j].blocks = inode_table[j].blocks
  PROVE  Outside(inode_table')
BY DEF Outside

LEMMA StepMetadataInv == TypeInv /\ MetadataInv /\ [AnyNext]_vars => MetadataInv'
<1> SUFFICES ASSUME TypeInv, MetadataInv, [AnyNext]_vars PROVE MetadataInv'
  OBVIOUS
<1>0. /\ inode_table \in [Inodes -> Inode] /\ table \in [Inodes -> Inode]
      /\ arg.ino \in Inodes /\ arg.dir \in Inodes
  BY TypeFacts
<1>n. MAX_BLOCKS_PER_INODE \in Nat \ {0} /\ 0 \in Inodes /\ 0 \in Blocks
  BY SizesLemma
<1>m. Reserved /\ Outside(inode_table) /\ Outside(table) /\ (new \in Blocks => OutsideMetadata(new))
  BY DEF MetadataInv
<1>b. ASSUME UNCHANGED bitmap PROVE Reserved'
  BY <1>b, <1>m DEF Reserved
<1>w. NoBlock \notin Blocks /\ OutsideMetadata(0)
  BY DEF NoBlock, Blocks, OutsideMetadata, SUPERBLOCK_BLOCK
<1>1. ASSUME NEW path \in AnyPath, CreateRefused(path) \/ DeleteRefused(path) \/ WriteRefused(path)
      PROVE  MetadataInv'
  BY <1>1, <1>b, <1>m, <1>w DEF CreateRefused, DeleteRefused, WriteRefused, Return, MetadataInv
<1>2. ASSUME NEW path \in AnyPath, NEW type \in {FILE_TYPE, DIR_TYPE}, Create(path, type)
      PROVE  MetadataInv'
  <2>1. PICK d \in Inodes, i \in Inodes : inode_table' = [inode_table EXCEPT ![i] = NewInode(type, d)]
    BY <1>2 DEF Create
  <2>2. \A k \in 1 .. MAX_BLOCKS_PER_INODE : NewInode(type, d).blocks[k] = 0
    BY DEF NewInode, UnusedInode
  <2>3. Outside(inode_table')
    BY <1>0, <1>m, <1>w, <2>1, <2>2 DEF Outside
  <2>4. QED
    BY <1>2, <1>b, <1>m, <2>3 DEF Create, MetadataInv
<1>3. ASSUME NEW path \in AnyPath, Delete(path)
      PROVE  MetadataInv'
  BY <1>3, <1>b, <1>m DEF Delete, MetadataInv
<1>4. ASSUME NEW path \in AnyPath, NEW data \in AnyText, Write(path, data)
      PROVE  MetadataInv'
  BY <1>4, <1>b, <1>m DEF Write, MetadataInv
<1>5. ASSUME NEW path \in AnyPath, handle_cd(path)
      PROVE  MetadataInv'
  BY <1>5, <1>b, <1>m DEF handle_cd, disk, MetadataInv
<1>6. CASE InsertEntry
  BY <1>6, <1>b, <1>m DEF InsertEntry, MetadataInv
<1>7. CASE InsertAlloc
  BY <1>7, <1>m, AllocOutside DEF InsertAlloc, MetadataInv
<1>8. CASE AttachBlock
  <2> DEFINE k == inode_table[arg.dir].block_count + 1
  <2>1. new \in Blocks /\ k \in 1 .. MAX_BLOCKS_PER_INODE
    BY <1>8, AttachInArray
  <2>2. \A j \in Inodes : inode_table'[j].blocks =
          IF j = arg.dir THEN [inode_table[j].blocks EXCEPT ![k] = new] ELSE inode_table[j].blocks
    BY <1>0, <1>8 DEF AttachBlock, Inode
  <2>3. Outside(inode_table')
    BY <1>0, <1>m, <2>1, <2>2, SetEntryOutside
  <2>4. QED
    BY <1>8, <1>b, <1>m, <1>w, <2>3 DEF AttachBlock, MetadataInv
<1>9. CASE InsertFailed
  <2>1. \A j \in Inodes : inode_table'[j].blocks = inode_table[j].blocks
    BY <1>0, <1>9 DEF InsertFailed, Inode
  <2>2. QED
    BY <1>9, <1>b, <1>m, <1>w, <2>1, SameEntriesOutside DEF InsertFailed, Return, MetadataInv
<1>10. CASE FreeBlock
  <2>1. turn + 1 \in 1 .. MAX_BLOCKS_PER_INODE
    BY <1>10, TurnInArray
  <2>2. inode_table[arg.ino].blocks[turn + 1] \in Blocks
    BY <1>0, <2>1 DEF Inode
  <2>3. Reserved'
    BY <1>0, <1>10, <1>m, <2>1, <2>2, FreeOutside DEF FreeBlock, Outside
  <2>4. \A j \in Inodes : inode_table'[j].blocks =
          IF j = arg.ino THEN [inode_table[j].blocks EXCEPT ![turn + 1] = 0] ELSE inode_table[j].blocks
    BY <1>0, <1>10 DEF FreeBlock, Inode
  <2>5. Outside(inode_table')
    BY <1>0, <1>n, <1>m, <1>w, <2>1, <2>4, SetEntryOutside
  <2>6. QED
    BY <1>10, <1>m, <2>3, <2>5 DEF FreeBlock, MetadataInv
<1>11. CASE FreeDone
  <2>1. \A j \in Inodes : inode_table'[j].blocks = inode_table[j].blocks
    BY <1>0, <1>11 DEF FreeDone, Inode
  <2>2. QED
    BY <1>11, <1>b, <1>m, <2>1, SameEntriesOutside DEF FreeDone, MetadataInv
<1>12. CASE WriteAlloc
  BY <1>12, <1>m, AllocOutside DEF WriteAlloc, MetadataInv
<1>13. CASE WriteBlock
  <2>1. new \in Blocks /\ turn + 1 \in 1 .. MAX_BLOCKS_PER_INODE
    BY <1>13, TurnLemma DEF WriteBlock, TypeInv, CallOK
  <2>2. \A j \in Inodes : inode_table'[j].blocks =
          IF j = arg.ino THEN [inode_table[j].blocks EXCEPT ![turn + 1] = new] ELSE inode_table[j].blocks
    <3>1. inode_table' = [inode_table EXCEPT ![arg.ino].blocks[turn + 1] = new]
      BY <1>13 DEF WriteBlock
    <3>2. QED
      BY <1>0, <2>1, <3>1, SetEntryLemma
  <2>3. Outside(inode_table')
    BY <1>0, <1>m, <2>1, <2>2, SetEntryOutside
  <2>4. QED
    BY <1>13, <1>b, <1>m, <1>w, <2>3 DEF WriteBlock, MetadataInv
<1>14. CASE WriteFailed
  BY <1>14, <1>b, <1>m, <1>w DEF WriteFailed, Return, MetadataInv
<1>15. CASE WriteDone
  <2>1. \A j \in Inodes : inode_table'[j].blocks = inode_table[j].blocks
    BY <1>0, <1>15 DEF WriteDone, Inode
  <2>2. QED
    BY <1>15, <1>b, <1>m, <2>1, SameEntriesOutside DEF WriteDone, MetadataInv
<1>16. CASE save_inode_table
  <2>1. ASSUME NEW i \in Inodes, NEW k \in 1 .. MAX_BLOCKS_PER_INODE
        PROVE  FirstPart(i).blocks[k] \in {inode_table[i].blocks[k], table[i].blocks[k]}
    BY <1>0 DEF FirstPart, Inode
  <2>2. Outside(table')
    BY <1>16, <1>m, <2>1 DEF save_inode_table, Outside
  <2>3. QED
    BY <1>16, <1>b, <1>m, <2>2 DEF save_inode_table, MetadataInv
<1>17. CASE FlushTable
  BY <1>17, <1>b, <1>m, <1>w DEF FlushTable, Return, MetadataInv
<1>18. CASE Restart \/ Crash
  BY <1>18, <1>b, <1>m, <1>w DEF Restart, Crash, Mount, disk, Return, MetadataInv
<1>19. CASE UNCHANGED vars
  BY <1>19, <1>b, <1>m DEF vars, MetadataInv
<1>20. QED
  BY <1>1, <1>2, <1>3, <1>4, <1>5, <1>6, <1>7, <1>8, <1>9, <1>10, <1>11, <1>12, <1>13,
     <1>14, <1>15, <1>16, <1>17, <1>18, <1>19
  DEF AnyNext, AnySession, AnyCommand, CommandOf, Step, handle_create, handle_delete

\* No file or directory ever holds the bitmap or a block of the inode table, in
\* memory or on disk, whatever the program has run and wherever it has died.
THEOREM MetadataAlwaysProtected == Spec => []MetadataProtected
<1>1. Init => TypeInv /\ MetadataInv
  BY InitTypeInv, InitMetadataInv
<1>2. TypeInv /\ MetadataInv /\ [Next]_vars => TypeInv' /\ MetadataInv'
  BY StepTypeInv, StepMetadataInv, AnyLemma
<1>3. TypeInv /\ MetadataInv => MetadataProtected
  BY MetadataInvImplies
<1>4. QED
  BY <1>1, <1>2, <1>3, PTL DEF Spec
=============================================================================
