----------------------------- MODULE DiskProofs -----------------------------
(***************************************************************************)
(* Proofs about FileSystem and its disk: that within a session no block is *)
(* ever in two places, and what memory knows and the disk does not.        *)
(***************************************************************************)
EXTENDS FileSystemProofs

-----------------------------------------------------------------------------
(* Blocks and their owners.                                                *)

\* NoSharedBlock needs to know that the call's fresh block is allocated and
\* nobody's, that the metadata bits are set, so that no fresh block is
\* metadata, and that the counters agree with Held when a call changes phase.
MetadataBitsSet == \A b \in Blocks : b < FIRST_DATA_BLOCK => b \in bitmap
FreshBlock == new \in Blocks => new \in bitmap /\ new >= FIRST_DATA_BLOCK
CountersOK ==
  /\ pc \in {"alloc", "put"} => inode_table[arg.ino].block_count = 0
  /\ pc \notin {"free", "alloc", "put"} => turn = 0
OwnershipInv == NoSharedBlock /\ MetadataBitsSet /\ FreshBlock /\ CountersOK

Entry(i, k) == inode_table[i].blocks[k]

LEMMA HeldInArray ==
  ASSUME TypeInv, NEW i \in Inodes
  PROVE  Held(i) \subseteq 1 .. MAX_BLOCKS_PER_INODE
<1>1. inode_table[i].block_count \in 0 .. MAX_BLOCKS_PER_INODE
  BY TypeFacts DEF Inode
<1>2. QED
  BY <1>1, TypeFacts, SizesLemma DEF Held

\* Inodes hold no more than before, and what they hold stays allocated.
LEMMA HoldingLess ==
  ASSUME NoSharedBlock,
         \A i \in Inodes : \A k \in Held(i)' :
           k \in Held(i) /\ Entry(i, k)' = Entry(i, k) /\ Entry(i, k) \in bitmap' /\ Entry(i, k) # new'
  PROVE  NoSharedBlock'
<1>1. ASSUME NEW i \in Inodes, NEW j \in Inodes, NEW k \in Held(i)', NEW l \in Held(j)',
             Entry(i, k)' = Entry(j, l)'
      PROVE  i = j /\ k = l
  BY <1>1 DEF NoSharedBlock, Entry
<1>2. ASSUME NEW i \in Inodes, NEW k \in Held(i)'
      PROVE  Entry(i, k)' \in bitmap' /\ Entry(i, k)' >= FIRST_DATA_BLOCK /\ Entry(i, k)' # new'
  BY DEF NoSharedBlock, Entry
<1>3. QED
  BY <1>1, <1>2 DEF NoSharedBlock, Entry

\* One inode takes the fresh block.
LEMMA HoldingOneMore ==
  ASSUME NoSharedBlock, FreshBlock, new \in Blocks, NEW x \in Inodes, NEW n, n \notin Held(x),
         \A i \in Inodes : \A k \in Held(i)' : k \in Held(i) \/ (i = x /\ k = n),
         \A i \in Inodes : \A k \in Held(i) : Entry(i, k)' = Entry(i, k),
         Entry(x, n)' = new, bitmap' = bitmap, new' = NoBlock
  PROVE  NoSharedBlock'
<1>1. ASSUME NEW i \in Inodes, NEW j \in Inodes, NEW k \in Held(i)', NEW l \in Held(j)',
             Entry(i, k)' = Entry(j, l)'
      PROVE  i = j /\ k = l
  <2>1. CASE k \in Held(i) /\ l \in Held(j)
    BY <1>1, <2>1 DEF NoSharedBlock, Entry
  <2>2. CASE k \in Held(i) /\ l \notin Held(j)
    BY <1>1, <2>2 DEF NoSharedBlock, Entry
  <2>3. CASE k \notin Held(i) /\ l \in Held(j)
    BY <1>1, <2>3 DEF NoSharedBlock, Entry
  <2>4. CASE k \notin Held(i) /\ l \notin Held(j)
    BY <1>1, <2>4
  <2>5. QED
    BY <2>1, <2>2, <2>3, <2>4
<1>2. ASSUME NEW i \in Inodes, NEW k \in Held(i)'
      PROVE  Entry(i, k)' \in bitmap' /\ Entry(i, k)' >= FIRST_DATA_BLOCK /\ Entry(i, k)' # new'
  <2>1. Entry(i, k)' \in bitmap /\ Entry(i, k)' >= FIRST_DATA_BLOCK
    BY DEF NoSharedBlock, Entry, FreshBlock
  <2>2. Entry(i, k)' # NoBlock
    BY <2>1, SizesLemma DEF NoBlock
  <2>3. QED
    BY <2>1, <2>2
<1>3. QED
  BY <1>1, <1>2 DEF NoSharedBlock, Entry

LEMMA InitOwnershipInv == Init => OwnershipInv
<1> SUFFICES ASSUME Init PROVE OwnershipInv
  OBVIOUS
<1>1. ASSUME NEW i \in Inodes PROVE Held(i) = {}
  <2>1. inode_table[i].block_count = 0
    BY SizesLemma DEF Init, NewInode, UnusedInode
  <2>2. QED
    BY <2>1 DEF Init, Held
<1>2. NoSharedBlock
  BY <1>1 DEF NoSharedBlock
<1>3. MetadataBitsSet
  BY SizesLemma DEF Init, AllocatorInit, MetadataBits, MetadataBitsSet, Blocks
<1>4. FreshBlock
  BY DEF Init, FreshBlock, NoBlock, Blocks
<1>5. QED
  BY <1>2, <1>3, <1>4 DEF Init, OwnershipInv, CountersOK

\* A step between phases without a loop over blocks, that changes no array.
LEMMA QuietStep ==
  ASSUME OwnershipInv, UNCHANGED bitmap, new' \in {new, NoBlock},
         pc \notin {"free", "alloc", "put"}, pc' \notin {"free", "alloc", "put"},
         \A i \in Inodes : /\ inode_table'[i].block_count = inode_table[i].block_count
                          /\ inode_table'[i].blocks = inode_table[i].blocks,
         turn' = 0
  PROVE  OwnershipInv'
<1>0. NoBlock \notin Blocks
  BY DEF NoBlock, Blocks
<1>1. ASSUME NEW i \in Inodes, NEW k \in Held(i)'
      PROVE  k \in Held(i) /\ Entry(i, k)' = Entry(i, k) /\ Entry(i, k) \in bitmap'
             /\ Entry(i, k) # new'
  <2>1. k \in Held(i)
    BY DEF Held
  <2>2. Entry(i, k) \in bitmap /\ Entry(i, k) # new /\ Entry(i, k) >= FIRST_DATA_BLOCK
    BY <2>1 DEF OwnershipInv, NoSharedBlock, Entry
  <2>3. Entry(i, k) # NoBlock
    BY <2>2, SizesLemma DEF NoBlock
  <2>4. QED
    BY <2>1, <2>2, <2>3 DEF Entry
<1>2. NoSharedBlock'
  BY <1>1, HoldingLess DEF OwnershipInv
<1>3. QED
  BY <1>0, <1>2 DEF OwnershipInv, MetadataBitsSet, FreshBlock, CountersOK

\* A call allocates a block: it is a data block and nobody's.
LEMMA AllocStep ==
  ASSUME TypeInv, OwnershipInv, NEW b \in Blocks, alloc_block(b), new' = b,
         UNCHANGED <<inode_table, turn>>, \A i \in Inodes : Held(i)' = Held(i)
  PROVE  NoSharedBlock' /\ MetadataBitsSet' /\ FreshBlock'
<1>1. b \notin bitmap /\ bitmap' = bitmap \union {b}
  BY DEF alloc_block, IsFirst, FreeBlocks
<1>2. b >= FIRST_DATA_BLOCK
  BY <1>1, SizesLemma DEF OwnershipInv, MetadataBitsSet, Blocks
<1>3. ASSUME NEW i \in Inodes, NEW k \in Held(i)'
      PROVE  k \in Held(i) /\ Entry(i, k)' = Entry(i, k) /\ Entry(i, k) \in bitmap'
             /\ Entry(i, k) # new'
  BY <1>1 DEF OwnershipInv, NoSharedBlock, Entry
<1>4. QED
  BY <1>1, <1>2, <1>3, HoldingLess DEF OwnershipInv, MetadataBitsSet, FreshBlock

\* A call that is about to free an inode's blocks still holds all of them.
LEMMA StartFreeing ==
  ASSUME OwnershipInv, pc = "idle", pc' = "free", turn = 0,
         UNCHANGED <<inode_table, bitmap, turn, new>>
  PROVE  OwnershipInv'
<1>1. \A i \in Inodes : Held(i)' = Held(i)
  BY DEF Held
<1>2. NoSharedBlock'
  BY <1>1 DEF OwnershipInv, NoSharedBlock
<1>3. QED
  BY <1>2 DEF OwnershipInv, MetadataBitsSet, FreshBlock, CountersOK

LEMMA StepOwnershipInv == TypeInv /\ OwnershipInv /\ [AnySession]_vars => OwnershipInv'
<1> SUFFICES ASSUME TypeInv, OwnershipInv, [AnySession]_vars PROVE OwnershipInv'
  OBVIOUS
<1>0. /\ inode_table \in [Inodes -> Inode]
      /\ arg.ino \in Inodes /\ arg.dir \in Inodes
      /\ turn \in 0 .. MAX_BLOCKS_PER_INODE
  BY TypeFacts
<1>o. NoSharedBlock /\ MetadataBitsSet /\ FreshBlock /\ CountersOK
  BY DEF OwnershipInv
<1>w. NoBlock \notin Blocks
  BY DEF NoBlock, Blocks
<1>1. ASSUME NEW path \in AnyPath, CreateRefused(path) \/ DeleteRefused(path) \/ WriteRefused(path)
      PROVE  OwnershipInv'
  BY <1>1, QuietStep DEF CreateRefused, DeleteRefused, WriteRefused, Return
<1>2. ASSUME NEW path \in AnyPath, NEW type \in {FILE_TYPE, DIR_TYPE}, Create(path, type)
      PROVE  OwnershipInv'
  <2>1. PICK d \in Inodes, n \in Inodes : inode_table' = [inode_table EXCEPT ![n] = NewInode(type, d)]
    BY <1>2 DEF Create
  <2>2. NewInode(type, d).block_count = 0
    BY DEF NewInode, UnusedInode
  <2>3. ASSUME NEW i \in Inodes, NEW k \in Held(i)'
        PROVE  k \in Held(i) /\ Entry(i, k)' = Entry(i, k)
    <3>1. i # n
      BY <1>0, <1>2, <2>1, <2>2, <2>3 DEF Create, Held
    <3>2. QED
      BY <1>0, <1>2, <2>1, <3>1 DEF Create, Held, Entry
  <2>4. NoSharedBlock'
    BY <1>2, <1>o, <2>3, HoldingLess DEF Create, NoSharedBlock, Entry
  <2>5. QED
    BY <1>2, <1>o, <2>4 DEF Create, OwnershipInv, MetadataBitsSet, FreshBlock, CountersOK
<1>3. ASSUME NEW path \in AnyPath, Delete(path)
      PROVE  OwnershipInv'
  <2>1. pc = "idle" /\ pc' = "free" /\ turn = 0 /\ UNCHANGED <<inode_table, bitmap, turn, new>>
    BY <1>3, <1>o DEF Delete, CountersOK
  <2>2. QED
    BY <1>o, <2>1, StartFreeing
<1>4. ASSUME NEW path \in AnyPath, NEW data \in AnyText, Write(path, data)
      PROVE  OwnershipInv'
  <2>1. pc = "idle" /\ pc' = "free" /\ turn = 0 /\ UNCHANGED <<inode_table, bitmap, turn, new>>
    BY <1>4, <1>o DEF Write, CountersOK
  <2>2. QED
    BY <1>o, <2>1, StartFreeing
<1>5. ASSUME NEW path \in AnyPath, handle_cd(path)
      PROVE  OwnershipInv'
  BY <1>5, <1>o, QuietStep DEF handle_cd, disk, CountersOK
<1>6. CASE InsertEntry
  BY <1>6, <1>o, QuietStep DEF InsertEntry, CountersOK
<1>7. CASE InsertAlloc
  <2>1. PICK b \in Blocks : alloc_block(b) /\ new' = b
    BY <1>7 DEF InsertAlloc
  <2>2. \A i \in Inodes : Held(i)' = Held(i)
    BY <1>7 DEF InsertAlloc, Held
  <2>3. NoSharedBlock' /\ MetadataBitsSet' /\ FreshBlock'
    BY <1>7, <2>1, <2>2, AllocStep DEF InsertAlloc
  <2>4. QED
    BY <1>7, <1>o, <2>3 DEF InsertAlloc, OwnershipInv, CountersOK
<1>8. CASE AttachBlock
  <2>1. PICK d \in Inodes, n \in 1 .. MAX_BLOCKS_PER_INODE :
          d = arg.dir /\ n = inode_table[d].block_count + 1
    BY <1>0, <1>8, AttachInArray
  <2>2. /\ inode_table' = [inode_table EXCEPT ![d].blocks[n] = new, ![d].block_count = n]
        /\ new \in Blocks /\ new' = NoBlock /\ bitmap' = bitmap
        /\ pc = "attach" /\ pc' \in {"insert", "save"} /\ turn' = turn
    BY <1>8, <2>1, AttachInArray DEF AttachBlock
  <2>3. /\ inode_table'[d].block_count = n
        /\ inode_table'[d].blocks = [inode_table[d].blocks EXCEPT ![n] = new]
        /\ \A i \in Inodes : i # d => inode_table'[i] = inode_table[i]
    BY <1>0, <2>2 DEF Inode
  <2>4. Held(d) = 1 .. n - 1
    <3>1. inode_table[d].block_count \in Nat
      BY <1>0, SizesLemma DEF Inode
    <3>2. Held(d) = 1 .. inode_table[d].block_count
      BY <2>2 DEF Held
    <3>3. QED
      BY <2>1, <3>1, <3>2
  <2>5. ASSUME NEW i \in Inodes, NEW k \in Held(i)'
        PROVE  k \in Held(i) \/ (i = d /\ k = n)
    <3>1. CASE i = d
      <4>1. k \in 1 .. n
        BY <2>2, <2>3, <2>5, <3>1 DEF Held
      <4>2. QED
        BY <2>4, <3>1, <4>1
    <3>2. CASE i # d
      BY <2>2, <2>3, <2>5, <3>2 DEF Held
    <3>3. QED
      BY <3>1, <3>2
  <2>6. n \notin Held(d)
    BY <2>4
  <2>7. Entry(d, n)' = new
    <3>1. inode_table[d].blocks \in [1 .. MAX_BLOCKS_PER_INODE -> Blocks]
      BY <1>0 DEF Inode
    <3>2. QED
      BY <2>3, <3>1 DEF Entry
  <2>8. ASSUME NEW i \in Inodes, NEW k \in Held(i) PROVE Entry(i, k)' = Entry(i, k)
    <3>1. CASE i = d
      <4>1. k # n /\ k \in 1 .. MAX_BLOCKS_PER_INODE
        BY <2>6, <3>1, HeldInArray
      <4>2. inode_table[d].blocks \in [1 .. MAX_BLOCKS_PER_INODE -> Blocks]
        BY <1>0 DEF Inode
      <4>3. QED
        BY <2>3, <3>1, <4>1, <4>2 DEF Entry
    <3>2. CASE i # d
      BY <2>3, <3>2 DEF Entry
    <3>3. QED
      BY <3>1, <3>2
  <2>9. NoSharedBlock'
    BY <1>o, <2>2, <2>5, <2>6, <2>7, <2>8, HoldingOneMore
  <2>10. QED
    BY <1>o, <1>w, <2>2, <2>9 DEF OwnershipInv, MetadataBitsSet, FreshBlock, CountersOK
<1>9. CASE InsertFailed
  <2>1. \A i \in Inodes : /\ inode_table'[i].block_count = inode_table[i].block_count
                         /\ inode_table'[i].blocks = inode_table[i].blocks
    BY <1>0, <1>9 DEF InsertFailed, Inode
  <2>2. QED
    BY <1>9, <2>1, QuietStep DEF InsertFailed, Return
<1>10. CASE FreeBlock
  <2>1. PICK x \in Inodes, n \in 1 .. MAX_BLOCKS_PER_INODE :
          x = arg.ino /\ n = turn + 1 /\ n \in 1 .. inode_table[x].block_count
    BY <1>0, <1>10, TurnInArray
  <2>2. /\ inode_table' = [inode_table EXCEPT ![x].blocks[n] = 0]
        /\ bitmap' = bitmap \ {Entry(x, n)} /\ turn' = n /\ new' = new
        /\ pc = "free" /\ pc' = "free" /\ arg' = arg
    BY <1>10, <2>1 DEF FreeBlock, free_block, NextTurn, Entry
  <2>3. /\ inode_table'[x].block_count = inode_table[x].block_count
        /\ inode_table'[x].blocks = [inode_table[x].blocks EXCEPT ![n] = 0]
        /\ \A i \in Inodes : i # x => inode_table'[i] = inode_table[i]
    BY <1>0, <2>2 DEF Inode
  <2>4. n \in Held(x)
    <3>1. inode_table[x].block_count \in Nat
      BY <1>0, SizesLemma DEF Inode
    <3>2. Held(x) = turn + 1 .. inode_table[x].block_count
      BY <2>1, <2>2 DEF Held
    <3>3. QED
      BY <1>0, <2>1, <3>1, <3>2, SizesLemma
  <2>5. ASSUME NEW i \in Inodes, NEW k \in Held(i)'
        PROVE  k \in Held(i) /\ ~(i = x /\ k = n)
    <3>1. CASE i = x
      <4>1. inode_table[x].block_count \in Nat
        BY <1>0, SizesLemma DEF Inode
      <4>2. Held(x)' = n + 1 .. inode_table[x].block_count
        BY <2>1, <2>2, <2>3 DEF Held
      <4>3. Held(x) = n .. inode_table[x].block_count
        BY <2>1, <2>2 DEF Held
      <4>4. QED
        BY <2>1, <2>5, <3>1, <4>1, <4>2, <4>3
    <3>2. CASE i # x
      BY <2>1, <2>2, <2>3, <2>5, <3>2 DEF Held
    <3>3. QED
      BY <3>1, <3>2
  <2>6. ASSUME NEW i \in Inodes, NEW k \in Held(i)'
        PROVE  Entry(i, k)' = Entry(i, k)
    <3>1. k \in 1 .. MAX_BLOCKS_PER_INODE /\ ~(i = x /\ k = n)
      BY <2>5, HeldInArray
    <3>2. inode_table[x].blocks \in [1 .. MAX_BLOCKS_PER_INODE -> Blocks]
      BY <1>0 DEF Inode
    <3>3. QED
      BY <2>3, <3>1, <3>2 DEF Entry
  <2>7. ASSUME NEW i \in Inodes, NEW k \in Held(i)'
        PROVE  Entry(i, k) \in bitmap' /\ Entry(i, k) # new'
    <3>1. k \in Held(i) /\ ~(i = x /\ k = n)
      BY <2>5
    <3>2. Entry(i, k) # Entry(x, n)
      BY <1>o, <2>4, <3>1 DEF NoSharedBlock, Entry
    <3>3. Entry(i, k) \in bitmap /\ Entry(i, k) # new
      BY <1>o, <3>1 DEF NoSharedBlock, Entry
    <3>4. QED
      BY <2>2, <3>2, <3>3
  <2>8. NoSharedBlock'
    BY <1>o, <2>5, <2>6, <2>7, HoldingLess
  <2>9. Entry(x, n) >= FIRST_DATA_BLOCK /\ Entry(x, n) # new
    BY <1>o, <2>4 DEF NoSharedBlock, Entry
  <2>10. MetadataBitsSet' /\ FreshBlock'
    BY <1>o, <2>2, <2>9, SizesLemma DEF MetadataBitsSet, FreshBlock, Blocks
  <2>11. QED
    BY <2>2, <2>8, <2>10 DEF OwnershipInv, CountersOK
<1>11. CASE FreeDone
  <2>1. /\ pc = "free" /\ pc' \in {"alloc", "save"} /\ turn' = 0
        /\ turn >= inode_table[arg.ino].block_count
        /\ UNCHANGED <<bitmap, new, arg>>
    BY <1>11 DEF FreeDone, AfterFree
  <2>2. /\ inode_table'[arg.ino].block_count = 0
        /\ inode_table'[arg.ino].blocks = inode_table[arg.ino].blocks
        /\ \A i \in Inodes : i # arg.ino => inode_table'[i] = inode_table[i]
    BY <1>0, <1>11 DEF FreeDone, Inode
  <2>3. ASSUME NEW i \in Inodes, NEW k \in Held(i)'
        PROVE  k \in Held(i) /\ Entry(i, k)' = Entry(i, k)
    <3>1. CASE i = arg.ino
      BY <2>1, <2>2, <2>3, <3>1 DEF Held
    <3>2. CASE i # arg.ino
      BY <2>1, <2>2, <2>3, <3>2 DEF Held, Entry
    <3>3. QED
      BY <3>1, <3>2
  <2>4. NoSharedBlock'
    BY <1>o, <2>1, <2>3, HoldingLess DEF NoSharedBlock, Entry
  <2>5. QED
    BY <1>o, <2>1, <2>2, <2>4 DEF OwnershipInv, MetadataBitsSet, FreshBlock, CountersOK
<1>12. CASE WriteAlloc
  <2>1. PICK b \in Blocks : alloc_block(b) /\ new' = b
    BY <1>12 DEF WriteAlloc
  <2>2. \A i \in Inodes : Held(i)' = Held(i)
    BY <1>12 DEF WriteAlloc, Held
  <2>3. NoSharedBlock' /\ MetadataBitsSet' /\ FreshBlock'
    BY <1>12, <2>1, <2>2, AllocStep DEF WriteAlloc
  <2>4. QED
    BY <1>12, <1>o, <2>3 DEF WriteAlloc, OwnershipInv, CountersOK
<1>13. CASE WriteBlock
  <2>1. PICK x \in Inodes, n \in 1 .. MAX_BLOCKS_PER_INODE : x = arg.ino /\ n = turn + 1
    BY <1>0, <1>13, TurnLemma DEF WriteBlock, TypeInv, CallOK
  <2>2. /\ inode_table' = [inode_table EXCEPT ![x].blocks[n] = new]
        /\ new \in Blocks /\ new' = NoBlock /\ bitmap' = bitmap
        /\ pc = "put" /\ pc' = "alloc" /\ turn' = n /\ arg' = arg
    BY <1>13, <2>1 DEF WriteBlock, TypeInv, CallOK
  <2>3. /\ inode_table'[x].block_count = inode_table[x].block_count
        /\ inode_table'[x].blocks = [inode_table[x].blocks EXCEPT ![n] = new]
        /\ \A i \in Inodes : i # x => inode_table'[i] = inode_table[i]
    BY <1>0, <2>2 DEF Inode
  <2>4. Held(x) = 1 .. turn /\ Held(x)' = 1 .. n
    BY <2>1, <2>2 DEF Held
  <2>5. ASSUME NEW i \in Inodes, NEW k \in Held(i)'
        PROVE  k \in Held(i) \/ (i = x /\ k = n)
    <3>1. CASE i = x
      BY <1>0, <2>1, <2>4, <2>5, <3>1, SizesLemma
    <3>2. CASE i # x
      BY <2>1, <2>2, <2>3, <2>5, <3>2 DEF Held
    <3>3. QED
      BY <3>1, <3>2
  <2>6. n \notin Held(x)
    BY <1>0, <2>1, <2>4, SizesLemma
  <2>7. Entry(x, n)' = new
    <3>1. inode_table[x].blocks \in [1 .. MAX_BLOCKS_PER_INODE -> Blocks]
      BY <1>0 DEF Inode
    <3>2. QED
      BY <2>3, <3>1 DEF Entry
  <2>8. ASSUME NEW i \in Inodes, NEW k \in Held(i) PROVE Entry(i, k)' = Entry(i, k)
    <3>1. CASE i = x
      <4>1. k # n /\ k \in 1 .. MAX_BLOCKS_PER_INODE
        BY <2>6, <3>1, HeldInArray
      <4>2. inode_table[x].blocks \in [1 .. MAX_BLOCKS_PER_INODE -> Blocks]
        BY <1>0 DEF Inode
      <4>3. QED
        BY <2>3, <3>1, <4>1, <4>2 DEF Entry
    <3>2. CASE i # x
      BY <2>3, <3>2 DEF Entry
    <3>3. QED
      BY <3>1, <3>2
  <2>9. NoSharedBlock'
    BY <1>o, <2>2, <2>5, <2>6, <2>7, <2>8, HoldingOneMore
  <2>10. inode_table'[x].block_count = 0
    BY <1>o, <2>1, <2>2, <2>3 DEF CountersOK
  <2>11. QED
    BY <1>o, <1>w, <2>1, <2>2, <2>9, <2>10 DEF OwnershipInv, MetadataBitsSet, FreshBlock, CountersOK
<1>14. CASE WriteFailed
  <2>1. /\ pc = "alloc" /\ pc' = "idle" /\ turn' = 0 /\ new' = NoBlock
        /\ UNCHANGED <<inode_table, bitmap>>
    BY <1>14 DEF WriteFailed, Return
  <2>2. inode_table[arg.ino].block_count = 0
    BY <1>o, <2>1 DEF CountersOK
  <2>3. ASSUME NEW i \in Inodes, NEW k \in Held(i)'
        PROVE  k \in Held(i) /\ Entry(i, k)' = Entry(i, k)
    <3>1. i # arg.ino
      BY <2>1, <2>2, <2>3 DEF Held
    <3>2. QED
      BY <2>1, <2>3, <3>1 DEF Held, Entry
  <2>4. ASSUME NEW i \in Inodes, NEW k \in Held(i) PROVE Entry(i, k) \in bitmap' /\ Entry(i, k) # new'
    <3>1. Entry(i, k) \in bitmap /\ Entry(i, k) >= FIRST_DATA_BLOCK
      BY <1>o, <2>4 DEF NoSharedBlock, Entry
    <3>2. QED
      BY <2>1, <3>1, SizesLemma DEF NoBlock
  <2>5. NoSharedBlock'
    BY <1>o, <2>3, <2>4, HoldingLess
  <2>6. QED
    BY <1>o, <1>w, <2>1, <2>5 DEF OwnershipInv, MetadataBitsSet, FreshBlock, CountersOK
<1>15. CASE WriteDone
  <2>1. /\ pc = "alloc" /\ pc' = "save" /\ turn' = 0 /\ UNCHANGED <<bitmap, new, arg>>
    BY <1>15 DEF WriteDone
  <2>2. inode_table' = [inode_table EXCEPT ![arg.ino].block_count = turn,
                                           ![arg.ino].file_size = Len(arg.data)]
    BY <1>15 DEF WriteDone
  <2>3. /\ inode_table'[arg.ino].block_count = turn
        /\ inode_table'[arg.ino].blocks = inode_table[arg.ino].blocks
        /\ \A i \in Inodes : i # arg.ino => inode_table'[i] = inode_table[i]
    BY <1>0, <2>2 DEF Inode
  <2>4. ASSUME NEW i \in Inodes, NEW k \in Held(i)'
        PROVE  k \in Held(i) /\ Entry(i, k)' = Entry(i, k)
    <3>1. CASE i = arg.ino
      BY <2>1, <2>3, <2>4, <3>1 DEF Held, Entry
    <3>2. CASE i # arg.ino
      BY <2>1, <2>3, <2>4, <3>2 DEF Held, Entry
    <3>3. QED
      BY <3>1, <3>2
  <2>5. NoSharedBlock'
    BY <1>o, <2>1, <2>4, HoldingLess DEF NoSharedBlock, Entry
  <2>6. QED
    BY <1>o, <2>1, <2>5 DEF OwnershipInv, MetadataBitsSet, FreshBlock, CountersOK
<1>16. CASE save_inode_table
  BY <1>16, <1>o, QuietStep DEF save_inode_table, CountersOK
<1>17. CASE FlushTable
  BY <1>17, QuietStep DEF FlushTable, Return
<1>18. CASE UNCHANGED vars
  <2>1. \A i \in Inodes : Held(i)' = Held(i)
    BY <1>18 DEF vars, Held
  <2>2. NoSharedBlock'
    BY <1>18, <1>o, <2>1 DEF vars, NoSharedBlock
  <2>3. QED
    BY <1>18, <1>o, <2>2 DEF vars, OwnershipInv, MetadataBitsSet, FreshBlock, CountersOK
<1>19. QED
  BY <1>1, <1>2, <1>3, <1>4, <1>5, <1>6, <1>7, <1>8, <1>9, <1>10, <1>11, <1>12, <1>13,
     <1>14, <1>15, <1>16, <1>17, <1>18
  DEF AnySession, AnyCommand, CommandOf, Step, handle_create, handle_delete

\* Within a session no block is in two places: of two inodes, twice of one, or of
\* an inode and in the hand of the running call; each is an allocated data block.
THEOREM BlocksNeverShared == Session => []NoSharedBlock
<1>1. Init => TypeInv /\ OwnershipInv
  BY InitTypeInv, InitOwnershipInv
<1>2. TypeInv /\ [SessionNext]_vars => TypeInv'
  BY StepTypeInv, AnyLemma DEF AnyNext
<1>3. TypeInv /\ OwnershipInv /\ [SessionNext]_vars => OwnershipInv'
  BY StepOwnershipInv, AnyLemma
<1>4. OwnershipInv => NoSharedBlock
  BY DEF OwnershipInv
<1>5. QED
  BY <1>1, <1>2, <1>3, <1>4, PTL DEF Session

-----------------------------------------------------------------------------
(* Memory and disk.                                                        *)

\* The property follows from what each place of a call knows: where fs_create
\* may give up, its inode is unused on disk and its directory as it was, or
\* has a free slot; from where fs_write may, its file is empty in memory.
Agree(i) == Meaning(inode_table, i) = Meaning(table, i)
Emptied(i) ==
  /\ inode_table[i].used /\ inode_table[i].type = FILE_TYPE
  /\ inode_table[i].block_count = 0 /\ inode_table[i].file_size = 0
Touched(i) == i = arg.ino \/ (arg.op = "create" /\ i = arg.dir)
Clear(i) == Agree(i) \/ Emptied(i)
CreateOK ==
  /\ arg.op = "create"
  /\ ~table[arg.ino].used
  /\ arg.dir # arg.ino => Clear(arg.dir) \/ FreeSlots(arg.dir) # {}
UnsavedInv ==
  /\ \A i \in Inodes : Clear(i) \/ (pc # "idle" /\ Touched(i))
  /\ pc = "insert" => CreateOK
  /\ pc = "attach" => arg.op = "create" /\ ~table[arg.ino].used
  /\ pc = "free" => arg.op \in {"write", "delete"}
  /\ pc = "free" /\ arg.op = "write" =>
       inode_table[arg.ino].used /\ inode_table[arg.ino].type = FILE_TYPE
  /\ pc \in {"alloc", "put"} => arg.op = "write" /\ Emptied(arg.ino)

\* A directory's first block, attached, is its only one.
LEMMA FirstBlock ==
  ASSUME NEW r \in Inode, NEW b \in Blocks, 1 \in 1 .. MAX_BLOCKS_PER_INODE
  PROVE  /\ [r EXCEPT !.blocks[1] = b, !.block_count = 1].block_count = 1
         /\ [r EXCEPT !.blocks[1] = b, !.block_count = 1].blocks[1] = b
<1> DEFINE q == [r EXCEPT !.blocks[1] = b]
<1>1. q \in Inode /\ q.blocks[1] = b
  BY DEF Inode
<1>2. /\ [q EXCEPT !.block_count = 1].block_count = 1
      /\ [q EXCEPT !.block_count = 1].blocks[1] = b
  BY <1>1 DEF Inode
<1>3. QED
  BY <1>2

LEMMA UnsavedInvImplies == UnsavedInv => UnsavedOnlyByFailedWrite
BY DEF UnsavedInv, UnsavedOnlyByFailedWrite, Clear, Agree, Emptied, Touched

-----------------------------------------------------------------------------
(* Meaning.                                                                *)

LEMMA UnusedMeaning ==
  ASSUME TypeInv, NEW i \in Inodes
  PROVE  /\ ~inode_table[i].used => Meaning(inode_table, i) = UnusedInode
         /\ Meaning(inode_table, i) = UnusedInode => ~inode_table[i].used
         /\ ~table[i].used => Meaning(table, i) = UnusedInode
         /\ Meaning(table, i) = UnusedInode => ~table[i].used
<1>1. inode_table[i] \in Inode /\ table[i] \in Inode
  BY TypeFacts
<1>2. ~UnusedInode.used
  BY DEF UnusedInode
<1>3. inode_table[i].used => Meaning(inode_table, i).used
  BY <1>1 DEF Meaning, Inode
<1>4. table[i].used => Meaning(table, i).used
  BY <1>1 DEF Meaning, Inode
<1>5. QED
  BY <1>2, <1>3, <1>4 DEF Meaning

\* What the first write of a save leaves of an inode on which memory and disk
\* agree means the same.
LEMMA FirstPartAgrees ==
  ASSUME TypeInv, NEW i \in Inodes, Agree(i), save_inode_table
  PROVE  Agree(i)'
<1> DEFINE m == inode_table[i]
           t == table[i]
           p == FirstPart(i)
           Cut(r) == [r EXCEPT !.blocks = [k \in 1 .. r.block_count |-> @[k]]]
<1>1. inode_table' = inode_table /\ table'[i] = p
  BY DEF save_inode_table
<1>2. m \in Inode /\ t \in Inode /\ SPLIT_INODE \in Inodes
  BY TypeFacts, SizesLemma
<1>3. CASE i # SPLIT_INODE
  <2>1. p = m \/ p = t
    BY <1>2, <1>3 DEF FirstPart, Inodes
  <2>2. QED
    BY <1>1, <2>1 DEF Agree, Meaning
<1>4. CASE i = SPLIT_INODE
  <2>1. /\ p.used = m.used /\ p.type = m.type /\ p.file_size = m.file_size
        /\ p.block_count = m.block_count /\ p.parent_inode = t.parent_inode
        /\ p.blocks = [k \in 1 .. MAX_BLOCKS_PER_INODE |->
                        IF k <= SPLIT_BLOCKS THEN m.blocks[k] ELSE t.blocks[k]]
    BY <1>2, <1>4 DEF FirstPart, Inodes, Inode
  <2>2. CASE ~m.used
    BY <1>1, <2>1, <2>2 DEF Agree, Meaning
  <2>3. CASE m.used
    <3>1. t.used
      BY <1>2, <2>3, UnusedMeaning DEF Agree
    <3>2. Cut(m) = Cut(t)
      BY <2>3, <3>1 DEF Agree, Meaning
    <3>3. /\ Cut(m).block_count = m.block_count /\ Cut(t).block_count = t.block_count
          /\ Cut(m).parent_inode = m.parent_inode /\ Cut(t).parent_inode = t.parent_inode
          /\ Cut(m).blocks = [k \in 1 .. m.block_count |-> m.blocks[k]]
          /\ Cut(t).blocks = [k \in 1 .. t.block_count |-> t.blocks[k]]
      BY <1>2 DEF Inode
    <3>4. /\ m.block_count = t.block_count /\ m.parent_inode = t.parent_inode
          /\ \A k \in 1 .. m.block_count : m.blocks[k] = t.blocks[k]
      <4>1. m.block_count = t.block_count /\ m.parent_inode = t.parent_inode
        BY <3>2, <3>3
      <4>2. ASSUME NEW k \in 1 .. m.block_count PROVE m.blocks[k] = t.blocks[k]
        <5>1. Cut(m).blocks[k] = m.blocks[k] /\ Cut(t).blocks[k] = t.blocks[k]
          BY <3>3, <4>1 DEF Cut
        <5>2. QED
          BY <3>2, <5>1
      <4>3. QED
        BY <4>1, <4>2
    <3>5. \A k \in 1 .. m.block_count : k \in 1 .. MAX_BLOCKS_PER_INODE
      BY <1>2, SizesLemma DEF Inode
    <3>6. [k \in 1 .. p.block_count |-> p.blocks[k]] = [k \in 1 .. m.block_count |-> m.blocks[k]]
      BY <2>1, <3>4, <3>5
    <3>7. Cut(p) = Cut(m)
      <4>1. p \in Inode
        BY <1>2, <2>1, <1>4, SizesLemma DEF FirstPart, Inode, Inodes
      <4>2. QED
        BY <1>2, <2>1, <3>4, <3>6, <4>1 DEF Inode
    <3>8. QED
      BY <1>1, <2>1, <2>3, <3>7 DEF Agree, Meaning
  <2>4. QED
    BY <1>2, <2>2, <2>3
<1>5. QED
  BY <1>3, <1>4

-----------------------------------------------------------------------------
(* The steps.                                                              *)

LEMMA InitUnsavedInv == Init => UnsavedInv
<1> SUFFICES ASSUME Init PROVE UnsavedInv
  OBVIOUS
<1>1. \A i \in Inodes : Agree(i)
  BY DEF Init, Agree
<1>2. QED
  BY <1>1 DEF Init, UnsavedInv, Clear

\* A step that leaves both tables alone leaves this alone.
LEMMA SameTables ==
  ASSUME UNCHANGED <<inode_table, table>>
  PROVE  \A i \in Inodes : (Clear(i)' <=> Clear(i)) /\ (Emptied(i)' <=> Emptied(i))
BY DEF Clear, Agree, Emptied, Meaning

\* So does, for the other inodes, one that changes one inode in memory.
LEMMA OtherInodes ==
  ASSUME inode_table \in [Inodes -> Inode], NEW j \in Inodes, NEW r,
         inode_table' = [inode_table EXCEPT ![j] = r], table' = table
  PROVE  \A i \in Inodes \ {j} : Clear(i)' <=> Clear(i)
<1>1. ASSUME NEW i \in Inodes \ {j} PROVE Clear(i)' <=> Clear(i)
  <2>1. inode_table'[i] = inode_table[i] /\ table'[i] = table[i]
    OBVIOUS
  <2>2. QED
    BY <2>1 DEF Clear, Agree, Emptied, Meaning
<1>2. QED
  BY <1>1

\* A call that has no more than emptied files to answer for may end anywhere.
LEMMA Returned ==
  ASSUME NEW rc, Return(rc), \A i \in Inodes : Clear(i)'
  PROVE  UnsavedInv'
BY DEF Return, UnsavedInv

LEMMA StepUnsavedInv == TypeInv /\ UnsavedInv /\ [AnyNext]_vars => UnsavedInv'
<1> SUFFICES ASSUME TypeInv, UnsavedInv, [AnyNext]_vars PROVE UnsavedInv'
  OBVIOUS
<1>0. /\ inode_table \in [Inodes -> Inode] /\ table \in [Inodes -> Inode]
      /\ arg.ino \in Inodes /\ arg.dir \in Inodes
  BY TypeFacts
<1>i. ASSUME pc = "idle", NEW i \in Inodes PROVE Clear(i)
  BY <1>i DEF UnsavedInv
<1>1. ASSUME NEW path \in AnyPath, CreateRefused(path) \/ DeleteRefused(path) \/ WriteRefused(path)
      PROVE  UnsavedInv'
  <2>1. pc = "idle" /\ Return(-1) /\ UNCHANGED <<inode_table, table>>
    BY <1>1 DEF CreateRefused, DeleteRefused, WriteRefused
  <2>2. QED
    BY <2>1, <1>i, SameTables, Returned
<1>2. ASSUME NEW path \in AnyPath, NEW type \in {FILE_TYPE, DIR_TYPE}, Create(path, type)
      PROVE  UnsavedInv'
  <2>1. PICK d \in Inodes, i \in UnusedInodes :
          /\ inode_table' = [inode_table EXCEPT ![i] = NewInode(type, d)]
          /\ arg' = [NoArg EXCEPT !.op = "create", !.ino = i, !.dir = d, !.name = Last(path.comps)]
    BY <1>2 DEF Create, IsFirst
  <2>2. arg'.op = "create" /\ arg'.ino = i /\ arg'.dir = d
    BY <2>1 DEF NoArg
  <2>3. pc = "idle" /\ pc' = "insert" /\ table' = table
    BY <1>2 DEF Create
  <2>4. i \in Inodes /\ ~inode_table[i].used /\ ~Emptied(i) /\ Agree(i)
    BY <2>1, <2>3, <1>i DEF UnusedInodes, Emptied, Clear
  <2>5. ~table'[i].used
    BY <2>3, <2>4, UnusedMeaning DEF Agree
  <2>6. \A j \in Inodes \ {i} : Clear(j)'
    BY <1>0, <1>i, <2>1, <2>3, <2>4, OtherInodes
  <2>7. QED
    BY <2>2, <2>3, <2>5, <2>6 DEF UnsavedInv, CreateOK, Touched
<1>3. ASSUME NEW path \in AnyPath, Delete(path)
      PROVE  UnsavedInv'
  <2>1. arg'.op = "delete" /\ pc = "idle" /\ pc' = "free" /\ UNCHANGED <<inode_table, table>>
    BY <1>3 DEF Delete, NoArg
  <2>2. QED
    BY <2>1, <1>i, SameTables DEF UnsavedInv
<1>4. ASSUME NEW path \in AnyPath, NEW data \in AnyText, Write(path, data)
      PROVE  UnsavedInv'
  <2>1. /\ arg'.op = "write" /\ pc = "idle" /\ pc' = "free" /\ UNCHANGED <<inode_table, table>>
        /\ arg'.ino \in Inodes /\ Writable(arg'.ino)
    BY <1>4 DEF Write, NoArg
  <2>2. inode_table[arg'.ino] \in Inode
    BY <1>0, <2>1
  <2>3. inode_table'[arg'.ino].used /\ inode_table'[arg'.ino].type = FILE_TYPE
    BY <2>1, <2>2 DEF Writable, Inode
  <2>4. QED
    BY <2>1, <2>3, <1>i, SameTables DEF UnsavedInv
<1>5. ASSUME NEW path \in AnyPath, handle_cd(path)
      PROVE  UnsavedInv'
  <2>1. pc = "idle" /\ pc' = "idle" /\ UNCHANGED <<inode_table, table>>
    BY <1>5 DEF handle_cd, disk
  <2>2. QED
    BY <2>1, <1>i, SameTables DEF UnsavedInv
<1>6. CASE InsertEntry
  BY <1>6, SameTables DEF InsertEntry, UnsavedInv, CreateOK, Touched
<1>7. CASE InsertAlloc
  BY <1>7, SameTables DEF InsertAlloc, UnsavedInv, CreateOK, Touched
<1>8. CASE AttachBlock
  <2> DEFINE count == inode_table[arg.dir].block_count
             grown == [inode_table[arg.dir] EXCEPT !.blocks[count + 1] = new,
                                                   !.block_count = count + 1]
  <2>1. pc = "attach" /\ arg' = arg /\ table' = table /\ arg.op = "create" /\ ~table[arg.ino].used
    BY <1>8 DEF AttachBlock, UnsavedInv
  <2>2. inode_table' = [inode_table EXCEPT ![arg.dir] = grown]
    BY <1>8 DEF AttachBlock
  <2>3. \A i \in Inodes : Clear(i)' \/ Touched(i)'
    BY <1>0, <2>1, <2>2, OtherInodes DEF UnsavedInv, Touched
  <2>4. CASE count = 0
    <3>1. pc' = "insert" /\ block' = [block EXCEPT ![new] = EmptyBlock]
      BY <1>8, <2>4 DEF AttachBlock
    <3>2. inode_table[arg.dir] \in Inode /\ new \in Blocks /\ 1 \in 1 .. MAX_BLOCKS_PER_INODE
      BY <1>0, <1>8, <2>4, AttachInArray
    <3>3. inode_table'[arg.dir].block_count = 1 /\ inode_table'[arg.dir].blocks[1] = new
      <4>1. inode_table'[arg.dir] = grown
        BY <1>0, <2>2
      <4>2. grown = [inode_table[arg.dir] EXCEPT !.blocks[1] = new, !.block_count = 1]
        BY <2>4
      <4>3. QED
        <5> HIDE DEF grown
        <5>1. grown.block_count = 1 /\ grown.blocks[1] = new
          BY <3>2, <4>2, FirstBlock
        <5>2. QED
          BY <4>1, <5>1
    <3>4. block'[new][1].name = ""
      BY <3>1, <3>2, SizesLemma, TypeFacts DEF EmptyBlock, EmptySlot
    <3>5. <<1, 1>> \in FreeSlots(arg.dir)'
      <4>1. <<1, 1>> \in (1 .. 1) \X Slots
        BY SizesLemma
      <4>2. FreeSlots(arg.dir)' =
              {p \in (1 .. 1) \X Slots : block'[inode_table'[arg.dir].blocks[p[1]]][p[2]].name = ""}
        BY <2>1, <3>3 DEF FreeSlots, Positions, SlotAt
      <4>3. QED
        BY <3>3, <3>4, <4>1, <4>2
    <3>6. QED
      BY <2>1, <2>3, <3>1, <3>5 DEF UnsavedInv, CreateOK
  <2>5. CASE count # 0
    <3>1. pc' = "save"
      BY <1>8, <2>5 DEF AttachBlock
    <3>2. QED
      BY <2>3, <3>1 DEF UnsavedInv
  <2>6. QED
    BY <2>4, <2>5
<1>9. CASE InsertFailed
  <2>1. /\ Return(-1) /\ table' = table /\ pc = "insert" /\ FreeSlots(arg.dir) = {}
        /\ inode_table' = [inode_table EXCEPT ![arg.ino] = [inode_table[arg.ino] EXCEPT !.used = FALSE]]
    BY <1>9 DEF InsertFailed
  <2>2. \A i \in Inodes \ {arg.ino} : Clear(i)
    BY <2>1 DEF UnsavedInv, CreateOK, Touched
  <2>3. \A i \in Inodes \ {arg.ino} : Clear(i)'
    BY <1>0, <2>1, <2>2, OtherInodes
  <2>4. ~inode_table'[arg.ino].used /\ ~table'[arg.ino].used
    BY <1>0, <2>1 DEF UnsavedInv, CreateOK, Inode
  <2>5. \A i \in Inodes : Clear(i)'
    BY <2>3, <2>4 DEF Clear, Agree, Meaning
  <2>6. QED
    BY <2>1, <2>5, Returned
<1>10. CASE FreeBlock
  <2> DEFINE freed == [inode_table[arg.ino] EXCEPT !.blocks[turn + 1] = 0]
  <2>1. /\ pc = "free" /\ UNCHANGED <<table, pc, arg>>
        /\ inode_table' = [inode_table EXCEPT ![arg.ino] = freed]
    BY <1>10 DEF FreeBlock
  <2>2. \A i \in Inodes : Clear(i)' \/ Touched(i)'
    BY <1>0, <2>1, OtherInodes DEF UnsavedInv, Touched
  <2>3. /\ inode_table'[arg.ino].used = inode_table[arg.ino].used
        /\ inode_table'[arg.ino].type = inode_table[arg.ino].type
    BY <1>0, <2>1 DEF Inode
  <2>4. QED
    BY <2>1, <2>2, <2>3 DEF UnsavedInv
<1>11. CASE FreeDone
  <2> DEFINE r == inode_table[arg.ino]
             freed == [r EXCEPT !.block_count = 0, !.file_size = 0,
                                !.used = r.used /\ arg.op # "delete"]
  <2>1. pc = "free" /\ UNCHANGED <<table, arg>> /\ pc' = AfterFree(arg.op) /\ r \in Inode
    BY <1>0, <1>11 DEF FreeDone
  <2>2. inode_table' = [inode_table EXCEPT ![arg.ino] = freed]
    BY <1>11, <2>1 DEF FreeDone, Inode
  <2>3. \A i \in Inodes : Clear(i)' \/ Touched(i)'
    BY <1>0, <2>1, <2>2, OtherInodes DEF UnsavedInv, Touched
  <2>4. CASE arg.op = "write"
    <3>1. pc' = "alloc" /\ arg'.op = "write"
      BY <2>1, <2>4 DEF AfterFree
    <3>2. r.used /\ r.type = FILE_TYPE
      BY <2>1, <2>4 DEF UnsavedInv
    <3>3. Emptied(arg.ino)'
      <4>1. inode_table'[arg.ino] = freed
        BY <1>0, <2>2
      <4>2. freed.used /\ freed.type = FILE_TYPE /\ freed.block_count = 0 /\ freed.file_size = 0
        BY <2>1, <2>4, <3>2 DEF Inode
      <4>3. QED
        BY <2>1, <4>1, <4>2 DEF Emptied
    <3>4. QED
      BY <2>3, <3>1, <3>3 DEF UnsavedInv
  <2>5. CASE arg.op = "delete"
    <3>1. pc' = "save"
      BY <2>1, <2>5 DEF AfterFree
    <3>2. QED
      BY <2>3, <3>1 DEF UnsavedInv
  <2>6. QED
    BY <2>1, <2>4, <2>5 DEF UnsavedInv
<1>12. CASE WriteAlloc
  <2>1. pc = "alloc" /\ pc' = "put" /\ UNCHANGED <<inode_table, table, arg>>
    BY <1>12 DEF WriteAlloc
  <2>2. QED
    BY <1>0, <2>1, SameTables DEF UnsavedInv, Touched
<1>13. CASE WriteBlock
  <2> DEFINE r == [inode_table[arg.ino] EXCEPT !.blocks[turn + 1] = new]
  <2>1. /\ pc = "put" /\ pc' = "alloc" /\ UNCHANGED <<table, arg>>
        /\ inode_table' = [inode_table EXCEPT ![arg.ino] = r]
    BY <1>13 DEF WriteBlock
  <2>2. \A i \in Inodes : Clear(i)' \/ Touched(i)'
    BY <1>0, <2>1, OtherInodes DEF UnsavedInv, Touched
  <2>3. arg'.op = "write" /\ Emptied(arg.ino)'
    BY <1>0, <2>1 DEF UnsavedInv, Emptied, Inode
  <2>4. QED
    BY <2>1, <2>2, <2>3 DEF UnsavedInv
<1>14. CASE WriteFailed
  <2>1. Return(-1) /\ pc = "alloc" /\ UNCHANGED <<inode_table, table>>
    BY <1>14 DEF WriteFailed
  <2>2. \A i \in Inodes : Clear(i)
    BY <2>1 DEF UnsavedInv, Touched, Clear
  <2>3. QED
    BY <2>1, <2>2, SameTables, Returned
<1>15. CASE WriteDone
  <2> DEFINE r == [inode_table[arg.ino] EXCEPT !.block_count = turn, !.file_size = Len(arg.data)]
  <2>1. /\ pc = "alloc" /\ pc' = "save" /\ UNCHANGED <<table, arg>>
        /\ inode_table' = [inode_table EXCEPT ![arg.ino] = r]
    BY <1>15 DEF WriteDone
  <2>2. \A i \in Inodes : Clear(i)' \/ Touched(i)'
    BY <1>0, <2>1, OtherInodes DEF UnsavedInv, Touched
  <2>3. QED
    BY <2>1, <2>2 DEF UnsavedInv
<1>16. CASE save_inode_table
  <2>1. pc' = "flush" /\ UNCHANGED <<inode_table, arg>>
    BY <1>16 DEF save_inode_table
  <2>2. ASSUME NEW i \in Inodes PROVE Clear(i)' \/ Touched(i)'
    <3>1. CASE Agree(i)
      BY <1>16, <3>1, FirstPartAgrees DEF Clear
    <3>2. CASE Emptied(i)
      BY <2>1, <3>2 DEF Clear, Emptied
    <3>3. CASE Touched(i)
      BY <2>1, <3>3 DEF Touched
    <3>4. QED
      BY <3>1, <3>2, <3>3 DEF UnsavedInv, Clear
  <2>3. QED
    BY <2>1, <2>2 DEF UnsavedInv
<1>17. CASE FlushTable
  <2>1. Return(0) /\ inode_table' = table'
    BY <1>17 DEF FlushTable
  <2>2. \A i \in Inodes : Clear(i)'
    BY <2>1 DEF Clear, Agree, Meaning
  <2>3. QED
    BY <2>1, <2>2, Returned
<1>18. CASE Restart \/ Crash
  <2>1. Return(0) /\ inode_table' = table'
    BY <1>18 DEF Restart, Crash, Mount, disk
  <2>2. \A i \in Inodes : Clear(i)'
    BY <2>1 DEF Clear, Agree, Meaning
  <2>3. QED
    BY <2>1, <2>2, Returned
<1>19. CASE UNCHANGED vars
  <2>1. UNCHANGED <<inode_table, table, block, pc, arg>>
    BY <1>19 DEF vars
  <2>2. FreeSlots(arg.dir)' = FreeSlots(arg.dir)
    BY <2>1 DEF FreeSlots, Positions, SlotAt
  <2>3. QED
    BY <1>0, <2>1, <2>2, SameTables DEF UnsavedInv, CreateOK, Touched
<1>20. QED
  BY <1>1, <1>2, <1>3, <1>4, <1>5, <1>6, <1>7, <1>8, <1>9, <1>10, <1>11, <1>12, <1>13,
     <1>14, <1>15, <1>16, <1>17, <1>18, <1>19
  DEF AnyNext, AnySession, AnyCommand, CommandOf, Step, handle_create, handle_delete

\* Whatever the program has run and wherever it has died: the disk has all that
\* memory has, but for what the running call has touched, and for the files of
\* failed writes.
THEOREM UnsavedOnlyFailedWrites == Spec => []UnsavedOnlyByFailedWrite
<1>1. Init => TypeInv /\ UnsavedInv
  BY InitTypeInv, InitUnsavedInv
<1>2. TypeInv /\ UnsavedInv /\ [Next]_vars => TypeInv' /\ UnsavedInv'
  BY StepTypeInv, StepUnsavedInv, AnyLemma
<1>3. QED
  BY <1>1, <1>2, UnsavedInvImplies, PTL DEF Spec
=============================================================================
