---------------------------- MODULE EntriesProofs ----------------------------
(***************************************************************************)
(* Proof that within a session names and inodes stay in step, as long as   *)
(* no text reads as a directory entry of an inode but the root.            *)
(***************************************************************************)
EXTENDS FileStoreProofs

\* EntriesMatchInodes, by what an entry holds.
NameAt(d, p) == SlotAt(d, p).name
IndexAt(d, p) == SlotAt(d, p).inode_index
Same(d, p) ==
  /\ NameAt(d, p)' = NameAt(d, p)
  /\ IndexAt(d, p)' = IndexAt(d, p)
Matched ==
  \A d \in Inodes : \A p \in Entries(d) :
    LET i == IndexAt(d, p) IN
    /\ i \in Inodes /\ inode_table[i].used
    /\ inode_table[i].parent_inode = d
    /\ \A q \in Entries(d) : IndexAt(d, q) = i => q = p
Named(i) == \E d \in Inodes : \E p \in Entries(d) : IndexAt(d, p) = i

\* The inode of a running create has no entry yet, that of a running delete
\* none any more.  Of an inode that is losing its blocks, the array names block
\* 0 instead, which is never written.
TextNamesNobody ==
  \A b \in Blocks, s \in Slots :
    block[b][s].name \in Text => block[b][s].inode_index \in {0, NotAnInode}
EntriesInv ==
  /\ Matched
  /\ TextNamesNobody
  /\ block[0] = EmptyBlock
  /\ pc = "free" => \A k \in 1 .. turn : inode_table[arg.ino].blocks[k] = 0
  /\ pc \in {"insert", "attach"} =>
       inode_table[arg.ino].used /\ inode_table[arg.ino].parent_inode = arg.dir
  /\ pc \in {"insert", "attach"} \/ (pc = "free" /\ arg.op = "delete") => ~Named(arg.ino)

LEMMA EntryLemma ==
  ASSUME NEW d \in Inodes, NEW p
  PROVE  /\ p \in Entries(d) <=> p \in Positions(d) /\ NameAt(d, p) \in Components \ {""}
         /\ p \in Entries(d)' <=> p \in Positions(d)' /\ NameAt(d, p)' \in Components \ {""}
BY DEF Entries, NameAt, SlotAt

LEMMA PlaceLemma ==
  ASSUME NEW d, NEW p
  PROVE  /\ NameAt(d, p) = block[inode_table[d].blocks[p[1]]][p[2]].name
         /\ IndexAt(d, p) = block[inode_table[d].blocks[p[1]]][p[2]].inode_index
         /\ NameAt(d, p)' = block'[inode_table'[d].blocks[p[1]]][p[2]].name
         /\ IndexAt(d, p)' = block'[inode_table'[d].blocks[p[1]]][p[2]].inode_index
BY DEF NameAt, IndexAt, SlotAt

\* Entries only go, and the inodes of those that stay do not change.
LEMMA LessEntries ==
  ASSUME Matched,
         \A d \in Inodes : \A p \in Entries(d)' : p \in Entries(d) /\ Same(d, p),
         \A i \in Inodes : Named(i) => /\ inode_table'[i].used = inode_table[i].used
                                      /\ inode_table'[i].parent_inode = inode_table[i].parent_inode
  PROVE  Matched' /\ \A i \in Inodes : Named(i)' => Named(i)
<1>1. \A i \in Inodes : Named(i)' => Named(i)
  BY DEF Named, Same
<1>2. ASSUME NEW d \in Inodes, NEW p \in Entries(d)'
      PROVE  LET i == IndexAt(d, p)' IN
             /\ i \in Inodes /\ inode_table'[i].used /\ inode_table'[i].parent_inode = d
             /\ \A q \in Entries(d)' : IndexAt(d, q)' = i => q = p
  <2>1. p \in Entries(d) /\ Same(d, p)
    OBVIOUS
  <2>2. PICK i \in Inodes : i = IndexAt(d, p)
    BY <2>1 DEF Matched
  <2>3. Named(i)
    BY <2>1, <2>2 DEF Named
  <2>4. \A q \in Entries(d) : IndexAt(d, q) = i => q = p
    BY <2>1, <2>2 DEF Matched
  <2>5. inode_table[i].used /\ inode_table[i].parent_inode = d
    BY <2>1, <2>2 DEF Matched
  <2>6. QED
    BY <2>1, <2>2, <2>3, <2>4, <2>5 DEF Same
<1>3. Matched'
  BY <1>2 DEF Matched
<1>4. QED
  BY <1>1, <1>3

\* What an inode's blocks hold is as before.
SameBlocks(d) ==
  /\ inode_table'[d].block_count = inode_table[d].block_count
  /\ \A k \in 1 .. inode_table[d].block_count :
       /\ inode_table'[d].blocks[k] = inode_table[d].blocks[k]
       /\ \A s \in Slots : block'[inode_table[d].blocks[k]][s] = block[inode_table[d].blocks[k]][s]

LEMMA SameEntries ==
  ASSUME NEW d \in Inodes, SameBlocks(d)
  PROVE  \A p : /\ p \in Entries(d)' <=> p \in Entries(d)
                /\ p \in Entries(d) => Same(d, p)
<1>1. Positions(d)' = Positions(d)
  BY DEF SameBlocks, Positions
<1>2. ASSUME NEW p \in Positions(d) PROVE Same(d, p)
  <2>1. p[1] \in 1 .. inode_table[d].block_count /\ p[2] \in Slots
    BY DEF Positions
  <2>2. QED
    <3>1. block'[inode_table'[d].blocks[p[1]]][p[2]] = block[inode_table[d].blocks[p[1]]][p[2]]
      BY <2>1 DEF SameBlocks
    <3>2. /\ NameAt(d, p) = block[inode_table[d].blocks[p[1]]][p[2]].name
          /\ IndexAt(d, p) = block[inode_table[d].blocks[p[1]]][p[2]].inode_index
          /\ NameAt(d, p)' = block'[inode_table'[d].blocks[p[1]]][p[2]].name
          /\ IndexAt(d, p)' = block'[inode_table'[d].blocks[p[1]]][p[2]].inode_index
      BY PlaceLemma
    <3>3. QED
      BY <3>1, <3>2 DEF Same
<1>3. \A p : p \in Entries(d)' <=> p \in Entries(d)
  BY <1>1, <1>2, EntryLemma DEF Same
<1>4. QED
  BY <1>2, <1>3, EntryLemma

LEMMA NoEntries ==
  ASSUME NEW d \in Inodes, inode_table'[d].block_count = 0
  PROVE  Entries(d)' = {}
<1>1. Positions(d)' = {}
  BY DEF Positions
<1>2. QED
  BY <1>1 DEF Entries

LEMMA ShrunkEntries ==
  ASSUME Matched,
         \A d \in Inodes : SameBlocks(d) \/ inode_table'[d].block_count = 0,
         \A i \in Inodes : Named(i) => /\ inode_table'[i].used = inode_table[i].used
                                      /\ inode_table'[i].parent_inode = inode_table[i].parent_inode
  PROVE  Matched' /\ \A i \in Inodes : Named(i)' => Named(i)
<1>1. ASSUME NEW d \in Inodes, NEW p \in Entries(d)'
      PROVE  p \in Entries(d) /\ Same(d, p)
  BY <1>1, SameEntries, NoEntries
<1>2. QED
  BY <1>1, LessEntries

\* One entry more, of an inode in use that had none.
LEMMA MoreEntries ==
  ASSUME Matched, NEW d \in Inodes, NEW p, NEW j \in Inodes, ~Named(j),
         inode_table'[j].used, inode_table'[j].parent_inode = d,
         \A e \in Inodes : \A q \in Entries(e)' :
           \/ q \in Entries(e) /\ Same(e, q)
           \/ e = d /\ q = p /\ IndexAt(e, q)' = j,
         \A i \in Inodes : /\ inode_table'[i].used = inode_table[i].used
                          /\ inode_table'[i].parent_inode = inode_table[i].parent_inode
  PROVE  Matched'
<1>1. ASSUME NEW e \in Inodes, NEW q \in Entries(e)'
      PROVE  LET i == IndexAt(e, q)' IN
             /\ i \in Inodes /\ inode_table'[i].used /\ inode_table'[i].parent_inode = e
             /\ \A r \in Entries(e)' : IndexAt(e, r)' = i => r = q
  <2>1. CASE q \in Entries(e) /\ Same(e, q)
    <3>1. PICK i \in Inodes : i = IndexAt(e, q)
      BY <2>1 DEF Matched
    <3>2. i # j
      BY <2>1, <3>1 DEF Named
    <3>3. /\ inode_table[i].used /\ inode_table[i].parent_inode = e
          /\ \A r \in Entries(e) : IndexAt(e, r) = i => r = q
      BY <2>1, <3>1 DEF Matched
    <3>4. QED
      BY <2>1, <3>1, <3>2, <3>3 DEF Same
  <2>2. CASE e = d /\ q = p /\ IndexAt(e, q)' = j
    <3>1. \A r \in Entries(e) : IndexAt(e, r) # j
      BY DEF Named
    <3>2. QED
      BY <2>2, <3>1 DEF Same
  <2>3. QED
    BY <2>1, <2>2
<1>2. QED
  BY <1>1 DEF Matched

LEMMA QuietEntries ==
  ASSUME EntriesInv, UNCHANGED <<inode_table, block>>
  PROVE  /\ Matched' /\ TextNamesNobody' /\ block'[0] = EmptyBlock
         /\ \A i \in Inodes : Named(i)' => Named(i)
<1>1. Matched /\ TextNamesNobody /\ block[0] = EmptyBlock
  BY DEF EntriesInv
<1>2. \A d \in Inodes : SameBlocks(d)
  BY DEF SameBlocks
<1>3. Matched' /\ \A i \in Inodes : Named(i)' => Named(i)
  BY <1>1, <1>2, ShrunkEntries
<1>4. TextNamesNobody' /\ block'[0] = EmptyBlock
  BY <1>1 DEF TextNamesNobody
<1>5. QED
  BY <1>3, <1>4

\* Neither a call's fresh block nor a slot of another inode is in an inode
\* that is not losing or filling its blocks.
LEMMA BlockOfOne ==
  ASSUME TypeInv, OwnershipInv, pc # "free", NEW d \in Inodes,
         pc \in {"alloc", "put"} => arg.ino # d, NEW k \in 1 .. inode_table[d].block_count
  PROVE  /\ k \in 1 .. MAX_BLOCKS_PER_INODE
         /\ inode_table[d].blocks[k] \in Blocks /\ inode_table[d].blocks[k] \notin {0, new}
         /\ \A e \in Inodes, l \in 1 .. MAX_BLOCKS_PER_INODE :
              /\ pc \in {"alloc", "put"} => arg.ino # e
              /\ l \in 1 .. inode_table[e].block_count
              /\ inode_table[d].blocks[k] = inode_table[e].blocks[l]
              => d = e /\ k = l
<1>1. /\ inode_table[d].block_count \in 0 .. MAX_BLOCKS_PER_INODE
      /\ inode_table[d].blocks \in [1 .. MAX_BLOCKS_PER_INODE -> Blocks]
  BY TypeFacts DEF Inode
<1>2. k \in 1 .. MAX_BLOCKS_PER_INODE /\ inode_table[d].blocks[k] \in Blocks
  BY <1>1, SizesLemma
<1>3. k \in Held(d)
  BY DEF Held
<1>4. inode_table[d].blocks[k] >= FIRST_DATA_BLOCK /\ inode_table[d].blocks[k] # new
  BY <1>3 DEF OwnershipInv, NoSharedBlock
<1>5. inode_table[d].blocks[k] # 0
  BY <1>4, SizesLemma
<1>6. ASSUME NEW e \in Inodes, NEW l \in 1 .. inode_table[e].block_count,
             pc \in {"alloc", "put"} => arg.ino # e,
             inode_table[d].blocks[k] = inode_table[e].blocks[l]
      PROVE  d = e /\ k = l
  BY <1>3, <1>6 DEF Held, OwnershipInv, NoSharedBlock
<1>7. QED
  BY <1>2, <1>4, <1>5, <1>6

\* Changing one slot of an inode changes no other slot.
LEMMA OtherSlots ==
  ASSUME TypeInv, OwnershipInv, pc \notin {"free", "alloc", "put"}, UNCHANGED inode_table,
         NEW d \in Inodes, NEW p \in Positions(d), NEW slot, SetSlot(d, p, slot),
         NEW e \in Inodes, NEW q \in Positions(e)
  PROVE  /\ e = d /\ q = p => NameAt(e, q)' = slot.name /\ IndexAt(e, q)' = slot.inode_index
         /\ ~(e = d /\ q = p) => Same(e, q)
<1>1. /\ p[1] \in 1 .. inode_table[d].block_count /\ p[2] \in Slots /\ p = <<p[1], p[2]>>
      /\ q[1] \in 1 .. inode_table[e].block_count /\ q[2] \in Slots /\ q = <<q[1], q[2]>>
  BY DEF Positions
<1>2. /\ inode_table[d].blocks[p[1]] \in Blocks /\ inode_table[e].blocks[q[1]] \in Blocks
      /\ p[1] \in 1 .. MAX_BLOCKS_PER_INODE
  BY <1>1, BlockOfOne
<1>3. inode_table[e].blocks[q[1]] = inode_table[d].blocks[p[1]] => e = d /\ q[1] = p[1]
  BY <1>1, <1>2, BlockOfOne
<1> DEFINE b == inode_table[d].blocks[p[1]]
           c == inode_table[e].blocks[q[1]]
<1>4. block' = [block EXCEPT ![b][p[2]] = slot]
  BY DEF SetSlot
<1>5. block \in [Blocks -> [Slots -> DirEntry]]
  BY TypeFacts
<1>6. b \in Blocks /\ c \in Blocks
  BY <1>2
<1>7. /\ NameAt(e, q)' = block'[c][q[2]].name /\ NameAt(e, q) = block[c][q[2]].name
      /\ IndexAt(e, q)' = block'[c][q[2]].inode_index
      /\ IndexAt(e, q) = block[c][q[2]].inode_index
  BY PlaceLemma
<1> HIDE DEF b, c
<1>8. block'[c][q[2]] = IF c = b /\ q[2] = p[2] THEN slot ELSE block[c][q[2]]
  BY <1>1, <1>4, <1>5, <1>6
<1>9. (c = b /\ q[2] = p[2]) <=> (e = d /\ q = p)
  BY <1>1, <1>3 DEF b, c
<1>10. QED
  BY <1>7, <1>8, <1>9 DEF Same

\* It keeps TextNamesNobody and block 0, if it is no text's.
LEMMA SetSlotPlain ==
  ASSUME TypeInv, OwnershipInv, TextNamesNobody, block[0] = EmptyBlock,
         pc \notin {"free", "alloc", "put"},
         NEW d \in Inodes, NEW p \in Positions(d), NEW slot, SetSlot(d, p, slot),
         slot.name \in Components
  PROVE  TextNamesNobody' /\ block'[0] = EmptyBlock
<1>1. p[1] \in 1 .. inode_table[d].block_count /\ p[2] \in Slots
  BY DEF Positions
<1>2. inode_table[d].blocks[p[1]] \in Blocks /\ inode_table[d].blocks[p[1]] # 0
  BY <1>1, BlockOfOne
<1>3. slot.name \notin Text
  BY TextAssumption
<1>4. block' = [block EXCEPT ![inode_table[d].blocks[p[1]]][p[2]] = slot]
  BY DEF SetSlot
<1> DEFINE b == inode_table[d].blocks[p[1]]
<1> HIDE DEF b
<1>5. block' = [block EXCEPT ![b][p[2]] = slot] /\ b \in Blocks /\ b # 0
  BY <1>2, <1>4 DEF b
<1>6. block'[0] = EmptyBlock
  BY <1>5, TypeFacts, SizesLemma
<1>7. \A c \in Blocks, s \in Slots : block'[c][s] = slot \/ block'[c][s] = block[c][s]
  BY <1>1, <1>5, TypeFacts
<1>8. QED
  BY <1>3, <1>6, <1>7 DEF TextNamesNobody

\* So does writing the fresh block.
LEMMA FreshBlockPlain ==
  ASSUME TypeInv, OwnershipInv, TextNamesNobody, block[0] = EmptyBlock, new \in Blocks,
         NEW content, block' = [block EXCEPT ![new] = content],
         \A s \in Slots : content[s].name \in Text => content[s].inode_index \in {0, NotAnInode}
  PROVE  TextNamesNobody' /\ block'[0] = EmptyBlock
<1>1. new # 0
  BY SizesLemma DEF OwnershipInv, FreshBlock
<1>2. block'[0] = EmptyBlock
  BY <1>1, TypeFacts, SizesLemma
<1>3. \A c \in Blocks : block'[c] = IF c = new THEN content ELSE block[c]
  BY TypeFacts
<1>4. QED
  BY <1>2, <1>3 DEF TextNamesNobody

-----------------------------------------------------------------------------
(* The steps.                                                              *)

LEMMA InitEntries == Init => EntriesInv
<1> SUFFICES ASSUME Init PROVE EntriesInv
  OBVIOUS
<1>1. \A d \in Inodes : inode_table[d].block_count = 0
  BY DEF Init, NewInode, UnusedInode
<1>2. \A d \in Inodes : Positions(d) = {}
  BY <1>1 DEF Positions
<1>3. Matched
  BY <1>2 DEF Matched, Entries
<1>4. block = [b \in Blocks |-> EmptyBlock] /\ pc = "idle"
  BY DEF Init
<1>5. TextNamesNobody
  BY <1>4 DEF TextNamesNobody, EmptyBlock, EmptySlot
<1>6. QED
  BY <1>3, <1>4, <1>5, SizesLemma DEF EntriesInv

LEMMA StepEntries ==
  ASSUME TypeInv, TypeInv', OwnershipInv, UnsavedInv, FilesInv, EntriesInv, TextsAreNoEntries,
         [AnySession]_vars
  PROVE  EntriesInv'
<1>1. /\ inode_table \in [Inodes -> Inode] /\ arg.ino \in Inodes /\ arg.dir \in Inodes
      /\ Matched /\ TextNamesNobody /\ block[0] = EmptyBlock
  BY TypeFacts DEF EntriesInv
<1>2. ASSUME NEW path \in AnyPath, CreateRefused(path) \/ DeleteRefused(path) \/ WriteRefused(path)
      PROVE  EntriesInv'
  <2>1. pc' = "idle" /\ UNCHANGED <<inode_table, block>>
    BY <1>2 DEF CreateRefused, DeleteRefused, WriteRefused, Return
  <2>2. QED
    BY <2>1, QuietEntries DEF EntriesInv
<1>3. ASSUME NEW path \in AnyPath, handle_cd(path)
      PROVE  EntriesInv'
  <2>1. pc' = "idle" /\ UNCHANGED <<inode_table, block>>
    BY <1>3 DEF handle_cd, disk
  <2>2. QED
    BY <2>1, QuietEntries DEF EntriesInv
<1>4. ASSUME NEW path \in AnyPath, NEW type \in {FILE_TYPE, DIR_TYPE}, Create(path, type)
      PROVE  EntriesInv'
  <2>1. PICK d \in Inodes, j \in Inodes :
          /\ ~inode_table[j].used
          /\ inode_table' = [inode_table EXCEPT ![j] = NewInode(type, d)]
          /\ arg' = [NoArg EXCEPT !.op = "create", !.ino = j, !.dir = d, !.name = Last(path.comps)]
    BY <1>4 DEF Create, IsFirst, UnusedInodes
  <2>2. pc' = "insert" /\ block' = block /\ arg'.ino = j /\ arg'.dir = d
    BY <1>4, <2>1 DEF Create, NoArg
  <2>3. /\ inode_table'[j] = NewInode(type, d)
        /\ \A i \in Inodes : i # j => inode_table'[i] = inode_table[i]
    BY <1>1, <2>1
  <2>4. inode_table'[j].used /\ inode_table'[j].parent_inode = d /\ inode_table'[j].block_count = 0
    BY <2>3 DEF NewInode, UnusedInode
  <2>5. ~Named(j)
    BY <1>1, <2>1 DEF Named, Matched
  <2>6. \A i \in Inodes : i # j => SameBlocks(i)
    BY <2>2, <2>3 DEF SameBlocks
  <2>7. Matched' /\ ~Named(j)'
    BY <1>1, <2>3, <2>4, <2>5, <2>6, ShrunkEntries
  <2>8. TextNamesNobody'
    BY <1>1, <2>2 DEF TextNamesNobody
  <2>9. QED
    BY <1>1, <2>2, <2>4, <2>7, <2>8 DEF EntriesInv
<1>5. ASSUME NEW path \in AnyPath, Delete(path)
      PROVE  EntriesInv'
  <2>1. PICK j \in Inodes \ {0} :
          /\ \E p \in EntriesOf(inode_table[j].parent_inode, j) :
               SetSlot(inode_table[j].parent_inode, p, Cleared(SlotAt(inode_table[j].parent_inode, p)))
          /\ arg' = [NoArg EXCEPT !.op = "delete", !.ino = j]
    BY <1>5 DEF Delete
  <2>2. PICK d \in Inodes : d = inode_table[j].parent_inode
    BY <1>1 DEF Inode
  <2>3. PICK p \in EntriesOf(d, j) : SetSlot(d, p, EmptySlot)
    BY <2>1, <2>2 DEF Cleared
  <2>4. /\ pc = "idle" /\ pc' = "free" /\ UNCHANGED <<inode_table, turn>>
        /\ arg'.ino = j /\ arg'.op = "delete"
    BY <1>5, <2>1 DEF Delete, NoArg
  <2>5. turn = 0
    BY <2>4 DEF OwnershipInv, CountersOK
  <2>6. p \in Positions(d)
    BY DEF EntriesOf
  <2>7. IndexAt(d, p) = j /\ NameAt(d, p) # ""
    BY DEF EntriesOf, IndexAt, NameAt
  <2>8. p \in Entries(d)
    <3>1. /\ p[1] \in 1 .. inode_table[d].block_count /\ p[2] \in Slots
          /\ NameAt(d, p) = block[inode_table[d].blocks[p[1]]][p[2]].name
          /\ IndexAt(d, p) = block[inode_table[d].blocks[p[1]]][p[2]].inode_index
      BY <2>6, PlaceLemma DEF Positions
    <3>2. inode_table[d].blocks[p[1]] \in Blocks
      BY <2>4, <3>1, BlockOfOne
    <3>3. NameAt(d, p) \in Components \union Text
      BY <3>1, <3>2, TypeFacts DEF DirEntry
    <3>4. j \notin {0, NotAnInode}
      BY DEF Inodes, NotAnInode
    <3>5. NameAt(d, p) \notin Text
      BY <1>1, <2>7, <3>1, <3>2, <3>4 DEF TextNamesNobody
    <3>6. QED
      BY <2>6, <2>7, <3>3, <3>5, EntryLemma
  <2>9. ASSUME NEW e \in Inodes, NEW q \in Positions(e)
        PROVE  /\ e = d /\ q = p => NameAt(e, q)' = ""
               /\ ~(e = d /\ q = p) => Same(e, q)
    <3>1. PICK slot : slot = EmptySlot
      OBVIOUS
    <3>2. SetSlot(d, p, slot)
      BY <2>3, <3>1
    <3>3. slot.name = ""
      BY <3>1 DEF EmptySlot
    <3>4. pc \notin {"free", "alloc", "put"} /\ UNCHANGED inode_table
      BY <2>4
    <3>5. /\ e = d /\ q = p => NameAt(e, q)' = slot.name
          /\ ~(e = d /\ q = p) => Same(e, q)
      BY <2>6, <3>4, <3>2, OtherSlots
    <3>6. QED
      BY <3>5, <3>3
  <2>10. ASSUME NEW e \in Inodes, NEW q \in Entries(e)'
        PROVE  q \in Entries(e) /\ Same(e, q) /\ ~(e = d /\ q = p)
    <3>1. q \in Positions(e)' /\ NameAt(e, q)' \in Components \ {""}
      BY EntryLemma
    <3>2. q \in Positions(e)
      BY <2>4, <3>1 DEF Positions
    <3>3. ~(e = d /\ q = p) /\ Same(e, q)
      BY <2>9, <3>1, <3>2
    <3>4. QED
      BY <3>1, <3>2, <3>3, EntryLemma DEF Same
  <2>11. Matched'
    BY <1>1, <2>4, <2>10, LessEntries
  <2>12. ~Named(j)'
    <3>1. ASSUME NEW e \in Inodes, NEW q \in Entries(e)', IndexAt(e, q)' = j
          PROVE  FALSE
      <4>1. q \in Entries(e) /\ IndexAt(e, q) = j /\ ~(e = d /\ q = p)
        BY <2>10, <3>1 DEF Same
      <4>2. e = d
        BY <1>1, <2>2, <4>1 DEF Matched
      <4>3. QED
        BY <1>1, <2>8, <2>7, <4>1, <4>2 DEF Matched
    <3>2. QED
      BY <3>1 DEF Named
  <2>13. TextNamesNobody' /\ block'[0] = EmptyBlock
    BY <1>1, <2>3, <2>4, <2>6, SetSlotPlain DEF EmptySlot, Components
  <2>14. QED
    BY <2>4, <2>5, <2>11, <2>12, <2>13 DEF EntriesInv
<1>6. ASSUME NEW path \in AnyPath, NEW data \in AnyText, Write(path, data)
      PROVE  EntriesInv'
  <2>1. /\ pc = "idle" /\ pc' = "free" /\ arg'.op = "write"
        /\ UNCHANGED <<inode_table, block, turn>>
    BY <1>6 DEF Write, NoArg
  <2>2. turn' = 0
    BY <2>1 DEF OwnershipInv, CountersOK
  <2>3. QED
    BY <2>1, <2>2, QuietEntries DEF EntriesInv
<1>7. CASE InsertEntry
  <2>1. PICK d \in Inodes, j \in Inodes, name \in Components :
          d = arg.dir /\ j = arg.ino /\ name = arg.name
    BY <1>1, TypeFacts
  <2>2. PICK p \in FreeSlots(d) : SetSlot(d, p, [name |-> name, inode_index |-> j])
    BY <1>7, <2>1 DEF InsertEntry
  <2>3. pc = "insert" /\ pc' = "save" /\ UNCHANGED inode_table
    BY <1>7 DEF InsertEntry
  <2>4. p \in Positions(d)
    BY DEF FreeSlots
  <2>5. inode_table[j].used /\ inode_table[j].parent_inode = d /\ ~Named(j)
    BY <2>1, <2>3 DEF EntriesInv
  <2>6. ASSUME NEW e \in Inodes, NEW q \in Positions(e)
        PROVE  /\ e = d /\ q = p => IndexAt(e, q)' = j
               /\ ~(e = d /\ q = p) => Same(e, q)
    BY <2>2, <2>3, <2>4, OtherSlots
  <2>7. ASSUME NEW e \in Inodes, NEW q \in Entries(e)'
        PROVE  \/ q \in Entries(e) /\ Same(e, q)
               \/ e = d /\ q = p /\ IndexAt(e, q)' = j
    <3>1. q \in Positions(e)' /\ NameAt(e, q)' \in Components \ {""}
      BY EntryLemma
    <3>2. q \in Positions(e)
      BY <2>3, <3>1 DEF Positions
    <3>3. QED
      BY <2>6, <3>1, <3>2, EntryLemma DEF Same
  <2>8. Matched'
    BY <1>1, <2>3, <2>5, <2>7, MoreEntries
  <2>9. TextNamesNobody' /\ block'[0] = EmptyBlock
    BY <1>1, <2>2, <2>3, <2>4, SetSlotPlain
  <2>10. QED
    BY <2>3, <2>8, <2>9 DEF EntriesInv
<1>8. CASE InsertAlloc
  <2>1. pc = "insert" /\ pc' = "attach" /\ UNCHANGED <<inode_table, block, arg>>
    BY <1>8 DEF InsertAlloc
  <2>2. QED
    BY <1>1, <2>1, QuietEntries DEF EntriesInv
<1>9. CASE AttachBlock
  <2>1. PICK d \in Inodes, n \in 1 .. MAX_BLOCKS_PER_INODE, j \in Inodes, name \in Components :
          d = arg.dir /\ n = inode_table[d].block_count + 1 /\ j = arg.ino /\ name = arg.name
    BY <1>1, <1>9, AttachInArray, TypeFacts
  <2> DEFINE content == IF n = 1 THEN EmptyBlock
                        ELSE [EmptyBlock EXCEPT ![1] = [name |-> name, inode_index |-> j]]
  <2>2. /\ inode_table' = [inode_table EXCEPT ![d].blocks[n] = new, ![d].block_count = n]
        /\ block' = [block EXCEPT ![new] = content]
        /\ pc = "attach" /\ pc' \in {"insert", "save"} /\ UNCHANGED arg /\ new \in Blocks
    <3>1. inode_table[d].block_count \in Nat
      BY <1>1, SizesLemma DEF Inode
    <3>2. (inode_table[d].block_count = 0) <=> (n = 1)
      BY <2>1, <3>1
    <3>3. QED
      BY <1>9, <2>1, <3>2 DEF AttachBlock, TypeInv, CallOK
  <2>3. /\ inode_table'[d].block_count = n
        /\ inode_table'[d].blocks = [inode_table[d].blocks EXCEPT ![n] = new]
        /\ inode_table'[d].used = inode_table[d].used
        /\ inode_table'[d].parent_inode = inode_table[d].parent_inode
        /\ \A i \in Inodes : i # d => inode_table'[i] = inode_table[i]
    BY <1>1, <2>2 DEF Inode
  <2>4. \A s \in Slots : content[s] = EmptySlot \/
          (n # 1 /\ s = 1 /\ content[s] = [name |-> name, inode_index |-> j])
    BY SizesLemma DEF EmptyBlock
  <2> HIDE DEF content
  <2>5. inode_table[j].used /\ inode_table[j].parent_inode = d /\ ~Named(j)
    BY <2>1, <2>2 DEF EntriesInv
  <2>6. ASSUME NEW e \in Inodes, NEW k \in 1 .. inode_table[e].block_count
        PROVE  block'[inode_table[e].blocks[k]] = block[inode_table[e].blocks[k]]
    BY <2>2, BlockOfOne, TypeFacts
  <2>7. ASSUME NEW e \in Inodes, NEW q \in Entries(e)'
        PROVE  \/ q \in Entries(e) /\ Same(e, q)
               \/ e = d /\ q = <<n, 1>> /\ n # 1 /\ IndexAt(e, q)' = j
    <3>1. q \in Positions(e)' /\ NameAt(e, q)' \in Components \ {""}
      BY EntryLemma
    <3>2. q[1] \in 1 .. inode_table'[e].block_count /\ q[2] \in Slots /\ q = <<q[1], q[2]>>
      <4>1. q \in Positions(e)'
        BY <3>1
      <4>2. QED
        BY <4>1 DEF Positions
    <3>3. /\ NameAt(e, q)' = block'[inode_table'[e].blocks[q[1]]][q[2]].name
          /\ IndexAt(e, q)' = block'[inode_table'[e].blocks[q[1]]][q[2]].inode_index
          /\ NameAt(e, q) = block[inode_table[e].blocks[q[1]]][q[2]].name
          /\ IndexAt(e, q) = block[inode_table[e].blocks[q[1]]][q[2]].inode_index
      BY PlaceLemma
    <3>4. CASE e # d
      <4>1. inode_table'[e] = inode_table[e]
        BY <2>3, <3>4
      <4>2. Same(e, q) /\ q \in Positions(e)
        BY <2>6, <3>2, <3>3, <4>1 DEF Same, Positions
      <4>3. QED
        BY <3>1, <4>2, EntryLemma DEF Same
    <3>5. CASE e = d /\ q[1] # n
      <4>1. /\ inode_table[d].block_count \in 0 .. MAX_BLOCKS_PER_INODE
            /\ inode_table[d].blocks \in [1 .. MAX_BLOCKS_PER_INODE -> Blocks]
        BY <1>1 DEF Inode
      <4>2. q[1] \in 1 .. inode_table[d].block_count /\ q[1] \in 1 .. MAX_BLOCKS_PER_INODE
        BY <2>1, <2>3, <3>2, <3>5, <4>1, SizesLemma
      <4>3. inode_table'[d].blocks[q[1]] = inode_table[d].blocks[q[1]]
        BY <2>3, <3>5, <4>1, <4>2
      <4>4. Same(e, q)
        BY <2>6, <3>5, <3>3, <4>2, <4>3 DEF Same
      <4>5. q \in Positions(e)
        BY <3>2, <3>5, <4>2 DEF Positions
      <4>6. QED
        BY <3>1, <4>4, <4>5, EntryLemma DEF Same
    <3>6. CASE e = d /\ q[1] = n
      <4>1. inode_table[d].blocks \in [1 .. MAX_BLOCKS_PER_INODE -> Blocks]
        BY <1>1 DEF Inode
      <4>2. inode_table'[d].blocks[n] = new
        BY <2>3, <4>1
      <4>3. block'[new] = content
        BY <2>2, TypeFacts
      <4>4. /\ NameAt(e, q)' = content[q[2]].name
            /\ IndexAt(e, q)' = content[q[2]].inode_index
        BY <3>6, <3>3, <4>2, <4>3
      <4>5. content[q[2]] # EmptySlot
        <5>1. EmptySlot.name = ""
          BY DEF EmptySlot
        <5>2. QED
          BY <3>1, <4>4, <5>1
      <4>6. q[2] = 1 /\ n # 1 /\ IndexAt(e, q)' = j
        BY <2>4, <3>2, <4>4, <4>5
      <4>7. QED
        BY <3>2, <3>6, <4>6
    <3>7. QED
      BY <3>4, <3>5, <3>6
  <2>8. \A i \in Inodes : /\ inode_table'[i].used = inode_table[i].used
                          /\ inode_table'[i].parent_inode = inode_table[i].parent_inode
    BY <2>3
  <2>9. Matched'
    <3>1. inode_table'[j].used /\ inode_table'[j].parent_inode = d
      BY <2>5, <2>8
    <3>2. \A e \in Inodes : \A q \in Entries(e)' :
            \/ q \in Entries(e) /\ Same(e, q)
            \/ e = d /\ q = <<n, 1>> /\ IndexAt(e, q)' = j
      BY <2>7
    <3>3. QED
      BY <1>1, <2>5, <2>8, <3>1, <3>2, MoreEntries
  <2>10. TextNamesNobody' /\ block'[0] = EmptyBlock
    <3>1. \A s \in Slots : content[s].name \notin Text
      <4>1. EmptySlot.name \notin Text /\ name \notin Text
        BY TextAssumption DEF EmptySlot, Components
      <4>2. QED
        BY <2>4, <4>1
    <3>2. QED
      BY <1>1, <2>2, <3>1, FreshBlockPlain
  <2>11. pc' = "insert" => ~Named(j)'
    <3>1. ASSUME pc' = "insert", NEW e \in Inodes, NEW q \in Entries(e)'
          PROVE  IndexAt(e, q)' # j
      <4>1. n = 1
        <5>1. inode_table[d].block_count = 0
          BY <1>9, <2>1, <3>1 DEF AttachBlock
        <5>2. QED
          BY <2>1, <5>1
      <4>2. q \in Entries(e) /\ Same(e, q)
        BY <2>7, <4>1
      <4>3. QED
        BY <2>5, <4>2 DEF Named, Same
    <3>2. QED
      BY <3>1 DEF Named
  <2>12. QED
    BY <2>1, <2>2, <2>5, <2>8, <2>9, <2>10, <2>11 DEF EntriesInv
<1>10. CASE InsertFailed
  <2>1. PICK j \in Inodes : j = arg.ino
    BY <1>1
  <2>2. /\ pc = "insert" /\ pc' = "idle" /\ UNCHANGED block
        /\ inode_table' = [inode_table EXCEPT ![j].used = FALSE]
    BY <1>10, <2>1 DEF InsertFailed, Return
  <2>3. /\ inode_table'[j].block_count = inode_table[j].block_count
        /\ inode_table'[j].blocks = inode_table[j].blocks
        /\ \A i \in Inodes : i # j => inode_table'[i] = inode_table[i]
    BY <1>1, <2>2 DEF Inode
  <2>4. ~Named(j)
    BY <2>1, <2>2 DEF EntriesInv
  <2>5. \A i \in Inodes : SameBlocks(i)
    BY <2>2, <2>3 DEF SameBlocks
  <2>6. Matched'
    BY <1>1, <2>3, <2>4, <2>5, ShrunkEntries
  <2>7. QED
    BY <1>1, <2>2, <2>6 DEF EntriesInv, TextNamesNobody
<1>11. CASE FreeBlock
  <2>1. PICK j \in Inodes, n \in 1 .. MAX_BLOCKS_PER_INODE : j = arg.ino /\ n = turn + 1
    BY <1>1, <1>11, TurnInArray
  <2>2. /\ inode_table' = [inode_table EXCEPT ![j].blocks[n] = 0]
        /\ pc = "free" /\ pc' = "free" /\ turn' = n /\ UNCHANGED <<block, arg>>
    BY <1>11, <2>1 DEF FreeBlock, NextTurn
  <2>3. /\ inode_table'[j].used = inode_table[j].used
        /\ inode_table'[j].parent_inode = inode_table[j].parent_inode
        /\ inode_table'[j].block_count = inode_table[j].block_count
        /\ inode_table'[j].blocks = [inode_table[j].blocks EXCEPT ![n] = 0]
        /\ inode_table[j].blocks \in [1 .. MAX_BLOCKS_PER_INODE -> Blocks]
        /\ \A i \in Inodes : i # j => inode_table'[i] = inode_table[i]
    BY <1>1, <2>2 DEF Inode
  <2>4. \A k : k # n => inode_table'[j].blocks[k] = inode_table[j].blocks[k]
    BY <2>3
  <2>5. inode_table'[j].blocks[n] = 0
    BY <2>3
  <2>6. ASSUME NEW e \in Inodes, NEW q \in Entries(e)'
        PROVE  q \in Entries(e) /\ Same(e, q)
    <3>1. /\ q \in Positions(e)' /\ NameAt(e, q)' \in Components \ {""}
          /\ NameAt(e, q)' = block'[inode_table'[e].blocks[q[1]]][q[2]].name
          /\ IndexAt(e, q)' = block'[inode_table'[e].blocks[q[1]]][q[2]].inode_index
      BY EntryLemma, PlaceLemma
    <3>2. q \in Positions(e) /\ q[2] \in Slots
      BY <2>3, <3>1 DEF Positions
    <3>3. ~(e = j /\ q[1] = n)
      <4>1. block'[0][q[2]] = EmptySlot
        BY <1>1, <2>2, <3>2 DEF EmptyBlock
      <4>2. EmptySlot.name = ""
        BY DEF EmptySlot
      <4>3. QED
        BY <2>5, <3>1, <4>1, <4>2
    <3>4. inode_table'[e].blocks[q[1]] = inode_table[e].blocks[q[1]]
      BY <2>3, <2>4, <3>3
    <3>5. /\ NameAt(e, q) = block[inode_table[e].blocks[q[1]]][q[2]].name
          /\ IndexAt(e, q) = block[inode_table[e].blocks[q[1]]][q[2]].inode_index
      BY PlaceLemma
    <3>6. Same(e, q)
      BY <2>2, <3>1, <3>4, <3>5 DEF Same
    <3>7. QED
      BY <3>1, <3>2, <3>6, EntryLemma DEF Same
  <2>7. Matched' /\ \A i \in Inodes : Named(i)' => Named(i)
    BY <1>1, <2>3, <2>6, LessEntries
  <2>8. \A k \in 1 .. n : inode_table'[j].blocks[k] = 0
    BY <2>1, <2>2, <2>4, <2>5, TypeFacts, SizesLemma DEF EntriesInv
  <2>9. arg.op = "delete" => ~Named(j)'
    BY <2>1, <2>2, <2>7 DEF EntriesInv
  <2>10. QED
    BY <1>1, <2>1, <2>2, <2>7, <2>8, <2>9 DEF EntriesInv, TextNamesNobody
<1>12. CASE FreeDone
  <2>1. PICK j \in Inodes : j = arg.ino
    BY <1>1
  <2>2. /\ inode_table' = [inode_table EXCEPT ![j].block_count = 0, ![j].file_size = 0,
                                              ![j].used = @ /\ arg.op # "delete"]
        /\ pc = "free" /\ pc' \in {"alloc", "save"} /\ UNCHANGED block
    BY <1>12, <2>1 DEF FreeDone, AfterFree
  <2>3. /\ inode_table'[j].used = (inode_table[j].used /\ arg.op # "delete")
        /\ inode_table'[j].parent_inode = inode_table[j].parent_inode
        /\ inode_table'[j].block_count = 0
        /\ \A i \in Inodes : i # j => inode_table'[i] = inode_table[i]
    BY <1>1, <2>2 DEF Inode
  <2>4. Named(j) => arg.op # "delete" /\ inode_table[j].used
    BY <1>1, <2>1, <2>2 DEF EntriesInv, Named, Matched
  <2>5. \A i \in Inodes : i # j => SameBlocks(i)
    BY <2>2, <2>3 DEF SameBlocks
  <2>6. \A i \in Inodes : Named(i) => /\ inode_table'[i].used = inode_table[i].used
                                      /\ inode_table'[i].parent_inode = inode_table[i].parent_inode
    <3>1. Named(j) => inode_table'[j].used = inode_table[j].used
      BY <2>3, <2>4
    <3>2. QED
      BY <2>3, <3>1
  <2>7. Matched'
    BY <1>1, <2>3, <2>5, <2>6, ShrunkEntries
  <2>8. QED
    BY <1>1, <2>2, <2>7 DEF EntriesInv, TextNamesNobody
<1>13. CASE WriteAlloc
  <2>1. pc' = "put" /\ UNCHANGED <<inode_table, block>>
    BY <1>13 DEF WriteAlloc
  <2>2. QED
    BY <2>1, QuietEntries DEF EntriesInv
<1>14. CASE WriteBlock
  <2>1. PICK j \in Inodes : j = arg.ino
    BY <1>1
  <2>2. /\ inode_table' = [inode_table EXCEPT ![j].blocks[turn + 1] = new]
        /\ block' = [block EXCEPT ![new] = Chunk(arg.data, turn + 1)]
        /\ pc = "put" /\ pc' = "alloc" /\ new \in Blocks
    BY <1>14, <2>1 DEF WriteBlock, TypeInv, CallOK
  <2>3. /\ inode_table'[j].used = inode_table[j].used
        /\ inode_table'[j].parent_inode = inode_table[j].parent_inode
        /\ inode_table'[j].block_count = inode_table[j].block_count
        /\ \A i \in Inodes : i # j => inode_table'[i] = inode_table[i]
    BY <1>1, <2>2 DEF Inode
  <2>4. inode_table[j].block_count = 0
    BY <2>1, <2>2 DEF UnsavedInv, Emptied
  <2>5. ASSUME NEW i \in Inodes \ {j}
        PROVE  SameBlocks(i)
    <3>1. ASSUME NEW k \in 1 .. inode_table[i].block_count
          PROVE  block'[inode_table[i].blocks[k]] = block[inode_table[i].blocks[k]]
      BY <2>1, <2>2, BlockOfOne, TypeFacts
    <3>2. QED
      BY <2>3, <3>1 DEF SameBlocks
  <2>6. Matched'
    BY <1>1, <2>3, <2>4, <2>5, ShrunkEntries
  <2>7. TextNamesNobody' /\ block'[0] = EmptyBlock
    <3>1. \A s \in Slots : Chunk(arg.data, turn + 1)[s].name \in Text
            => Chunk(arg.data, turn + 1)[s].inode_index \in {0, NotAnInode}
      BY DEF Chunk, TextSlot, EmptySlot, TextsAreNoEntries
    <3>2. QED
      BY <1>1, <2>2, <3>1, FreshBlockPlain
  <2>8. QED
    BY <2>2, <2>6, <2>7 DEF EntriesInv
<1>15. CASE WriteFailed
  <2>1. pc' = "idle" /\ UNCHANGED <<inode_table, block>>
    BY <1>15 DEF WriteFailed, Return
  <2>2. QED
    BY <2>1, QuietEntries DEF EntriesInv
<1>16. CASE WriteDone
  <2>1. PICK j \in Inodes : j = arg.ino
    BY <1>1
  <2>2. /\ inode_table' = [inode_table EXCEPT ![j].block_count = turn,
                                              ![j].file_size = Len(arg.data)]
        /\ pc = "alloc" /\ pc' = "save" /\ UNCHANGED block
    BY <1>16, <2>1 DEF WriteDone
  <2>3. /\ inode_table'[j].used = inode_table[j].used
        /\ inode_table'[j].parent_inode = inode_table[j].parent_inode
        /\ inode_table'[j].blocks = inode_table[j].blocks
        /\ inode_table'[j].block_count = turn
        /\ \A i \in Inodes : i # j => inode_table'[i] = inode_table[i]
    BY <1>1, <2>2 DEF Inode
  <2>4. \A i \in Inodes : i # j => SameBlocks(i)
    BY <2>2, <2>3 DEF SameBlocks
  <2>5. ASSUME NEW k \in 1 .. turn, NEW s \in Slots
        PROVE  block'[inode_table'[j].blocks[k]][s].name \notin Components \ {""}
    <3>1. block'[inode_table'[j].blocks[k]] = Chunk(arg.data, k)
      BY <2>1, <2>2, <2>3 DEF FilesInv
    <3>2. Chunk(arg.data, k)[s].name \in Text \union {""}
      <4>1. k \in Nat /\ s \in Nat \ {0} /\ (k - 1) * ENTRIES_PER_BLOCK \in Nat
        BY TypeFacts, SizesLemma, ProductLemma DEF Slots
      <4>2. (k - 1) * ENTRIES_PER_BLOCK + s <= Len(arg.data)
              => arg.data[(k - 1) * ENTRIES_PER_BLOCK + s] \in Text
        BY <4>1, TypeFacts
      <4>3. QED
        BY <4>2 DEF Chunk, TextSlot, EmptySlot
    <3>3. QED
      BY <3>1, <3>2, TextAssumption
  <2>6. Entries(j)' = {}
    BY <2>3, <2>5 DEF Entries, Positions, SlotAt
  <2>7. ASSUME NEW e \in Inodes, NEW q \in Entries(e)'
        PROVE  q \in Entries(e) /\ Same(e, q)
    BY <2>4, <2>6, SameEntries
  <2>8. Matched'
    BY <1>1, <2>3, <2>7, LessEntries
  <2>9. QED
    BY <1>1, <2>2, <2>8 DEF EntriesInv, TextNamesNobody
<1>17. CASE save_inode_table \/ FlushTable
  <2>1. pc' \in {"flush", "idle"} /\ UNCHANGED <<inode_table, block>>
    BY <1>17 DEF save_inode_table, FlushTable, Return
  <2>2. QED
    BY <2>1, QuietEntries DEF EntriesInv
<1>18. CASE UNCHANGED vars
  <2>1. UNCHANGED <<inode_table, block, pc, arg, turn>>
    BY <1>18 DEF vars
  <2>2. QED
    BY <1>1, <2>1, QuietEntries DEF EntriesInv
<1>19. QED
  BY <1>2, <1>3, <1>4, <1>5, <1>6, <1>7, <1>8, <1>9, <1>10, <1>11, <1>12, <1>13, <1>14,
     <1>15, <1>16, <1>17, <1>18
  DEF AnySession, AnyCommand, CommandOf, Step, handle_create, handle_delete

\* All that holds in every state of a session, between and inside calls.
SessionInv ==
  TypeInv /\ RootInv /\ OwnershipInv /\ UnsavedInv /\ FilesInv /\ EntriesInv

LEMMA InitSessionInv ==
  ASSUME TextsAreNoEntries
  PROVE  Init => SessionInv
BY InitTypeInv, InitRootInv, InitOwnershipInv, InitUnsavedInv, InitFiles, InitEntries
DEF SessionInv

LEMMA StepSessionInv ==
  ASSUME TextsAreNoEntries
  PROVE  SessionInv /\ [AnySession]_vars => SessionInv'
<1> SUFFICES ASSUME SessionInv, [AnySession]_vars PROVE SessionInv'
  OBVIOUS
<1>1. [AnyNext]_vars
  BY DEF AnyNext
<1>2. TypeInv' /\ RootInv' /\ OwnershipInv' /\ UnsavedInv'
  BY <1>1, StepTypeInv, StepRootInv, StepOwnershipInv, StepUnsavedInv DEF SessionInv
<1>3. FilesInv'
  BY <1>2, StepFiles DEF SessionInv, AnySession, AnyCommand
<1>4. EntriesInv'
  BY <1>2, StepEntries DEF SessionInv
<1>5. QED
  BY <1>2, <1>3, <1>4 DEF SessionInv

LEMMA SessionInvariants ==
  ASSUME TextsAreNoEntries
  PROVE  Session => []SessionInv
<1>1. [SessionNext]_vars => [AnySession]_vars
  BY AnyLemma
<1>2. QED
  BY <1>1, InitSessionInv, StepSessionInv, PTL DEF Session

\* In a session the names and the inodes stay in step, whatever is created,
\* written and deleted in between.
THEOREM SessionsMatchEntries ==
  ASSUME TextsAreNoEntries
  PROVE  Session => []EntriesMatchInodes
<1>1. SessionInv => EntriesMatchInodes
  BY DEF SessionInv, EntriesInv, Matched, EntriesMatchInodes, IndexAt
<1>2. QED
  BY <1>1, SessionInvariants, PTL

-----------------------------------------------------------------------------
(* Path resolution.                                                        *)

\* The first of a set of positions, in the order of the scans.
LEMMA FirstPositionLemma ==
  ASSUME NEW d \in Inodes, inode_table \in [Inodes -> Inode],
         NEW S \in SUBSET Positions(d), S # {}
  PROVE  \E p \in S : IsFirstPosition(p, S)
<1>1. \A p \in S : p[1] \in Nat /\ p[2] \in Nat
  BY SizesLemma DEF Positions, Slots, Inode
<1> DEFINE Rows == {p[1] : p \in S}
<1>2. Rows \in SUBSET Nat /\ Rows # {}
  BY <1>1
<1>3. PICK row \in Rows : \A r \in Rows : row <= r
  BY <1>2, LeastElement
<1> DEFINE Columns == {p[2] : p \in {q \in S : q[1] = row}}
<1>4. Columns \in SUBSET Nat /\ Columns # {}
  BY <1>1
<1>5. PICK column \in Columns : \A c \in Columns : column <= c
  BY <1>4, LeastElement
<1>6. PICK p \in S : p[1] = row /\ p[2] = column
  OBVIOUS
<1>7. ASSUME NEW q \in S PROVE Before(p, q)
  <2>1. row <= q[1]
    BY <1>3
  <2>2. q[1] = row => column <= q[2]
    BY <1>5
  <2>3. QED
    BY <1>1, <1>6, <2>1, <2>2 DEF Before
<1>8. QED
  BY <1>6, <1>7 DEF IsFirstPosition

\* A name that is found is found in an entry.
LEMMA FindLemma ==
  ASSUME NEW d \in Inodes, inode_table \in [Inodes -> Inode], NEW name \in Components
  PROVE  \/ find_in_dir(d, name) = -1
         \/ \E p \in Entries(d) : find_in_dir(d, name) = IndexAt(d, p) /\ NameAt(d, p) = name
<1> DEFINE hits == {p \in Positions(d) : SlotAt(d, p).name = name}
<1>1. CASE name = "" \/ hits = {}
  BY <1>1 DEF find_in_dir
<1>2. CASE name # "" /\ hits # {}
  <2> DEFINE first == CHOOSE p \in hits : IsFirstPosition(p, hits)
  <2>1. \E p \in hits : IsFirstPosition(p, hits)
    BY <1>2, FirstPositionLemma
  <2>2. first \in hits
    BY <2>1
  <2>3. find_in_dir(d, name) = SlotAt(d, first).inode_index
    BY <1>2 DEF find_in_dir
  <2>4. first \in Positions(d) /\ NameAt(d, first) = name
    BY <2>2 DEF NameAt
  <2>5. first \in Entries(d)
    BY <1>2, <2>4, EntryLemma
  <2>6. find_in_dir(d, name) = IndexAt(d, first)
    BY <2>3 DEF IndexAt
  <2>7. QED
    BY <2>4, <2>5, <2>6
<1>3. QED
  BY <1>1, <1>2

LEMMA ResolveLemma ==
  ASSUME TypeInv, Matched, NEW token \in Components, NEW current \in Inodes \union {-1}
  PROVE  Resolve(current, token) \in Inodes \union {-1}
<1>1. CASE current = -1 \/ token \in {"", "."}
  BY <1>1 DEF Resolve
<1>2. CASE ~(current = -1 \/ token \in {"", "."}) /\ token = ".."
  BY <1>2, TypeFacts, SizesLemma DEF Resolve, Inode
<1>3. CASE ~(current = -1 \/ token \in {"", "."}) /\ token # ".."
  <2>1. current \in Inodes
    BY <1>3
  <2>2. find_in_dir(current, token) \in Inodes \union {-1}
    BY <2>1, TypeFacts, FindLemma DEF Matched
  <2>3. QED
    BY <1>3, <2>2 DEF Resolve
<1>4. QED
  BY <1>1, <1>2, <1>3

\* fs_lookup_path as a walk: from its start, one component after the other.
IsWalk(walk, path) ==
  /\ \A n \in 0 .. Len(path.comps) : walk[n] \in Inodes \union {-1}
  /\ walk[0] = IF path.absolute THEN 0 ELSE cwd_inode
  /\ \A n \in 1 .. Len(path.comps) : walk[n] = Resolve(walk[n - 1], path.comps[n])
LEMMA LookupLemma ==
  ASSUME TypeInv, Matched, NEW path \in PathType
  PROVE  \E walk : IsWalk(walk, path) /\ fs_lookup_path(path) = walk[Len(path.comps)]
<1> DEFINE N == Len(path.comps)
           S == Inodes \union {-1}
           start == IF path.absolute THEN 0 ELSE cwd_inode
           step == [n \in 1 .. N |-> Walk(path.comps[n])]
           walk == CHOOSE walk : walk = [n \in 0 .. N |->
                     IF n = 0 THEN start ELSE Walk(path.comps[n])[walk[n - 1]]]
<1>1. N \in Nat /\ \A n \in 1 .. N : path.comps[n] \in Components
  BY DEF PathType
<1>2. start \in S
  BY SizesLemma DEF TypeInv, TypeOK
<1>3. \A n \in 1 .. N : Walk(path.comps[n]) \in [S -> S]
  BY <1>1, ResolveLemma DEF Walk
<1>4. step \in [1 .. N -> [S -> S]]
  BY <1>3
<1>5. PICK f \in [0 .. N -> S] : f[0] = start /\ \A n \in 1 .. N : f[n] = step[n][f[n - 1]]
  <2>1. N \in Nat
    BY <1>1
  <2> HIDE DEF N, S, start, step
  <2>2. QED
    BY <1>2, <1>4, <2>1, RecursionLemma
<1>6. f = [n \in 0 .. N |-> IF n = 0 THEN start ELSE Walk(path.comps[n])[f[n - 1]]]
  <2>1. \A n \in 1 .. N : f[n] = Walk(path.comps[n])[f[n - 1]]
    BY <1>5
  <2>2. \A n \in 0 .. N : f[n] = IF n = 0 THEN start ELSE Walk(path.comps[n])[f[n - 1]]
    BY <1>1, <1>5, <2>1
  <2> HIDE DEF S, start, step
  <2>3. QED
    BY <1>5, <2>2
<1>7. walk = [n \in 0 .. N |-> IF n = 0 THEN start ELSE Walk(path.comps[n])[walk[n - 1]]]
  <2> HIDE DEF N, S, start
  <2>1. QED
    BY <1>6
<1>8. fs_lookup_path(path) = walk[N]
  BY DEF fs_lookup_path
<1> HIDE DEF walk, S, start
<1>9. walk[0] = start /\ \A n \in 1 .. N : walk[n] = Walk(path.comps[n])[walk[n - 1]]
  <2>1. \A n \in 0 .. N : walk[n] = IF n = 0 THEN start ELSE Walk(path.comps[n])[walk[n - 1]]
    BY <1>7
  <2>2. QED
    BY <1>1, <2>1
<1>10. ASSUME NEW n \in Nat, n <= N PROVE walk[n] \in S
  <2> DEFINE Typed == {m \in Nat : m <= N => walk[m] \in S}
  <2>1. 0 \in Typed
    BY <1>2, <1>9
  <2>2. ASSUME NEW m \in Nat, m \in Typed PROVE m + 1 \in Typed
    <3>1. SUFFICES ASSUME m + 1 <= N PROVE walk[m + 1] \in S
      OBVIOUS
    <3>2. m + 1 \in 1 .. N /\ (m + 1) - 1 = m /\ walk[m] \in S
      BY <1>1, <2>2, <3>1
    <3>3. walk[m + 1] = Walk(path.comps[m + 1])[walk[m]]
      BY <1>9, <3>2
    <3>4. Walk(path.comps[m + 1]) \in [S -> S]
      BY <1>3, <3>2
    <3>5. QED
      BY <3>2, <3>3, <3>4
  <2> HIDE DEF Typed
  <2>3. Nat \subseteq Typed
    BY <2>1, <2>2, InductionLemma
  <2>4. QED
    BY <1>10, <2>3 DEF Typed
<1>11. \A n \in 1 .. N : walk[n] = Resolve(walk[n - 1], path.comps[n])
  <2>1. SUFFICES ASSUME NEW n \in 1 .. N PROVE walk[n] = Resolve(walk[n - 1], path.comps[n])
    OBVIOUS
  <2>2. walk[n - 1] \in S
    BY <1>1, <1>10
  <2>3. QED
    BY <1>9, <2>2 DEF Walk, S
<1>12. IsWalk(walk, path)
  BY <1>1, <1>9, <1>10, <1>11 DEF IsWalk, S, start
<1>13. QED
  BY <1>8, <1>12

\* Where a walk from the root has been is closed under parents, and in use: an
\* entry leads to an inode that has its directory for a parent.
LEMMA WalkFromRoot ==
  ASSUME TypeInv, RootIntact, Matched, NEW path \in PathType, path.absolute, NEW walk,
         IsWalk(walk, path), NEW n \in Nat, n <= Len(path.comps), walk[n] # -1
  PROVE  inode_table[walk[n]].used
<1> DEFINE N == Len(path.comps)
           Visited(m) == {i \in Inodes : \E k \in 0 .. m : walk[k] = i}
           Rooted == {m \in Nat : m <= N => \A i \in Visited(m) :
                       inode_table[i].used /\ inode_table[i].parent_inode \in Visited(m)}
<1>1. N \in Nat /\ \A k \in 1 .. N : path.comps[k] \in Components
  BY DEF PathType
<1>2. 0 \in Rooted
  <2>1. Visited(0) = {0}
    BY SizesLemma, <1>1 DEF IsWalk
  <2>2. inode_table[0].used /\ inode_table[0].parent_inode = 0
    BY DEF RootIntact
  <2>3. QED
    BY <2>1, <2>2
<1>3. ASSUME NEW m \in Nat, m \in Rooted PROVE m + 1 \in Rooted
  <2>1. SUFFICES ASSUME m + 1 <= N, NEW i \in Visited(m + 1)
                 PROVE  /\ inode_table[i].used
                        /\ inode_table[i].parent_inode \in Visited(m + 1)
    OBVIOUS
  <2>2. \A j \in Visited(m) : inode_table[j].used /\ inode_table[j].parent_inode \in Visited(m)
    BY <1>1, <1>3, <2>1
  <2>3. Visited(m) \subseteq Visited(m + 1)
    OBVIOUS
  <2>4. CASE i \in Visited(m)
    BY <2>2, <2>3, <2>4
  <2>5. CASE i \notin Visited(m)
    <3>1. i = walk[m + 1]
      BY <2>5
    <3>2. /\ walk[m + 1] = Resolve(walk[m], path.comps[m + 1])
          /\ path.comps[m + 1] \in Components /\ walk[m] \in Inodes \union {-1}
      BY <1>1, <2>1 DEF IsWalk
    <3>3. walk[m] # -1
      <4>1. i # -1
        BY SizesLemma DEF Inodes
      <4>2. QED
        BY <3>1, <3>2, <4>1 DEF Resolve
    <3>4. walk[m] \in Visited(m)
      BY <3>2, <3>3
    <3>5. /\ walk[m] # i /\ inode_table[walk[m]].parent_inode # i
          /\ i # 0
      <4>1. 0 \in Visited(m)
        BY SizesLemma, <1>1 DEF IsWalk
      <4>2. QED
        BY <2>2, <2>5, <3>4, <4>1
    <3>6. i = find_in_dir(walk[m], path.comps[m + 1])
      <4>1. i # -1
        BY SizesLemma DEF Inodes
      <4>2. QED
        BY <3>1, <3>2, <3>3, <3>5, <4>1 DEF Resolve
    <3>7. PICK p \in Entries(walk[m]) : i = IndexAt(walk[m], p)
      <4>1. i # -1
        BY SizesLemma DEF Inodes
      <4>2. QED
        BY <3>2, <3>4, <3>6, <4>1, FindLemma, TypeFacts
    <3>8. inode_table[i].used /\ inode_table[i].parent_inode = walk[m]
      BY <3>4, <3>7 DEF Matched
    <3>9. QED
      BY <2>3, <3>4, <3>8
  <2>6. QED
    BY <2>4, <2>5
<1> HIDE DEF Rooted
<1>4. Nat \subseteq Rooted
  BY <1>2, <1>3, InductionLemma
<1>5. walk[n] \in Visited(n)
  BY <1>1 DEF IsWalk
<1>6. QED
  BY <1>4, <1>5 DEF Rooted

LEMMA LookupsLemma ==
  ASSUME TypeInv, RootIntact, Matched
  PROVE  LookupsResolve
<1> SUFFICES ASSUME NEW path \in Paths
             PROVE  /\ fs_lookup_path(path) \in Inodes \union {-1}
                    /\ path.absolute /\ fs_lookup_path(path) # -1
                         => inode_table[fs_lookup_path(path)].used
  BY DEF LookupsResolve
<1>1. path \in PathType
  BY InputsAssumption
<1>2. PICK walk : IsWalk(walk, path) /\ fs_lookup_path(path) = walk[Len(path.comps)]
  BY <1>1, LookupLemma
<1>3. Len(path.comps) \in Nat
  BY <1>1 DEF PathType
<1>4. QED
  BY <1>1, <1>2, <1>3, WalkFromRoot DEF IsWalk

\* Within a session a path resolves to an inode of the table or to nothing, and
\* an absolute one to an inode in use, although fs_lookup_path never looks at
\* used: what it follows are entries, and the parents of where it has been.
THEOREM SessionsResolvePaths ==
  ASSUME TextsAreNoEntries
  PROVE  Session => []LookupsResolve
<1>1. SessionInv => LookupsResolve
  BY LookupsLemma DEF SessionInv, EntriesInv, RootInv
<1>2. QED
  BY <1>1, SessionInvariants, PTL
=============================================================================
