------------------------ MODULE VersionControlProofs ------------------------
(***************************************************************************)
(* Proofs about version control for a user who names files by absolute     *)
(* paths outside /.vcs, whatever fails and whenever the program is killed  *)
(* between two calls: the file system under it stays whole, and HEAD names *)
(* a commit that has a tree.                                               *)
(***************************************************************************)
EXTENDS VersionControl, EntriesProofs

-----------------------------------------------------------------------------
(* What one step does to a directory.                                      *)

\* No step but that of a create adds an entry, none but that of a delete
\* removes one, except of an inode that is losing its blocks.
Inserted(e, q) ==
  /\ pc \in {"insert", "attach"} /\ pc' = "save" /\ e = arg.dir
  /\ NameAt(e, q)' = arg.name /\ IndexAt(e, q)' = arg.ino
Deleted(i) == pc = "idle" /\ pc' = "free" /\ arg'.op = "delete" /\ arg'.ino = i
Losing(e) == pc = "free" /\ e = arg.ino
EntriesChanged(e) ==
  /\ \A q \in Entries(e)' : (q \in Entries(e) /\ Same(e, q)) \/ Inserted(e, q)
  /\ \A q \in Entries(e) :
       (q \in Entries(e)' /\ Same(e, q)) \/ Deleted(IndexAt(e, q)) \/ Losing(e)

\* An inode keeps its type as long as it is in use, and loses its blocks with
\* its use; a directory has entries in its slots, and no text.
InodeChanged(e) ==
  /\ inode_table[e].used => inode_table'[e].type = inode_table[e].type
  /\ inode_table'[e].used \/ inode_table'[e].block_count = 0
  /\ inode_table'[e].type = DIR_TYPE =>
       /\ \/ inode_table'[e].file_size = 0
          \/ inode_table[e].type = DIR_TYPE /\ inode_table'[e].file_size = inode_table[e].file_size
       /\ \A q \in Positions(e)' :
            \/ NameAt(e, q)' \in Components
            \/ inode_table[e].type = DIR_TYPE /\ q \in Positions(e) /\ Same(e, q)
Changed(e) == EntriesChanged(e) /\ InodeChanged(e)

LEMMA SameSlots ==
  ASSUME NEW d \in Inodes, SameBlocks(d)
  PROVE  /\ \A q : q \in Positions(d)' <=> q \in Positions(d)
         /\ \A q \in Positions(d) : Same(d, q)
<1>1. Positions(d)' = Positions(d)
  BY DEF SameBlocks, Positions
<1>2. ASSUME NEW p \in Positions(d) PROVE Same(d, p)
  <2>1. p[1] \in 1 .. inode_table[d].block_count /\ p[2] \in Slots
    BY DEF Positions
  <2>2. block'[inode_table'[d].blocks[p[1]]][p[2]] = block[inode_table[d].blocks[p[1]]][p[2]]
    BY <2>1 DEF SameBlocks
  <2>3. /\ NameAt(d, p) = block[inode_table[d].blocks[p[1]]][p[2]].name
        /\ IndexAt(d, p) = block[inode_table[d].blocks[p[1]]][p[2]].inode_index
        /\ NameAt(d, p)' = block'[inode_table'[d].blocks[p[1]]][p[2]].name
        /\ IndexAt(d, p)' = block'[inode_table'[d].blocks[p[1]]][p[2]].inode_index
    BY PlaceLemma
  <2>4. QED
    BY <2>2, <2>3 DEF Same
<1>3. QED
  BY <1>1, <1>2

LEMMA QuietChange ==
  ASSUME NEW e \in Inodes, SameBlocks(e),
         inode_table'[e].used \/ inode_table[e].block_count = 0,
         inode_table'[e].type = inode_table[e].type,
         inode_table'[e].file_size = inode_table[e].file_size
  PROVE  Changed(e)
<1>1. EntriesChanged(e)
  BY SameEntries DEF EntriesChanged
<1>2. InodeChanged(e)
  BY SameSlots DEF InodeChanged, SameBlocks
<1>3. QED
  BY <1>1, <1>2 DEF Changed

\* An inode that has no blocks, before and after.
LEMMA BlocklessChange ==
  ASSUME NEW e \in Inodes,
         inode_table[e].block_count = 0 \/ Losing(e), inode_table'[e].block_count = 0,
         inode_table[e].used => inode_table'[e].type = inode_table[e].type,
         \/ inode_table'[e].file_size = 0
         \/ /\ inode_table'[e].type = inode_table[e].type
            /\ inode_table'[e].file_size = inode_table[e].file_size
  PROVE  Changed(e)
<1>1. Positions(e)' = {} /\ (Positions(e) = {} \/ Losing(e))
  BY DEF Positions
<1>2. Entries(e)' = {} /\ (Entries(e) = {} \/ Losing(e))
  BY <1>1 DEF Entries
<1>3. QED
  BY <1>1, <1>2 DEF Changed, EntriesChanged, InodeChanged

\* Setting one slot of a directory.
LEMMA SlotChange ==
  ASSUME TypeInv, OwnershipInv, pc \notin {"free", "alloc", "put"}, UNCHANGED inode_table,
         NEW d \in Inodes, NEW p \in Positions(d), NEW slot, SetSlot(d, p, slot),
         slot.name \in Components,
         slot.name = "" \/ (/\ pc = "insert" /\ pc' = "save" /\ d = arg.dir
                            /\ slot.name = arg.name /\ slot.inode_index = arg.ino),
         NameAt(d, p) \in Components \ {""} => Deleted(IndexAt(d, p)),
         NEW e \in Inodes, inode_table[e].used \/ inode_table[e].block_count = 0
  PROVE  Changed(e)
<1>1. \A q : q \in Positions(e)' <=> q \in Positions(e)
  BY DEF Positions
<1>2. ASSUME NEW q \in Positions(e)
      PROVE  /\ e = d /\ q = p => NameAt(e, q)' = slot.name /\ IndexAt(e, q)' = slot.inode_index
             /\ ~(e = d /\ q = p) => Same(e, q)
  BY OtherSlots
<1>3. ASSUME NEW q \in Entries(e)'
      PROVE  (q \in Entries(e) /\ Same(e, q)) \/ Inserted(e, q)
  <2>1. q \in Positions(e) /\ NameAt(e, q)' \in Components \ {""}
    BY <1>1, EntryLemma
  <2>2. QED
    BY <1>2, <2>1, EntryLemma DEF Same, Inserted
<1>4. ASSUME NEW q \in Entries(e)
      PROVE  (q \in Entries(e)' /\ Same(e, q)) \/ Deleted(IndexAt(e, q))
  <2>1. q \in Positions(e) /\ NameAt(e, q) \in Components \ {""}
    BY EntryLemma
  <2>2. QED
    BY <1>1, <1>2, <2>1, EntryLemma DEF Same
<1>5. ASSUME NEW q \in Positions(e)'
      PROVE  NameAt(e, q)' \in Components \/ (q \in Positions(e) /\ Same(e, q))
  BY <1>1, <1>2
<1>6. EntriesChanged(e)
  BY <1>3, <1>4 DEF EntriesChanged
<1>7. InodeChanged(e)
  BY <1>5 DEF InodeChanged
<1>8. QED
  BY <1>6, <1>7 DEF Changed

\* Names other than those that fs_lookup_path takes for no step down.
Plain == Components \ {"", ".", ".."}

\* An unused inode has no blocks; that of a running create has none yet.
Tidy(t) == \A i \in Inodes : t[i].used \/ t[i].block_count = 0
Creating ==
  pc \in {"insert", "attach"} =>
    /\ inode_table[arg.ino].block_count = 0
    /\ arg.dir # arg.ino /\ inode_table[arg.dir].used
    /\ arg.name \in Plain /\ (arg.name = ".vcs" => arg.dir = 0)

LEMMA UnchangedInodes ==
  ASSUME Tidy(inode_table), UNCHANGED <<inode_table, block>>
  PROVE  \A e \in Inodes : Changed(e)
<1>1. \A e \in Inodes : SameBlocks(e)
  BY DEF SameBlocks
<1>2. QED
  BY <1>1, QuietChange DEF Tidy

LEMMA SlotLemma ==
  ASSUME NEW name, NEW i
  PROVE  /\ [name |-> name, inode_index |-> i].name = name
         /\ [name |-> name, inode_index |-> i].inode_index = i
OBVIOUS

LEMMA AttachChange ==
  ASSUME TypeInv, OwnershipInv, Tidy(inode_table), Creating, AttachBlock, NEW e \in Inodes
  PROVE  Changed(e)
<1>1. PICK d \in Inodes, n \in 1 .. MAX_BLOCKS_PER_INODE, j \in Inodes, name \in Components :
        d = arg.dir /\ n = inode_table[d].block_count + 1 /\ j = arg.ino /\ name = arg.name
  BY AttachInArray, TypeFacts
<1>2. PICK slot : /\ slot = [name |-> name, inode_index |-> j]
                  /\ slot.name = name /\ slot.inode_index = j
  BY SlotLemma
<1> DEFINE content == IF n = 1 THEN EmptyBlock ELSE [EmptyBlock EXCEPT ![1] = slot]
<1>3. /\ inode_table \in [Inodes -> Inode] /\ inode_table[d].block_count \in 0 .. MAX_BLOCKS_PER_INODE
      /\ inode_table[d].blocks \in [1 .. MAX_BLOCKS_PER_INODE -> Blocks]
      /\ inode_table[d].block_count \in Nat
  BY TypeFacts, SizesLemma DEF Inode
<1>4. /\ inode_table' = [inode_table EXCEPT ![d].blocks[n] = new, ![d].block_count = n]
      /\ block' = [block EXCEPT ![new] = content]
      /\ pc = "attach" /\ (n # 1 => pc' = "save") /\ new \in Blocks
  <2>1. (inode_table[d].block_count = 0) <=> (n = 1)
    BY <1>1, <1>3
  <2>2. QED
    BY <1>2, <1>1, <2>1 DEF AttachBlock, TypeInv, CallOK
<1>5. /\ inode_table'[d].block_count = n
      /\ inode_table'[d].blocks = [inode_table[d].blocks EXCEPT ![n] = new]
      /\ inode_table'[d].used = inode_table[d].used
      /\ inode_table'[d].type = inode_table[d].type
      /\ inode_table'[d].file_size = inode_table[d].file_size
      /\ \A i \in Inodes : i # d => inode_table'[i] = inode_table[i]
  BY <1>3, <1>4 DEF Inode
<1>6. \A s \in Slots : content[s] = EmptySlot \/
        (n # 1 /\ s = 1 /\ content[s] = slot)
  BY SizesLemma DEF EmptyBlock
<1> HIDE DEF content
<1>7. ASSUME NEW k \in 1 .. inode_table[e].block_count
      PROVE  block'[inode_table[e].blocks[k]] = block[inode_table[e].blocks[k]]
  BY <1>4, BlockOfOne, TypeFacts
<1>8. CASE e # d
  <2>1. inode_table'[e] = inode_table[e] /\ SameBlocks(e)
    BY <1>5, <1>7, <1>8 DEF SameBlocks
  <2>2. QED
    BY <2>1, QuietChange DEF Tidy
<1>9. CASE e = d
  <2>1. ASSUME NEW q \in Positions(d) PROVE q \in Positions(d)' /\ Same(d, q)
    <3>1. q[1] \in 1 .. inode_table[d].block_count /\ q[2] \in Slots /\ q = <<q[1], q[2]>>
      BY DEF Positions
    <3>2. q[1] \in 1 .. n /\ q[1] # n /\ q[1] \in 1 .. MAX_BLOCKS_PER_INODE
      BY <1>1, <1>3, <3>1, SizesLemma
    <3>3. inode_table'[d].blocks[q[1]] = inode_table[d].blocks[q[1]]
      BY <1>3, <1>5, <3>2
    <3>4. block'[inode_table[d].blocks[q[1]]] = block[inode_table[d].blocks[q[1]]]
      BY <1>7, <1>9, <3>1
    <3>5. /\ NameAt(d, q) = block[inode_table[d].blocks[q[1]]][q[2]].name
          /\ IndexAt(d, q) = block[inode_table[d].blocks[q[1]]][q[2]].inode_index
          /\ NameAt(d, q)' = block'[inode_table'[d].blocks[q[1]]][q[2]].name
          /\ IndexAt(d, q)' = block'[inode_table'[d].blocks[q[1]]][q[2]].inode_index
      BY PlaceLemma
    <3>6. Same(d, q)
      BY <3>3, <3>4, <3>5 DEF Same
    <3>7. q \in Positions(d)'
      BY <1>5, <3>1, <3>2 DEF Positions
    <3>8. QED
      BY <3>6, <3>7
  <2>2. ASSUME NEW q \in Positions(d)', q \notin Positions(d)
        PROVE  \/ NameAt(d, q)' = ""
               \/ NameAt(d, q)' = name /\ IndexAt(d, q)' = j /\ pc' = "save"
    <3>1. q[1] \in 1 .. inode_table'[d].block_count /\ q[2] \in Slots /\ q = <<q[1], q[2]>>
      <4>1. q \in Positions(d)'
        OBVIOUS
      <4>2. QED
        BY <4>1 DEF Positions
    <3>2. q[1] = n
      <4>1. ~(q[1] \in 1 .. inode_table[d].block_count)
        BY <2>2, <3>1 DEF Positions
      <4>2. QED
        BY <1>1, <1>3, <1>5, <3>1, <4>1
    <3>3. /\ NameAt(d, q)' = block'[inode_table'[d].blocks[q[1]]][q[2]].name
          /\ IndexAt(d, q)' = block'[inode_table'[d].blocks[q[1]]][q[2]].inode_index
      BY PlaceLemma
    <3>4. inode_table'[d].blocks[n] = new /\ block'[new] = content
      <4>1. inode_table'[d].blocks[n] = new
        BY <1>3, <1>5
      <4>2. block'[new] = content
        BY <1>4, TypeFacts
      <4>3. QED
        BY <4>1, <4>2
    <3>5. NameAt(d, q)' = content[q[2]].name /\ IndexAt(d, q)' = content[q[2]].inode_index
      BY <3>2, <3>3, <3>4
    <3>6. EmptySlot.name = ""
      BY DEF EmptySlot
    <3>7. \/ content[q[2]].name = ""
          \/ n # 1 /\ content[q[2]].name = name /\ content[q[2]].inode_index = j
      BY <1>2, <1>6, <3>1, <3>6
    <3>8. QED
      BY <1>4, <3>5, <3>7
  <2>3. ASSUME NEW q \in Entries(d)'
        PROVE  (q \in Entries(d) /\ Same(d, q)) \/ Inserted(d, q)
    <3>1. q \in Positions(d)' /\ NameAt(d, q)' \in Components \ {""}
      BY EntryLemma
    <3>2. QED
      BY <1>1, <1>4, <2>1, <2>2, <3>1, EntryLemma DEF Inserted, Same
  <2>4. ASSUME NEW q \in Entries(d)
        PROVE  q \in Entries(d)' /\ Same(d, q)
    BY <2>1, EntryLemma DEF Same
  <2>5. EntriesChanged(d)
    BY <2>3, <2>4 DEF EntriesChanged
  <2>6. \A q \in Positions(d)' : NameAt(d, q)' \in Components \/ (q \in Positions(d) /\ Same(d, q))
    BY <2>1, <2>2 DEF Components
  <2>7. inode_table[d].used
    BY <1>1, <1>4 DEF Creating
  <2>8. InodeChanged(d)
    BY <1>5, <2>6, <2>7 DEF InodeChanged
  <2>9. QED
    BY <1>9, <2>5, <2>8 DEF Changed
<1>10. QED
  BY <1>8, <1>9

LEMMA FreeChange ==
  ASSUME TypeInv, EntriesInv, Tidy(inode_table), FreeBlock, NEW e \in Inodes
  PROVE  Changed(e)
<1>1. PICK j \in Inodes, n \in 1 .. MAX_BLOCKS_PER_INODE : j = arg.ino /\ n = turn + 1
  BY TypeFacts, TurnInArray
<1>2. /\ inode_table' = [inode_table EXCEPT ![j].blocks[n] = 0]
      /\ pc = "free" /\ UNCHANGED block
  BY <1>1 DEF FreeBlock
<1>3. /\ inode_table'[j].used = inode_table[j].used
      /\ inode_table'[j].type = inode_table[j].type
      /\ inode_table'[j].file_size = inode_table[j].file_size
      /\ inode_table'[j].block_count = inode_table[j].block_count
      /\ inode_table'[j].blocks = [inode_table[j].blocks EXCEPT ![n] = 0]
      /\ inode_table[j].blocks \in [1 .. MAX_BLOCKS_PER_INODE -> Blocks]
      /\ inode_table[j].block_count \in 0 .. MAX_BLOCKS_PER_INODE
      /\ \A i \in Inodes : i # j => inode_table'[i] = inode_table[i]
  BY <1>2, TypeFacts DEF Inode
<1>4. CASE e # j
  <2>1. inode_table'[e] = inode_table[e] /\ SameBlocks(e)
    BY <1>2, <1>3, <1>4 DEF SameBlocks
  <2>2. QED
    BY <2>1, QuietChange DEF Tidy
<1>5. CASE e = j
  <2>1. ASSUME NEW q \in Positions(j)'
        PROVE  q \in Positions(j) /\ (NameAt(j, q)' = "" \/ Same(j, q))
    <3>1. q[1] \in 1 .. inode_table[j].block_count /\ q[2] \in Slots /\ q \in Positions(j)
      <4>1. q \in Positions(j)'
        OBVIOUS
      <4>2. QED
        BY <1>3, <4>1 DEF Positions
    <3>2. /\ NameAt(j, q) = block[inode_table[j].blocks[q[1]]][q[2]].name
          /\ IndexAt(j, q) = block[inode_table[j].blocks[q[1]]][q[2]].inode_index
          /\ NameAt(j, q)' = block'[inode_table'[j].blocks[q[1]]][q[2]].name
          /\ IndexAt(j, q)' = block'[inode_table'[j].blocks[q[1]]][q[2]].inode_index
      BY PlaceLemma
    <3>3. CASE q[1] = n
      <4>1. inode_table'[j].blocks[q[1]] = 0
        BY <1>3, <3>3
      <4>2. block'[0][q[2]] = EmptySlot
        BY <1>2, <3>1 DEF EntriesInv, EmptyBlock
      <4>3. EmptySlot.name = ""
        BY DEF EmptySlot
      <4>4. QED
        BY <3>1, <3>2, <4>1, <4>2, <4>3
    <3>4. CASE q[1] # n
      <4>1. inode_table'[j].blocks[q[1]] = inode_table[j].blocks[q[1]]
        BY <1>3, <3>4
      <4>2. QED
        BY <1>2, <3>1, <3>2, <4>1 DEF Same
    <3>5. QED
      BY <3>3, <3>4
  <2>2. ASSUME NEW q \in Entries(j)' PROVE q \in Entries(j) /\ Same(j, q)
    <3>1. q \in Positions(j)' /\ NameAt(j, q)' \in Components \ {""}
      BY EntryLemma
    <3>2. QED
      BY <2>1, <3>1, EntryLemma DEF Same
  <2>3. EntriesChanged(j)
    BY <1>1, <1>2, <2>2 DEF EntriesChanged, Losing
  <2>4. \A q \in Positions(j)' : NameAt(j, q)' \in Components \/ (q \in Positions(j) /\ Same(j, q))
    BY <2>1 DEF Components
  <2>5. InodeChanged(j)
    BY <1>3, <2>4 DEF InodeChanged, Tidy
  <2>6. QED
    BY <1>5, <2>3, <2>5 DEF Changed
<1>6. QED
  BY <1>4, <1>5

\* A file whose writing is done has text in its slots, and no entry.
LEMMA WrittenEntries ==
  ASSUME TypeInv, FilesInv, WriteDone, NEW j \in Inodes, j = arg.ino
  PROVE  Entries(j)' = {}
<1>1. /\ inode_table' = [inode_table EXCEPT ![j].block_count = turn,
                                            ![j].file_size = Len(arg.data)]
      /\ pc = "alloc" /\ UNCHANGED block
  BY DEF WriteDone
<1>2. inode_table'[j].blocks = inode_table[j].blocks /\ inode_table'[j].block_count = turn
  BY <1>1, TypeFacts DEF Inode
<1>3. ASSUME NEW k \in 1 .. turn, NEW s \in Slots
      PROVE  block'[inode_table'[j].blocks[k]][s].name \notin Components \ {""}
  <2>1. block'[inode_table'[j].blocks[k]] = Chunk(arg.data, k)
    BY <1>1, <1>2 DEF FilesInv
  <2>2. Chunk(arg.data, k)[s].name \in Text \union {""}
    <3>1. k \in Nat /\ s \in Nat \ {0} /\ (k - 1) * ENTRIES_PER_BLOCK \in Nat
      BY TypeFacts, SizesLemma, ProductLemma DEF Slots
    <3>2. (k - 1) * ENTRIES_PER_BLOCK + s <= Len(arg.data)
            => arg.data[(k - 1) * ENTRIES_PER_BLOCK + s] \in Text
      BY <3>1, TypeFacts
    <3>3. QED
      BY <3>2 DEF Chunk, TextSlot, EmptySlot
  <2>3. QED
    BY <2>1, <2>2, TextAssumption
<1>4. QED
  BY <1>2, <1>3 DEF Entries, Positions, SlotAt

LEMMA ChangeLemma ==
  ASSUME SessionInv, Tidy(inode_table), Creating, [AnySession]_vars
  PROVE  \A e \in Inodes : Changed(e)
<1> SUFFICES ASSUME NEW e \in Inodes PROVE Changed(e)
  OBVIOUS
<1>1. /\ inode_table \in [Inodes -> Inode] /\ arg.ino \in Inodes /\ arg.dir \in Inodes
      /\ inode_table[e].used \/ inode_table[e].block_count = 0
      /\ TypeInv /\ OwnershipInv /\ UnsavedInv /\ EntriesInv
  BY TypeFacts DEF SessionInv, Tidy
<1>2. ASSUME UNCHANGED <<inode_table, block>> PROVE Changed(e)
  BY <1>2, UnchangedInodes
<1>3. ASSUME NEW path \in AnyPath,
             CreateRefused(path) \/ DeleteRefused(path) \/ WriteRefused(path) \/ handle_cd(path)
      PROVE  Changed(e)
  BY <1>2, <1>3 DEF CreateRefused, DeleteRefused, WriteRefused, handle_cd, disk
<1>4. ASSUME NEW path \in AnyPath, NEW type \in {FILE_TYPE, DIR_TYPE}, Create(path, type)
      PROVE  Changed(e)
  <2>1. PICK d \in Inodes, j \in Inodes :
          /\ ~inode_table[j].used
          /\ inode_table' = [inode_table EXCEPT ![j] = NewInode(type, d)]
    BY <1>4 DEF Create, IsFirst, UnusedInodes
  <2>2. UNCHANGED block
    BY <1>4 DEF Create
  <2>3. /\ inode_table'[j] = NewInode(type, d)
        /\ \A i \in Inodes : i # j => inode_table'[i] = inode_table[i]
    BY <1>1, <2>1
  <2>4. CASE e = j
    <3>1. inode_table'[j].block_count = 0 /\ inode_table'[j].file_size = 0
      BY <2>3 DEF NewInode, UnusedInode
    <3>2. QED
      BY <1>1, <2>1, <2>4, <3>1, BlocklessChange
  <2>5. CASE e # j
    <3>1. inode_table'[e] = inode_table[e] /\ SameBlocks(e)
      BY <2>2, <2>3, <2>5 DEF SameBlocks
    <3>2. QED
      BY <1>1, <3>1, QuietChange
  <2>6. QED
    BY <2>4, <2>5
<1>5. ASSUME NEW path \in AnyPath, Delete(path)
      PROVE  Changed(e)
  <2>1. PICK j \in Inodes \ {0} :
          /\ \E p \in EntriesOf(inode_table[j].parent_inode, j) :
               SetSlot(inode_table[j].parent_inode, p, Cleared(SlotAt(inode_table[j].parent_inode, p)))
          /\ arg' = [NoArg EXCEPT !.op = "delete", !.ino = j]
    BY <1>5 DEF Delete
  <2>2. PICK d \in Inodes : d = inode_table[j].parent_inode
    BY <1>1 DEF Inode
  <2>3. PICK slot : slot = EmptySlot
    OBVIOUS
  <2>4. PICK p \in EntriesOf(d, j) : SetSlot(d, p, slot)
    BY <2>1, <2>2, <2>3 DEF Cleared
  <2>5. /\ pc = "idle" /\ pc' = "free" /\ UNCHANGED inode_table
        /\ arg'.ino = j /\ arg'.op = "delete"
    BY <1>5, <2>1 DEF Delete, NoArg
  <2>6. p \in Positions(d) /\ IndexAt(d, p) = j
    BY DEF EntriesOf, IndexAt
  <2>7. slot.name = "" /\ slot.name \in Components
    BY <2>3 DEF EmptySlot, Components
  <2>8. Deleted(IndexAt(d, p))
    BY <2>5, <2>6 DEF Deleted
  <2>9. pc \notin {"free", "alloc", "put"}
    BY <2>5
  <2>10. QED
    BY <1>1, <2>4, <2>5, <2>6, <2>7, <2>8, <2>9, SlotChange
<1>6. ASSUME NEW path \in AnyPath, NEW data \in AnyText, Write(path, data)
      PROVE  Changed(e)
  BY <1>2, <1>6 DEF Write
<1>7. CASE InsertEntry
  <2>1. PICK d \in Inodes, j \in Inodes, name \in Components :
          d = arg.dir /\ j = arg.ino /\ name = arg.name
    BY <1>1, TypeFacts
  <2>2. PICK slot : slot = [name |-> name, inode_index |-> j]
    OBVIOUS
  <2>3. slot.name = name /\ slot.inode_index = j
    BY <2>2, SlotLemma
  <2>4. PICK p \in FreeSlots(d) : SetSlot(d, p, slot)
    BY <1>7, <2>1, <2>2 DEF InsertEntry
  <2>5. pc = "insert" /\ pc' = "save" /\ UNCHANGED inode_table
    BY <1>7 DEF InsertEntry
  <2>6. p \in Positions(d) /\ NameAt(d, p) = ""
    BY DEF FreeSlots, NameAt
  <2>7. pc \notin {"free", "alloc", "put"}
    BY <2>5
  <2>8. QED
    BY <1>1, <2>1, <2>4, <2>3, <2>5, <2>6, <2>7, SlotChange
<1>8. CASE InsertAlloc
  BY <1>2, <1>8 DEF InsertAlloc
<1>9. CASE AttachBlock
  BY <1>1, <1>9, AttachChange
<1>10. CASE InsertFailed
  <2>1. PICK j \in Inodes : j = arg.ino
    BY <1>1
  <2>2. /\ inode_table' = [inode_table EXCEPT ![j].used = FALSE]
        /\ pc = "insert" /\ UNCHANGED block
    BY <1>10, <2>1 DEF InsertFailed
  <2>3. /\ inode_table'[j].block_count = inode_table[j].block_count
        /\ inode_table'[j].blocks = inode_table[j].blocks
        /\ inode_table'[j].type = inode_table[j].type
        /\ inode_table'[j].file_size = inode_table[j].file_size
        /\ \A i \in Inodes : i # j => inode_table'[i] = inode_table[i]
    BY <1>1, <2>2 DEF Inode
  <2>4. inode_table[j].block_count = 0
    BY <2>1, <2>2 DEF Creating
  <2>5. SameBlocks(e) /\ (inode_table'[e].used \/ inode_table[e].block_count = 0)
    BY <1>1, <2>2, <2>3, <2>4 DEF SameBlocks
  <2>6. QED
    BY <2>3, <2>5, QuietChange
<1>11. CASE FreeBlock
  BY <1>1, <1>11, FreeChange
<1>12. CASE FreeDone
  <2>1. PICK j \in Inodes : j = arg.ino
    BY <1>1
  <2>2. /\ inode_table' = [inode_table EXCEPT ![j].block_count = 0, ![j].file_size = 0,
                                              ![j].used = @ /\ arg.op # "delete"]
        /\ pc = "free" /\ UNCHANGED block
    BY <1>12, <2>1 DEF FreeDone
  <2>3. /\ inode_table'[j].type = inode_table[j].type
        /\ inode_table'[j].block_count = 0
        /\ inode_table'[j].file_size = 0
        /\ \A i \in Inodes : i # j => inode_table'[i] = inode_table[i]
    BY <1>1, <2>2 DEF Inode
  <2>4. CASE e = j
    BY <2>1, <2>2, <2>3, <2>4, BlocklessChange DEF Losing
  <2>5. CASE e # j
    <3>1. inode_table'[e] = inode_table[e] /\ SameBlocks(e)
      BY <2>2, <2>3, <2>5 DEF SameBlocks
    <3>2. QED
      BY <1>1, <3>1, QuietChange
  <2>6. QED
    BY <2>4, <2>5
<1>13. CASE WriteAlloc
  BY <1>2, <1>13 DEF WriteAlloc
<1>14. CASE WriteBlock
  <2>1. PICK j \in Inodes : j = arg.ino
    BY <1>1
  <2>2. /\ inode_table' = [inode_table EXCEPT ![j].blocks[turn + 1] = new]
        /\ block' = [block EXCEPT ![new] = Chunk(arg.data, turn + 1)]
        /\ pc = "put" /\ new \in Blocks
    BY <1>1, <1>14, <2>1 DEF WriteBlock, TypeInv, CallOK
  <2>3. /\ inode_table'[j].type = inode_table[j].type
        /\ inode_table'[j].file_size = inode_table[j].file_size
        /\ inode_table'[j].block_count = inode_table[j].block_count
        /\ \A i \in Inodes : i # j => inode_table'[i] = inode_table[i]
    BY <1>1, <2>2 DEF Inode
  <2>4. inode_table[j].block_count = 0
    BY <1>1, <2>1, <2>2 DEF UnsavedInv, Emptied
  <2>5. CASE e = j
    BY <2>3, <2>4, <2>5, BlocklessChange
  <2>6. CASE e # j
    <3>1. ASSUME NEW k \in 1 .. inode_table[e].block_count
          PROVE  block'[inode_table[e].blocks[k]] = block[inode_table[e].blocks[k]]
      BY <1>1, <2>1, <2>2, <2>6, BlockOfOne, TypeFacts
    <3>2. inode_table'[e] = inode_table[e] /\ SameBlocks(e)
      BY <2>3, <2>6, <3>1 DEF SameBlocks
    <3>3. QED
      BY <1>1, <3>2, QuietChange
  <2>7. QED
    BY <2>5, <2>6
<1>15. CASE WriteFailed
  BY <1>2, <1>15 DEF WriteFailed
<1>16. CASE WriteDone
  <2>1. PICK j \in Inodes : j = arg.ino
    BY <1>1
  <2>2. /\ inode_table' = [inode_table EXCEPT ![j].block_count = turn,
                                              ![j].file_size = Len(arg.data)]
        /\ pc = "alloc" /\ pc' = "save" /\ UNCHANGED block
    BY <1>16, <2>1 DEF WriteDone
  <2>3. /\ inode_table'[j].used = inode_table[j].used
        /\ inode_table'[j].type = inode_table[j].type
        /\ inode_table'[j].blocks = inode_table[j].blocks
        /\ inode_table'[j].block_count = turn
        /\ \A i \in Inodes : i # j => inode_table'[i] = inode_table[i]
    BY <1>1, <2>2 DEF Inode
  <2>4. inode_table[j].block_count = 0 /\ inode_table[j].used /\ inode_table[j].type # DIR_TYPE
    BY <1>1, <2>1, <2>2 DEF UnsavedInv, Emptied, FILE_TYPE, DIR_TYPE
  <2>5. CASE e = j
    <3>1. Entries(j) = {}
      BY <2>4 DEF Entries, Positions
    <3>2. Entries(j)' = {}
      BY <1>16, <2>1, WrittenEntries DEF SessionInv
    <3>3. EntriesChanged(j)
      BY <3>1, <3>2 DEF EntriesChanged
    <3>4. InodeChanged(j)
      BY <2>3, <2>4 DEF InodeChanged
    <3>5. QED
      BY <2>5, <3>3, <3>4 DEF Changed
  <2>6. CASE e # j
    <3>1. inode_table'[e] = inode_table[e] /\ SameBlocks(e)
      BY <2>2, <2>3, <2>6 DEF SameBlocks
    <3>2. QED
      BY <1>1, <3>1, QuietChange
  <2>7. QED
    BY <2>5, <2>6
<1>17. CASE save_inode_table \/ FlushTable
  BY <1>2, <1>17 DEF save_inode_table, FlushTable
<1>18. CASE UNCHANGED vars
  BY <1>2, <1>18 DEF vars
<1>19. QED
  BY <1>3, <1>4, <1>5, <1>6, <1>7, <1>8, <1>9, <1>10, <1>11, <1>12, <1>13, <1>14, <1>15,
     <1>16, <1>17, <1>18
  DEF AnySession, AnyCommand, CommandOf, Step, handle_create, handle_delete

-----------------------------------------------------------------------------
(* Paths as chains of entries.                                             *)

Link(d, name, i) ==
  /\ inode_table[d].type = DIR_TYPE
  /\ \E p \in Entries(d) : NameAt(d, p) = name /\ IndexAt(d, p) = i
Leads(comps, f, n) ==
  /\ f[0] = 0 /\ \A k \in 0 .. n : f[k] \in Inodes
  /\ \A k \in 1 .. n : Link(f[k - 1], comps[k], f[k])

\* The paths version control makes, and those of them outside the repository.
Spots ==
  {path \in PathType :
    /\ path.absolute /\ path.comps # <<>>
    /\ \A k \in 1 .. Len(path.comps) :
         path.comps[k] \in Plain /\ (path.comps[k] = ".vcs" => k = 1)}
Outer(path) == path.comps[1] # ".vcs"
At(path, i) ==
  \E f : Leads(path.comps, f, Len(path.comps)) /\ f[Len(path.comps)] = i

LEMMA LinkFind ==
  ASSUME TypeInv, Matched, NEW d \in Inodes, NEW name \in Plain
  PROVE  /\ Resolve(d, name) = -1 => \A i : ~Link(d, name, i)
         /\ Resolve(d, name) # -1 => Link(d, name, Resolve(d, name))
<1>1. d # -1 /\ name \in Components /\ name \notin {"", ".", ".."}
  <2>1. d # -1
    BY SizesLemma DEF Inodes
  <2>2. QED
    BY <2>1 DEF Plain
<1>2. CASE inode_table[d].type # DIR_TYPE
  BY <1>1, <1>2 DEF Resolve, Link
<1>3. CASE inode_table[d].type = DIR_TYPE
  <2>1. Resolve(d, name) = find_in_dir(d, name)
    BY <1>1, <1>3 DEF Resolve
  <2>2. \/ find_in_dir(d, name) = -1
        \/ \E p \in Entries(d) : find_in_dir(d, name) = IndexAt(d, p) /\ NameAt(d, p) = name
    BY <1>1, TypeFacts, FindLemma
  <2>3. ASSUME NEW i, Link(d, name, i) PROVE find_in_dir(d, name) # -1
    <3>1. PICK p \in Entries(d) : NameAt(d, p) = name
      BY <2>3 DEF Link
    <3> DEFINE hits == {q \in Positions(d) : SlotAt(d, q).name = name}
               first == CHOOSE q \in hits : IsFirstPosition(q, hits)
    <3>2. hits # {}
      BY <3>1, EntryLemma DEF NameAt
    <3>3. \E q \in hits : IsFirstPosition(q, hits)
      BY <3>2, TypeFacts, FirstPositionLemma
    <3>4. first \in hits
      BY <3>3
    <3>5. find_in_dir(d, name) = SlotAt(d, first).inode_index
      BY <1>1, <3>2 DEF find_in_dir
    <3>6. first \in Positions(d) /\ NameAt(d, first) = name
      BY <3>4 DEF NameAt
    <3>7. first \in Entries(d)
      BY <1>1, <3>6, EntryLemma
    <3>8. IndexAt(d, first) \in Inodes
      BY <3>7 DEF Matched
    <3>9. QED
      BY <3>5, <3>8 DEF IndexAt, Inodes
  <2>4. QED
    BY <1>3, <2>1, <2>2, <2>3 DEF Link
<1>4. QED
  BY <1>2, <1>3

LEMMA LinkFacts ==
  ASSUME Matched, NEW d \in Inodes, NEW name, NEW i, Link(d, name, i)
  PROVE  /\ i \in Inodes /\ inode_table[i].used /\ inode_table[i].parent_inode = d /\ Named(i)
         /\ \A e \in Inodes : \A other : Link(e, other, i) => e = d /\ other = name
<1>1. PICK p \in Entries(d) : NameAt(d, p) = name /\ IndexAt(d, p) = i
  BY DEF Link
<1>2. /\ i \in Inodes /\ inode_table[i].used /\ inode_table[i].parent_inode = d
      /\ \A q \in Entries(d) : IndexAt(d, q) = i => q = p
  BY <1>1 DEF Matched
<1>3. Named(i)
  BY <1>1 DEF Named
<1>4. ASSUME NEW e \in Inodes, NEW other, Link(e, other, i)
      PROVE  e = d /\ other = name
  <2>1. PICK q \in Entries(e) : NameAt(e, q) = other /\ IndexAt(e, q) = i
    BY <1>4 DEF Link
  <2>2. e = d
    BY <1>2, <2>1 DEF Matched
  <2>3. QED
    BY <1>1, <1>2, <2>1, <2>2
<1>5. QED
  BY <1>2, <1>3, <1>4

\* An inode other than the root is reached in one way only.
LEMMA OneWay ==
  ASSUME Matched, ~Named(0), NEW n \in Nat, NEW m \in Nat,
         NEW comps, NEW others, NEW f, NEW g,
         Leads(comps, f, n), Leads(others, g, m), f[n] = g[m]
  PROVE  n = m /\ \A k \in 1 .. n : comps[k] = others[k]
<1> DEFINE Same1(k) == \A l \in 0 .. m : f[k] = g[l] => k = l /\ \A x \in 1 .. k : comps[x] = others[x]
           S == {k \in Nat : k <= n => Same1(k)}
<1>1. \A k \in 1 .. n : Link(f[k - 1], comps[k], f[k]) /\ f[k - 1] \in Inodes /\ f[k] # 0
  <2>1. SUFFICES ASSUME NEW k \in 1 .. n
                 PROVE  Link(f[k - 1], comps[k], f[k]) /\ f[k - 1] \in Inodes /\ f[k] # 0
    OBVIOUS
  <2>2. Link(f[k - 1], comps[k], f[k]) /\ f[k - 1] \in Inodes
    BY DEF Leads
  <2>3. QED
    BY <2>2, LinkFacts
<1>2. \A l \in 1 .. m : Link(g[l - 1], others[l], g[l]) /\ g[l - 1] \in Inodes /\ g[l] # 0
  <2>1. SUFFICES ASSUME NEW l \in 1 .. m
                 PROVE  Link(g[l - 1], others[l], g[l]) /\ g[l - 1] \in Inodes /\ g[l] # 0
    OBVIOUS
  <2>2. Link(g[l - 1], others[l], g[l]) /\ g[l - 1] \in Inodes
    BY DEF Leads
  <2>3. QED
    BY <2>2, LinkFacts
<1>3. f[0] = 0 /\ g[0] = 0
  BY DEF Leads
<1>4. 0 \in S
  BY <1>2, <1>3
<1>5. ASSUME NEW k \in Nat, k \in S PROVE k + 1 \in S
  <2>1. SUFFICES ASSUME k + 1 <= n, NEW l \in 0 .. m, f[k + 1] = g[l]
                 PROVE  k + 1 = l /\ \A x \in 1 .. k + 1 : comps[x] = others[x]
    OBVIOUS
  <2>2. Same1(k)
    BY <1>5, <2>1
  <2>3. k + 1 \in 1 .. n /\ (k + 1) - 1 = k
    BY <2>1
  <2>4. Link(f[k], comps[k + 1], f[k + 1]) /\ f[k] \in Inodes /\ f[k + 1] # 0
    BY <1>1, <2>3
  <2>5. l \in 1 .. m /\ l - 1 \in 0 .. m
    BY <1>3, <2>1, <2>4
  <2>6. Link(g[l - 1], others[l], f[k + 1]) /\ g[l - 1] \in Inodes
    BY <1>2, <2>1, <2>5
  <2>7. g[l - 1] = f[k] /\ others[l] = comps[k + 1]
    BY <2>4, <2>6, LinkFacts
  <2>8. k = l - 1 /\ \A x \in 1 .. k : comps[x] = others[x]
    BY <2>2, <2>5, <2>7
  <2>9. QED
    BY <2>5, <2>7, <2>8
<1> HIDE DEF S
<1>6. Nat \subseteq S
  BY <1>4, <1>5, InductionLemma
<1>7. Same1(n)
  BY <1>6 DEF S
<1>8. QED
  BY <1>7

LEMMA SpotFacts ==
  ASSUME NEW path \in Spots
  PROVE  /\ path \in PathType /\ path \in AnyPath /\ path.absolute
         /\ Len(path.comps) \in Nat \ {0} /\ path.comps \in Seq(Components)
         /\ \A k \in 1 .. Len(path.comps) :
              path.comps[k] \in Plain /\ (path.comps[k] = ".vcs" => k = 1)
<1>1. path.comps \in Seq(Components) /\ path.comps # <<>>
  BY DEF Spots, PathType
<1>2. Len(path.comps) \in Nat \ {0}
  BY <1>1
<1>3. QED
  BY <1>1, <1>2 DEF Spots, AnyPath

LEMMA SamePath ==
  ASSUME Matched, ~Named(0), NEW path \in Spots, NEW other \in Spots, NEW i,
         At(path, i), At(other, i)
  PROVE  path = other
<1>1. PICK f : Leads(path.comps, f, Len(path.comps)) /\ f[Len(path.comps)] = i
  BY DEF At
<1>2. PICK g : Leads(other.comps, g, Len(other.comps)) /\ g[Len(other.comps)] = i
  BY DEF At
<1>3. Len(path.comps) \in Nat /\ Len(other.comps) \in Nat
  BY SpotFacts
<1>4. /\ Len(path.comps) = Len(other.comps)
      /\ \A k \in 1 .. Len(path.comps) : path.comps[k] = other.comps[k]
  BY <1>1, <1>2, <1>3, OneWay
<1>5. path.comps = other.comps
  <2>1. path.comps \in Seq(Components) /\ other.comps \in Seq(Components)
    BY SpotFacts
  <2>2. QED
    BY <1>4, <2>1
<1>6. path.absolute = other.absolute
  BY DEF Spots, PathType
<1>7. QED
  BY <1>5, <1>6 DEF Spots, PathType

\* The walk of such a path follows entries as far as it gets.
LEMMA WalkStep ==
  ASSUME TypeInv, Matched, NEW path \in Spots, NEW walk, IsWalk(walk, path),
         NEW n \in 1 .. Len(path.comps), walk[n] # -1
  PROVE  walk[n - 1] # -1 /\ Link(walk[n - 1], path.comps[n], walk[n])
<1>1. /\ walk[n] = Resolve(walk[n - 1], path.comps[n]) /\ walk[n - 1] \in Inodes \union {-1}
      /\ path.comps[n] \in Plain
  BY SpotFacts DEF IsWalk
<1>2. walk[n - 1] # -1
  BY <1>1 DEF Resolve
<1>3. QED
  BY <1>1, <1>2, LinkFind

LEMMA WalkLeads ==
  ASSUME TypeInv, Matched, NEW path \in Spots, NEW walk, IsWalk(walk, path),
         NEW n \in Nat, n <= Len(path.comps), walk[n] # -1
  PROVE  Leads(path.comps, walk, n)
<1> DEFINE S == {m \in Nat : m <= Len(path.comps) /\ walk[m] # -1 => Leads(path.comps, walk, m)}
<1>1. Len(path.comps) \in Nat /\ walk[0] = 0 /\ 0 \in Inodes
  BY SpotFacts, SizesLemma DEF IsWalk
<1>2. 0 \in S
  BY <1>1 DEF Leads
<1>3. ASSUME NEW m \in Nat, m \in S PROVE m + 1 \in S
  <2>1. SUFFICES ASSUME m + 1 <= Len(path.comps), walk[m + 1] # -1
                 PROVE  Leads(path.comps, walk, m + 1)
    OBVIOUS
  <2>2. m + 1 \in 1 .. Len(path.comps) /\ (m + 1) - 1 = m
    BY <1>1, <2>1
  <2>3. walk[m] # -1 /\ Link(walk[m], path.comps[m + 1], walk[m + 1])
    BY <2>1, <2>2, WalkStep
  <2>4. Leads(path.comps, walk, m)
    BY <1>3, <2>1, <2>2, <2>3
  <2>5. walk[m + 1] \in Inodes
    BY <2>1, <2>2 DEF IsWalk
  <2>6. QED
    BY <2>3, <2>4, <2>5 DEF Leads
<1> HIDE DEF S
<1>4. Nat \subseteq S
  BY <1>2, <1>3, InductionLemma
<1>5. QED
  BY <1>4 DEF S

LEMMA ParentLemma ==
  ASSUME NEW path \in Spots
  PROVE  /\ ParentPath(path) \in PathType /\ ParentPath(path).absolute
         /\ Len(ParentPath(path).comps) = Len(path.comps) - 1
         /\ \A k \in 1 .. Len(path.comps) - 1 : ParentPath(path).comps[k] = path.comps[k]
         /\ Last(path.comps) = path.comps[Len(path.comps)]
<1>1. path.comps \in Seq(Components) /\ path.comps # <<>> /\ Len(path.comps) \in Nat \ {0}
  BY SpotFacts
<1>2. /\ Front(path.comps) \in Seq(Components) /\ Len(Front(path.comps)) = Len(path.comps) - 1
      /\ \A k \in 1 .. Len(path.comps) - 1 : Front(path.comps)[k] = path.comps[k]
  BY <1>1 DEF Front
<1>3. ParentPath(path).comps = Front(path.comps) /\ ParentPath(path).absolute = path.absolute
      /\ ParentPath(path) \in PathType
  BY <1>2 DEF ParentPath, Spots, PathType
<1>4. QED
  BY <1>1, <1>2, <1>3 DEF Last, Spots

LEMMA SameWalk ==
  ASSUME NEW path \in PathType, NEW other \in PathType, NEW walk, NEW past,
         IsWalk(walk, path), IsWalk(past, other), path.absolute = other.absolute,
         Len(other.comps) <= Len(path.comps),
         \A k \in 1 .. Len(other.comps) : other.comps[k] = path.comps[k]
  PROVE  \A n \in 0 .. Len(other.comps) : past[n] = walk[n]
<1>1. Len(path.comps) \in Nat /\ Len(other.comps) \in Nat
  BY DEF PathType
<1> DEFINE S == {n \in Nat : n <= Len(other.comps) => past[n] = walk[n]}
<1>2. 0 \in S
  BY DEF IsWalk
<1>3. ASSUME NEW n \in Nat, n \in S PROVE n + 1 \in S
  <2>1. SUFFICES ASSUME n + 1 <= Len(other.comps) PROVE past[n + 1] = walk[n + 1]
    OBVIOUS
  <2>2. /\ n + 1 \in 1 .. Len(other.comps) /\ n + 1 \in 1 .. Len(path.comps) /\ (n + 1) - 1 = n
        /\ past[n] = walk[n]
    BY <1>1, <1>3, <2>1
  <2>3. /\ past[n + 1] = Resolve(past[n], other.comps[n + 1])
        /\ walk[n + 1] = Resolve(walk[n], path.comps[n + 1])
    BY <2>2 DEF IsWalk
  <2>4. QED
    BY <2>2, <2>3
<1> HIDE DEF S
<1>4. Nat \subseteq S
  BY <1>2, <1>3, InductionLemma
<1>5. QED
  BY <1>1, <1>4 DEF S

\* What a path and its parent resolve to.
LEMMA SpotLookup ==
  ASSUME TypeInv, Matched, NEW path \in Spots
  PROVE  LET n == Len(path.comps) IN
         \E walk : /\ IsWalk(walk, path) /\ fs_lookup_path(path) = walk[n]
                   /\ fs_lookup_path(ParentPath(path)) = walk[n - 1]
<1>1. path \in PathType /\ Len(path.comps) \in Nat \ {0}
  BY SpotFacts
<1>2. PICK walk : IsWalk(walk, path) /\ fs_lookup_path(path) = walk[Len(path.comps)]
  BY <1>1, LookupLemma
<1> DEFINE other == ParentPath(path)
<1>3. /\ other \in PathType /\ other.absolute = path.absolute
      /\ Len(other.comps) = Len(path.comps) - 1
      /\ \A k \in 1 .. Len(other.comps) : other.comps[k] = path.comps[k]
  BY ParentLemma, SpotFacts DEF Spots, PathType
<1> HIDE DEF other
<1>4. PICK past : IsWalk(past, other) /\ fs_lookup_path(other) = past[Len(other.comps)]
  BY <1>3, LookupLemma
<1>5. past[Len(other.comps)] = walk[Len(other.comps)]
  <2>1. Len(other.comps) \in Nat /\ Len(other.comps) <= Len(path.comps)
    BY <1>1, <1>3
  <2>2. QED
    BY <1>1, <1>2, <1>3, <1>4, <2>1, SameWalk
<1>6. QED
  BY <1>2, <1>3, <1>4, <1>5 DEF other

LEMMA SpotResolves ==
  ASSUME TypeInv, Matched, NEW path \in Spots
  PROVE  /\ fs_lookup_path(path) \in Inodes \union {-1}
         /\ fs_lookup_path(path) # -1 => At(path, fs_lookup_path(path))
<1>1. PICK walk : IsWalk(walk, path) /\ fs_lookup_path(path) = walk[Len(path.comps)]
  BY SpotLookup
<1>2. Len(path.comps) \in Nat
  BY SpotFacts
<1>3. QED
  BY <1>1, <1>2, WalkLeads DEF IsWalk, At

\* Where the parent resolves, and what is not there when the path does not.
LEMMA SpotParent ==
  ASSUME TypeInv, Matched, NEW path \in Spots, NEW d \in Inodes,
         fs_lookup_path(ParentPath(path)) = d
  PROVE  /\ \E f : Leads(path.comps, f, Len(path.comps) - 1) /\ f[Len(path.comps) - 1] = d
         /\ fs_lookup_path(path) = -1 => \A i : ~Link(d, Last(path.comps), i)
<1> DEFINE n == Len(path.comps)
<1>1. PICK walk : /\ IsWalk(walk, path) /\ fs_lookup_path(path) = walk[n]
                  /\ fs_lookup_path(ParentPath(path)) = walk[n - 1]
  BY SpotLookup
<1>2. n \in Nat \ {0} /\ n - 1 \in Nat /\ path.comps[n] \in Plain
  BY SpotFacts
<1>3. walk[n - 1] = d /\ d # -1
  BY <1>1, SizesLemma DEF Inodes
<1>4. Leads(path.comps, walk, n - 1)
  <2>1. n - 1 <= Len(path.comps) /\ walk[n - 1] # -1
    BY <1>2, <1>3
  <2>2. QED
    BY <1>1, <1>2, <2>1, WalkLeads
<1>5. walk[n] = Resolve(d, path.comps[n])
  <2>1. n \in 1 .. Len(path.comps)
    BY <1>2
  <2>2. walk[n] = Resolve(walk[n - 1], path.comps[n])
    BY <1>1, <2>1 DEF IsWalk
  <2>3. QED
    BY <1>3, <2>2
<1>6. Last(path.comps) = path.comps[n]
  BY ParentLemma
<1>7. walk[n] = -1 => \A i : ~Link(d, path.comps[n], i)
  BY <1>2, <1>5, LinkFind
<1>8. QED
  BY <1>1, <1>3, <1>4, <1>6, <1>7

-----------------------------------------------------------------------------
(* Inside the repository.                                                  *)

\* The inodes below /.vcs, and it, and the names that are there or lead there.
Inner(i) ==
  \E comps, f : \E n \in Nat \ {0} : Leads(comps, f, n) /\ comps[1] = ".vcs" /\ f[n] = i
Kept(d, name) == Inner(d) \/ (d = 0 /\ name = ".vcs")
OneEntry ==
  \A d \in Inodes : \A name, i, j :
    Kept(d, name) /\ Link(d, name, i) /\ Link(d, name, j) => i = j

LEMMA InnerFacts ==
  ASSUME Matched, NEW i, Inner(i)
  PROVE  i \in Inodes /\ inode_table[i].used /\ Named(i)
<1>1. PICK comps, f : \E n \in Nat \ {0} : Leads(comps, f, n) /\ comps[1] = ".vcs" /\ f[n] = i
  BY DEF Inner
<1>2. PICK n \in Nat \ {0} : Leads(comps, f, n) /\ comps[1] = ".vcs" /\ f[n] = i
  BY <1>1
<1>3. n \in 1 .. n /\ n - 1 \in 0 .. n
  BY <1>2
<1>4. Link(f[n - 1], comps[n], f[n]) /\ f[n - 1] \in Inodes
  BY <1>2, <1>3 DEF Leads
<1>5. QED
  BY <1>2, <1>4, LinkFacts

LEMMA InnerPrefix ==
  ASSUME NEW comps, NEW f, NEW n \in Nat, Leads(comps, f, n), comps[1] = ".vcs",
         NEW k \in 1 .. n
  PROVE  Inner(f[k])
<1>1. Leads(comps, f, k) /\ k \in Nat \ {0}
  BY DEF Leads
<1>2. QED
  BY <1>1 DEF Inner

LEMMA InnerLink ==
  ASSUME Matched, NEW d \in Inodes, NEW name, NEW i, Kept(d, name), Link(d, name, i)
  PROVE  Inner(i)
<1>1. i \in Inodes
  BY LinkFacts
<1>2. CASE Inner(d)
  <2>1. PICK comps, f : \E n \in Nat \ {0} : Leads(comps, f, n) /\ comps[1] = ".vcs" /\ f[n] = d
    BY <1>2 DEF Inner
  <2>2. PICK n \in Nat \ {0} : Leads(comps, f, n) /\ comps[1] = ".vcs" /\ f[n] = d
    BY <2>1
  <2>3. PICK longer : longer = [k \in 1 .. n + 1 |-> IF k = n + 1 THEN name ELSE comps[k]]
    OBVIOUS
  <2>4. PICK g : g = [k \in 0 .. n + 1 |-> IF k = n + 1 THEN i ELSE f[k]]
    OBVIOUS
  <2>5. /\ \A k \in 1 .. n : longer[k] = comps[k]
        /\ longer[n + 1] = name /\ g[n + 1] = i
        /\ \A k \in 0 .. n : g[k] = f[k]
    BY <2>3, <2>4
  <2>6. /\ f[0] = 0 /\ \A k \in 0 .. n : f[k] \in Inodes
        /\ \A k \in 1 .. n : Link(f[k - 1], comps[k], f[k])
    BY <2>2 DEF Leads
  <2>7. ASSUME NEW k \in 1 .. n + 1 PROVE Link(g[k - 1], longer[k], g[k])
    <3>1. CASE k = n + 1
      <4>1. g[k - 1] = d /\ longer[k] = name /\ g[k] = i
        BY <2>2, <2>5, <3>1
      <4>2. QED
        BY <4>1
    <3>2. CASE k # n + 1
      <4>1. k \in 1 .. n /\ k - 1 \in 0 .. n
        BY <3>2
      <4>2. g[k - 1] = f[k - 1] /\ longer[k] = comps[k] /\ g[k] = f[k]
        BY <2>5, <4>1
      <4>3. QED
        BY <2>6, <4>1, <4>2
    <3>3. QED
      BY <3>1, <3>2
  <2>8. g[0] = 0 /\ \A k \in 0 .. n + 1 : g[k] \in Inodes
    BY <1>1, <2>5, <2>6
  <2>9. Leads(longer, g, n + 1)
    BY <2>7, <2>8 DEF Leads
  <2>10. longer[1] = ".vcs" /\ n + 1 \in Nat \ {0}
    BY <2>2, <2>5
  <2>11. QED
    BY <2>5, <2>9, <2>10 DEF Inner
<1>3. CASE d = 0 /\ name = ".vcs"
  <2>1. PICK comps : comps = [k \in 1 .. 1 |-> name]
    OBVIOUS
  <2>2. PICK g : g = [k \in 0 .. 1 |-> IF k = 1 THEN i ELSE 0]
    OBVIOUS
  <2>3. comps[1] = ".vcs" /\ g[0] = 0 /\ g[1] = i
    BY <1>3, <2>1, <2>2
  <2>4. Leads(comps, g, 1)
    BY <1>1, <1>3, <2>3 DEF Leads
  <2>5. QED
    BY <2>3, <2>4 DEF Inner
<1>4. QED
  BY <1>2, <1>3 DEF Kept

\* What a path outside the repository, or the root, resolves to is not in it.
LEMMA OutsideLemma ==
  ASSUME Matched, ~Named(0), NEW comps, NEW f, NEW n \in Nat, Leads(comps, f, n),
         n = 0 \/ comps[1] # ".vcs"
  PROVE  ~Inner(f[n])
<1> SUFFICES ASSUME Inner(f[n]) PROVE FALSE
  OBVIOUS
<1>1. PICK others, g : \E m \in Nat \ {0} : Leads(others, g, m) /\ others[1] = ".vcs" /\ g[m] = f[n]
  BY DEF Inner
<1>2. PICK m \in Nat \ {0} : Leads(others, g, m) /\ others[1] = ".vcs" /\ g[m] = f[n]
  BY <1>1
<1>3. n = m /\ \A k \in 1 .. n : comps[k] = others[k]
  BY <1>2, OneWay
<1>4. QED
  BY <1>2, <1>3

LEMMA OuterLemma ==
  ASSUME Matched, ~Named(0), NEW path \in Spots, Outer(path), NEW i, At(path, i)
  PROVE  ~Inner(i)
<1>1. PICK f : Leads(path.comps, f, Len(path.comps)) /\ f[Len(path.comps)] = i
  BY DEF At
<1>2. Len(path.comps) \in Nat
  BY SpotFacts
<1>3. QED
  BY <1>1, <1>2, OutsideLemma DEF Outer

\* Inside, where names are unique, a path resolves to what it leads to.
LEMMA InnerLookup ==
  ASSUME TypeInv, Matched, OneEntry, NEW path \in Spots, ~Outer(path), NEW i, At(path, i)
  PROVE  fs_lookup_path(path) = i
<1> DEFINE N == Len(path.comps)
<1>1. PICK f : Leads(path.comps, f, N) /\ f[N] = i
  BY DEF At
<1>2. PICK walk : IsWalk(walk, path) /\ fs_lookup_path(path) = walk[N]
  BY SpotLookup
<1>3. N \in Nat /\ path.comps[1] = ".vcs" /\ path.absolute
  BY SpotFacts DEF Outer
<1> HIDE DEF N
<1> DEFINE S == {n \in Nat : n <= N => walk[n] = f[n]}
<1>4. 0 \in S
  BY <1>1, <1>2, <1>3 DEF IsWalk, Leads
<1>5. ASSUME NEW n \in Nat, n \in S PROVE n + 1 \in S
  <2>1. SUFFICES ASSUME n + 1 <= N PROVE walk[n + 1] = f[n + 1]
    OBVIOUS
  <2>2. n + 1 \in 1 .. N /\ (n + 1) - 1 = n /\ n \in 0 .. N /\ walk[n] = f[n]
    BY <1>3, <1>5, <2>1
  <2>3. walk[n + 1] = Resolve(f[n], path.comps[n + 1])
    BY <1>2, <2>2 DEF IsWalk, N
  <2>4. Link(f[n], path.comps[n + 1], f[n + 1]) /\ f[n] \in Inodes
    BY <1>1, <2>2 DEF Leads
  <2>5. path.comps[n + 1] \in Plain
    BY <2>2, SpotFacts DEF N
  <2>6. Link(f[n], path.comps[n + 1], walk[n + 1])
    BY <2>3, <2>4, <2>5, LinkFind
  <2>7. Kept(f[n], path.comps[n + 1])
    <3>1. CASE n = 0
      BY <1>1, <1>3, <3>1 DEF Kept, Leads
    <3>2. CASE n # 0
      <4>1. n \in 1 .. N
        BY <2>2, <3>2
      <4>2. QED
        BY <1>1, <1>3, <4>1, InnerPrefix DEF Kept
    <3>3. QED
      BY <3>1, <3>2
  <2>8. QED
    BY <2>4, <2>6, <2>7 DEF OneEntry
<1> HIDE DEF S
<1>6. Nat \subseteq S
  BY <1>4, <1>5, InductionLemma
<1>7. QED
  BY <1>1, <1>2, <1>3, <1>6 DEF S

-----------------------------------------------------------------------------
(* The paths of version control.                                           *)

\* Not HEAD, nor anything that may be named HEAD in the repository.
Away(path) == Outer(path) \/ (Len(path.comps) >= 2 /\ path.comps[2] # "HEAD")

LEMMA AppendLemma ==
  ASSUME NEW S, NEW s \in Seq(S), NEW x \in S
  PROVE  /\ Append(s, x) \in Seq(S) /\ Len(Append(s, x)) = Len(s) + 1
         /\ Append(s, x)[Len(s) + 1] = x
         /\ \A k \in 1 .. Len(s) : Append(s, x)[k] = s[k]
OBVIOUS

LEMMA JoinLemma ==
  ASSUME NEW path \in Spots, NEW name \in Plain, name # ".vcs"
  PROVE  /\ vcs_path_join(path, name) \in Spots
         /\ vcs_path_join(path, name).comps = Append(path.comps, name)
         /\ Outer(path) => Outer(vcs_path_join(path, name))
         /\ ~Outer(path) => ~Outer(vcs_path_join(path, name))
         /\ Away(path) => Away(vcs_path_join(path, name))
<1>1. /\ path \in PathType /\ path.comps \in Seq(Components) /\ Len(path.comps) \in Nat \ {0}
      /\ \A k \in 1 .. Len(path.comps) :
           path.comps[k] \in Plain /\ (path.comps[k] = ".vcs" => k = 1)
  BY SpotFacts
<1>2. path # Root
  <2>1. path.comps[1] # ""
    <3>1. 1 \in 1 .. Len(path.comps)
      BY <1>1
    <3>2. path.comps[1] \in Plain
      BY <1>1, <3>1
    <3>3. QED
      BY <3>2 DEF Plain
  <2>2. Root.comps[1] = ""
    BY DEF Root
  <2>3. QED
    BY <2>1, <2>2
<1> DEFINE longer == Append(path.comps, name)
<1>3. vcs_path_join(path, name) = [path EXCEPT !.comps = longer]
  BY <1>2 DEF vcs_path_join
<1>4. /\ longer \in Seq(Components) /\ Len(longer) = Len(path.comps) + 1
      /\ longer[Len(path.comps) + 1] = name
      /\ \A k \in 1 .. Len(path.comps) : longer[k] = path.comps[k]
  <2>1. name \in Components
    BY DEF Plain
  <2>2. QED
    BY <1>1, <2>1, AppendLemma
<1>5. \A k \in 1 .. Len(longer) : longer[k] \in Plain /\ (longer[k] = ".vcs" => k = 1)
  BY <1>1, <1>4
<1> HIDE DEF longer
<1>6. /\ vcs_path_join(path, name).comps = longer
      /\ vcs_path_join(path, name).absolute = path.absolute
      /\ vcs_path_join(path, name) \in PathType
  BY <1>1, <1>3, <1>4 DEF PathType
<1>7. longer # <<>>
  BY <1>1, <1>4
<1>8. vcs_path_join(path, name) \in Spots
  BY <1>5, <1>6, <1>7 DEF Spots
<1>9. longer[1] = path.comps[1] /\ (Len(path.comps) >= 2 => longer[2] = path.comps[2])
  BY <1>1, <1>4
<1>10. QED
  BY <1>1, <1>4, <1>6, <1>8, <1>9 DEF Outer, Away, longer

LEMMA RootJoin ==
  ASSUME NEW name \in Plain
  PROVE  /\ vcs_path_join(Root, name) \in Spots
         /\ vcs_path_join(Root, name).comps = <<name>>
<1>1. vcs_path_join(Root, name) = [Root EXCEPT !.comps = <<name>>]
  BY DEF vcs_path_join
<1>2. vcs_path_join(Root, name) = [absolute |-> TRUE, comps |-> <<name>>]
  BY <1>1 DEF Root
<1>3. <<name>> \in Seq(Components) /\ <<name>> # <<>>
  <2>1. name \in Components
    BY DEF Plain
  <2>2. <<name>> \in Seq(Components)
    BY <2>1
  <2>3. Len(<<name>>) = 1
    OBVIOUS
  <2>4. QED
    BY <2>2, <2>3
<1>4. vcs_path_join(Root, name) \in PathType
  BY <1>2, <1>3 DEF PathType
<1>5. /\ vcs_path_join(Root, name).comps = <<name>>
      /\ vcs_path_join(Root, name).absolute = TRUE
  BY <1>2
<1>6. QED
  BY <1>3, <1>4, <1>5 DEF Spots

LEMMA NamesLemma ==
  /\ {".vcs", "commits", "HEAD", "NEXT", "tree", "meta"} \subseteq Plain
  /\ \A n \in Ids : CommitName[n] \in Plain /\ CommitName[n] # ".vcs"
<1>1. {".vcs", "commits", "HEAD", "NEXT", "tree", "meta"} \subseteq Names
  BY IdsAssumption
<1>2. \A n \in Ids : CommitName[n] \in Names /\ CommitName[n] \notin {"", ".", "..", ".vcs"}
  BY IdsAssumption
<1>3. QED
  BY <1>1, <1>2 DEF Plain, Components

LEMMA RepositoryPaths ==
  /\ Repository \in Spots /\ Commits \in Spots /\ HEAD \in Spots /\ NEXT \in Spots
  /\ ~Outer(HEAD) /\ Away(NEXT) /\ Away(Commits) /\ ~Outer(Commits)
  /\ Len(HEAD.comps) = 2 /\ HEAD.comps[2] = "HEAD"
<1>1. Repository \in Spots /\ Repository.comps = <<".vcs">>
  BY RootJoin, NamesLemma DEF Repository
<1>2. ~Outer(Repository)
  BY <1>1 DEF Outer
<1>3. /\ Commits \in Spots /\ Commits.comps = Append(Repository.comps, "commits") /\ ~Outer(Commits)
      /\ HEAD \in Spots /\ HEAD.comps = Append(Repository.comps, "HEAD") /\ ~Outer(HEAD)
      /\ NEXT \in Spots /\ NEXT.comps = Append(Repository.comps, "NEXT")
  <2>1. "commits" \in Plain /\ "HEAD" \in Plain /\ "NEXT" \in Plain
    BY NamesLemma
  <2>2. QED
    BY <1>1, <1>2, <2>1, JoinLemma DEF Commits, HEAD, NEXT
<1>4. /\ Len(HEAD.comps) = 2 /\ HEAD.comps[2] = "HEAD"
      /\ Len(Commits.comps) = 2 /\ Commits.comps[2] = "commits"
      /\ Len(NEXT.comps) = 2 /\ NEXT.comps[2] = "NEXT"
  <2>1. Repository.comps \in Seq(Components) /\ Len(Repository.comps) = 1
    BY <1>1, SpotFacts
  <2>2. "commits" \in Components /\ "HEAD" \in Components /\ "NEXT" \in Components
    BY NamesLemma DEF Plain
  <2>3. Len(Repository.comps) + 1 = 2
    BY <2>1
  <2>4. QED
    BY <1>3, <2>1, <2>2, <2>3, AppendLemma
<1>5. Away(NEXT) /\ Away(Commits)
  BY <1>4 DEF Away
<1>6. QED
  BY <1>1, <1>3, <1>4, <1>5

LEMMA CommitPaths ==
  ASSUME NEW n \in Ids
  PROVE  /\ CommitDir(n) \in Spots /\ TreeDir(n) \in Spots /\ MetaFile(n) \in Spots
         /\ ~Outer(TreeDir(n))
         /\ Away(CommitDir(n)) /\ Away(TreeDir(n)) /\ Away(MetaFile(n))
<1>1. CommitDir(n) \in Spots /\ ~Outer(CommitDir(n)) /\ Away(CommitDir(n))
  BY RepositoryPaths, NamesLemma, JoinLemma DEF CommitDir
<1>2. "tree" \in Plain /\ "meta" \in Plain
  BY NamesLemma
<1>3. QED
  BY <1>1, <1>2, JoinLemma DEF TreeDir, MetaFile

LEMMA HeadPath ==
  /\ ~Away(HEAD)
  /\ \A path \in Spots : Away(path) => path # HEAD
BY RepositoryPaths DEF Away, Outer

LEMMA RootLookup ==
  ASSUME TypeInv, Matched
  PROVE  fs_lookup_path(Root) = 0
<1>1. Root \in PathType /\ Len(Root.comps) = 1 /\ Root.comps[1] = "" /\ Root.absolute
  BY DEF Root, PathType, Components
<1>2. PICK walk : IsWalk(walk, Root) /\ fs_lookup_path(Root) = walk[1]
  BY <1>1, LookupLemma
<1>3. walk[0] = 0 /\ walk[1] = Resolve(walk[0], "")
  <2>1. 1 \in 1 .. Len(Root.comps) /\ 1 - 1 = 0
    <3>1. PICK n : n = Len(Root.comps) /\ n = 1
      BY <1>1
    <3>2. QED
      BY <3>1
  <2>2. walk[1] = Resolve(walk[1 - 1], Root.comps[1])
    BY <1>2, <2>1 DEF IsWalk
  <2>3. walk[0] = 0
    BY <1>1, <1>2 DEF IsWalk
  <2>4. QED
    BY <1>1, <2>1, <2>2, <2>3
<1>4. QED
  BY <1>2, <1>3 DEF Resolve

LEMMA UserPaths ==
  ASSUME NEW path \in TreeFiles
  PROVE  path \in Spots /\ Outer(path)
<1>1. path \in PathType /\ path.comps # <<>> /\ path.absolute
  BY InputsAssumption DEF TreeFiles
<1>2. path.comps \in Seq(Components) /\ DOMAIN path.comps = 1 .. Len(path.comps)
  BY <1>1 DEF PathType
<1>3. \A k \in 1 .. Len(path.comps) :
        path.comps[k] \in Components /\ path.comps[k] \notin {"", ".", "..", ".vcs"}
  <2>1. \A k \in DOMAIN path.comps : path.comps[k] \notin {"", ".", "..", ".vcs"}
    BY DEF TreeFiles
  <2>2. SUFFICES ASSUME NEW k \in 1 .. Len(path.comps)
                 PROVE  path.comps[k] \in Components /\ path.comps[k] \notin {"", ".", "..", ".vcs"}
    OBVIOUS
  <2>3. k \in DOMAIN path.comps /\ path.comps[k] \in Components
    BY <1>2
  <2>4. QED
    BY <2>1, <2>3
<1>4. Len(path.comps) \in Nat \ {0}
  BY <1>1, <1>2
<1>5. \A k \in 1 .. Len(path.comps) : path.comps[k] \in Plain /\ path.comps[k] # ".vcs"
  BY <1>3 DEF Plain
<1>6. path.comps[1] # ".vcs"
  BY <1>4, <1>5
<1>7. QED
  BY <1>1, <1>5, <1>6 DEF Spots, Outer

-----------------------------------------------------------------------------
(* What version control has the file system do.                            *)

\* A commit has a tree; a text for HEAD is empty or names a commit that has one.
There(n) == \E i \in Inodes : At(TreeDir(n), i)
Good(text) == text = <<>> \/ \E n \in Ids : text = <<IdText[n]>> /\ There(n)

\* Calls that change no entry and no text.
Quiet(path) ==
  CreateRefused(path) \/ DeleteRefused(path) \/ WriteRefused(path) \/ handle_cd(path)
CarefulCreate(path) ==
  /\ Outer(path) \/ fs_lookup_path(path) = -1
  /\ \E type \in {FILE_TYPE, DIR_TYPE} : Create(path, type)
CarefulDelete(path) == Outer(path) /\ Delete(path)
CarefulWrite(path) ==
  \E data \in AnyText : (path = HEAD => Good(data)) /\ Write(path, data)
FsStep ==
  \/ Step \/ UNCHANGED vars \/ \E path \in AnyPath : Quiet(path)
  \/ \E path \in Spots : CarefulCreate(path) \/ CarefulDelete(path) \/ CarefulWrite(path)

\* The entries of every directory have names a path can have, .vcs only in the
\* root, and none is an entry of the root.
NamesInv ==
  \A d \in Inodes :
    /\ \A p \in Entries(d) :
         /\ NameAt(d, p) \in Plain /\ (NameAt(d, p) = ".vcs" => d = 0)
         /\ IndexAt(d, p) # 0
    /\ inode_table[d].type = DIR_TYPE => \A p \in Positions(d) : NameAt(d, p) \in Components
SizelessDirs(t) == \A i \in Inodes : t[i].type = DIR_TYPE => t[i].file_size = 0
\* A name that is being created in the repository is not there yet.
FreshName ==
  pc \in {"insert", "attach"} /\ Kept(arg.dir, arg.name) =>
    \A i : ~Link(arg.dir, arg.name, i)
WritingHead ==
  /\ arg.op = "write" /\ pc \in {"free", "alloc", "put"} /\ At(HEAD, arg.ino)
HeadInv ==
  /\ \A h \in Inodes : At(HEAD, h) => \A text \in Shows(h) : Good(text)
  /\ WritingHead => Good(arg.data)
TablesInv ==
  /\ Tidy(inode_table) /\ SizelessDirs(inode_table) /\ Tidy(table) /\ SizelessDirs(table)
RepositoryInv ==
  /\ SessionInv /\ TablesInv /\ NamesInv /\ Creating /\ FreshName /\ OneEntry /\ HeadInv

LEMMA FsIsSession == FsStep => [AnySession]_vars
<1>1. \A path \in Spots : path \in AnyPath
  BY SpotFacts
<1>2. QED
  BY <1>1
  DEF FsStep, AnySession, AnyCommand, CommandOf, Quiet, CarefulCreate, CarefulDelete,
      CarefulWrite, handle_create, handle_delete

LEMMA RepositoryFacts ==
  RepositoryInv => /\ TypeInv /\ Matched /\ ~Named(0) /\ OneEntry /\ Tidy(inode_table)
                   /\ inode_table[0].used /\ inode_table[0].type = DIR_TYPE
<1>1. SessionInv => TypeInv /\ Matched /\ RootIntact
  BY DEF SessionInv, EntriesInv, RootInv
<1>2. TypeInv /\ RootIntact => inode_table[0].used /\ inode_table[0].type = DIR_TYPE
  BY RootFacts DEF IsRoot
<1>3. NamesInv => ~Named(0)
  BY DEF NamesInv, Named
<1>4. QED
  BY <1>1, <1>2, <1>3 DEF RepositoryInv, TablesInv

\* What a step does to the links: none is new but that of the entry it inserts.
Linked(d, name, i) ==
  /\ pc \in {"insert", "attach"} /\ pc' = "save"
  /\ d = arg.dir /\ name = arg.name /\ i = arg.ino

LEMMA LinkChange ==
  ASSUME Tidy(inode_table), NEW d \in Inodes, Changed(d), NEW name, NEW i
  PROVE  /\ Link(d, name, i)' => Link(d, name, i) \/ Linked(d, name, i)
         /\ Link(d, name, i) => Link(d, name, i)' \/ Deleted(i) \/ Losing(d)
<1>1. ASSUME NEW p \in Entries(d) PROVE inode_table[d].used
  <2>1. p \in Positions(d)
    BY EntryLemma
  <2>2. inode_table[d].block_count # 0
    BY <2>1 DEF Positions
  <2>3. QED
    BY <2>2 DEF Tidy
<1>2. ASSUME Link(d, name, i)' PROVE Link(d, name, i) \/ Linked(d, name, i)
  <2>1. PICK p \in Entries(d)' : NameAt(d, p)' = name /\ IndexAt(d, p)' = i
    BY <1>2 DEF Link
  <2>2. CASE p \in Entries(d) /\ Same(d, p)
    <3>1. inode_table[d].type = DIR_TYPE
      BY <1>1, <1>2, <2>2 DEF Changed, InodeChanged, Link
    <3>2. QED
      BY <2>1, <2>2, <3>1 DEF Link, Same
  <2>3. CASE Inserted(d, p)
    BY <2>1, <2>3 DEF Inserted, Linked
  <2>4. QED
    BY <2>2, <2>3 DEF Changed, EntriesChanged
<1>3. ASSUME Link(d, name, i), ~Deleted(i), ~Losing(d) PROVE Link(d, name, i)'
  <2>1. PICK p \in Entries(d) : NameAt(d, p) = name /\ IndexAt(d, p) = i
    BY <1>3 DEF Link
  <2>2. p \in Entries(d)' /\ Same(d, p)
    BY <1>3, <2>1 DEF Changed, EntriesChanged
  <2>3. inode_table'[d].type = DIR_TYPE
    BY <1>1, <1>3, <2>1 DEF Changed, InodeChanged, Link
  <2>4. QED
    BY <2>1, <2>2, <2>3 DEF Link, Same
<1>4. QED
  BY <1>2, <1>3

\* Nothing in the repository is deleted or loses its blocks.
LEMMA KeptLink ==
  ASSUME RepositoryInv, FsStep, NEW d \in Inodes, NEW name, NEW i,
         Kept(d, name), Link(d, name, i)
  PROVE  Link(d, name, i)'
<1>1. Tidy(inode_table) /\ Changed(d)
  BY FsIsSession, ChangeLemma DEF RepositoryInv, TablesInv
<1>2. ~Losing(d)
  <2>1. SUFFICES ASSUME pc = "free", d = arg.ino PROVE FALSE
    BY DEF Losing
  <2>2. CASE arg.op = "write"
    BY <2>1, <2>2 DEF RepositoryInv, SessionInv, UnsavedInv, Link, FILE_TYPE, DIR_TYPE
  <2>3. CASE arg.op = "delete"
    <3>1. ~Named(d) /\ d # 0
      BY <2>1, <2>3 DEF RepositoryInv, SessionInv, EntriesInv, RootInv
    <3>2. QED
      BY <3>1, RepositoryFacts, InnerFacts DEF Kept
  <2>4. QED
    BY <2>1, <2>2, <2>3 DEF RepositoryInv, SessionInv, UnsavedInv
<1>3. ~Deleted(i)
  <2>1. SUFFICES ASSUME pc = "idle", pc' = "free", arg'.op = "delete", arg'.ino = i
                 PROVE  FALSE
    BY DEF Deleted
  <2>2. PICK path \in Spots : CarefulDelete(path)
    <3>1. ~Step
      BY <2>1 DEF Step, InsertEntry, InsertAlloc, AttachBlock, InsertFailed, FreeBlock, FreeDone,
                  WriteAlloc, WriteBlock, WriteFailed, WriteDone, save_inode_table, FlushTable
    <3>2. ASSUME NEW path \in AnyPath PROVE ~Quiet(path)
      BY <2>1 DEF Quiet, CreateRefused, DeleteRefused, WriteRefused, handle_cd, Return
    <3>3. ASSUME NEW path \in Spots PROVE ~CarefulCreate(path) /\ ~CarefulWrite(path)
      BY <2>1 DEF CarefulCreate, Create, CarefulWrite, Write, NoArg
    <3>4. ~UNCHANGED vars
      BY <2>1 DEF vars
    <3>5. QED
      BY <3>1, <3>2, <3>3, <3>4 DEF FsStep
  <2>3. PICK j \in Inodes \ {0} : j = fs_lookup_path(path) /\ arg' = [NoArg EXCEPT !.op = "delete", !.ino = j]
    BY <2>2 DEF CarefulDelete, Delete
  <2>4. i = j
    BY <2>1, <2>3 DEF NoArg
  <2>5. At(path, i)
    <3>1. j # -1
      BY SizesLemma DEF Inodes
    <3>2. QED
      BY <2>3, <2>4, <3>1, RepositoryFacts, SpotResolves
  <2>6. ~Inner(i)
    BY <2>2, <2>5, RepositoryFacts, OuterLemma DEF CarefulDelete
  <2>7. QED
    BY <2>6, RepositoryFacts, InnerLink
<1>4. QED
  BY <1>1, <1>2, <1>3, LinkChange

LEMMA KeptLeads ==
  ASSUME RepositoryInv, FsStep, NEW comps, NEW f, NEW n \in Nat,
         Leads(comps, f, n), n = 0 \/ comps[1] = ".vcs"
  PROVE  Leads(comps, f, n)'
<1>1. ASSUME NEW k \in 1 .. n PROVE Link(f[k - 1], comps[k], f[k])'
  <2>1. f[k - 1] \in Inodes /\ Link(f[k - 1], comps[k], f[k]) /\ f[0] = 0 /\ comps[1] = ".vcs"
    BY DEF Leads
  <2>2. Kept(f[k - 1], comps[k])
    <3>1. CASE k = 1
      BY <2>1, <3>1 DEF Kept
    <3>2. CASE k # 1
      <4>1. k - 1 \in 1 .. n
        BY <3>2
      <4>2. QED
        BY <2>1, <4>1, InnerPrefix DEF Kept
    <3>3. QED
      BY <3>1, <3>2
  <2>3. PICK d, name, i : d = f[k - 1] /\ name = comps[k] /\ i = f[k]
    OBVIOUS
  <2>4. Link(d, name, i)'
    BY <2>1, <2>2, <2>3, KeptLink
  <2>5. QED
    BY <2>3, <2>4
<1>2. QED
  BY <1>1 DEF Leads

\* A commit's tree stays.
LEMMA ThereStays ==
  ASSUME RepositoryInv, FsStep, NEW n \in Ids, There(n)
  PROVE  There(n)'
<1>1. PICK path \in Spots : path = TreeDir(n)
  BY CommitPaths
<1>2. PICK i \in Inodes : At(path, i)
  BY <1>1 DEF There
<1>3. PICK f : Leads(path.comps, f, Len(path.comps)) /\ f[Len(path.comps)] = i
  BY <1>2 DEF At
<1>4. Len(path.comps) \in Nat /\ path.comps[1] = ".vcs"
  BY <1>1, CommitPaths, SpotFacts DEF Outer
<1>5. Leads(path.comps, f, Len(path.comps))'
  BY <1>3, <1>4, KeptLeads
<1>6. At(path, i)'
  BY <1>3, <1>5 DEF At
<1>7. QED
  BY <1>1, <1>6 DEF There, TreeDir, CommitDir, Commits, Repository, Root

LEMMA GoodStays ==
  ASSUME RepositoryInv, FsStep, NEW text, Good(text)
  PROVE  Good(text)'
BY ThereStays DEF Good

\* What step makes a link, and where the rest of the paths that use it were.
LEMMA NewLeads ==
  ASSUME RepositoryInv, FsStep, NEW comps, NEW f, NEW n \in Nat, Leads(comps, f, n)'
  PROVE  \/ Leads(comps, f, n)
         \/ /\ n # 0 /\ Leads(comps, f, n - 1) /\ Linked(f[n - 1], comps[n], f[n])
<1>1. /\ \A e \in Inodes : Changed(e)
      /\ Tidy(inode_table)
  BY FsIsSession, ChangeLemma DEF RepositoryInv, TablesInv
<1>2. /\ f[0] = 0 /\ \A k \in 0 .. n : f[k] \in Inodes
      /\ \A k \in 1 .. n : Link(f[k - 1], comps[k], f[k])'
  BY DEF Leads
<1>3. ASSUME NEW k \in 1 .. n
      PROVE  Link(f[k - 1], comps[k], f[k]) \/ Linked(f[k - 1], comps[k], f[k])
  <2>1. PICK d, name, i : d = f[k - 1] /\ name = comps[k] /\ i = f[k]
    OBVIOUS
  <2>2. d \in Inodes /\ Link(d, name, i)'
    BY <1>2, <2>1
  <2>3. QED
    BY <1>1, <2>1, <2>2, LinkChange
\* A new inode has no entries, so its link is the last one.
<1>4. ASSUME NEW k \in 1 .. n, k # n PROVE ~Linked(f[k - 1], comps[k], f[k])
  <2>1. SUFFICES ASSUME Linked(f[k - 1], comps[k], f[k]) PROVE FALSE
    OBVIOUS
  <2>2. k + 1 \in 1 .. n /\ (k + 1) - 1 = k
    BY <1>4
  <2>3. Link(f[k], comps[k + 1], f[k + 1]) \/ Linked(f[k], comps[k + 1], f[k + 1])
    BY <1>3, <2>2
  <2>4. /\ f[k] = arg.ino /\ arg.ino # arg.dir
        /\ inode_table[f[k]].block_count = 0
    BY <2>1 DEF RepositoryInv, Creating, Linked
  <2>5. Entries(f[k]) = {}
    BY <2>4 DEF Entries, Positions
  <2>6. QED
    BY <2>3, <2>4, <2>5 DEF Link, Linked
<1>5. CASE n = 0
  BY <1>2, <1>5 DEF Leads
<1>6. CASE n # 0
  <2>1. n - 1 \in Nat /\ n \in 1 .. n
    BY <1>6
  <2>2. Leads(comps, f, n - 1)
    BY <1>2, <1>3, <1>4 DEF Leads
  <2>3. Link(f[n - 1], comps[n], f[n]) => Leads(comps, f, n)
    BY <1>2, <1>3, <1>4 DEF Leads
  <2>4. QED
    BY <1>3, <1>6, <2>1, <2>2, <2>3
<1>7. QED
  BY <1>5, <1>6

LEMMA NewAt ==
  ASSUME RepositoryInv, FsStep, NEW path \in Spots, NEW i, At(path, i)'
  PROVE  At(path, i) \/ (pc \in {"insert", "attach"} /\ pc' = "save" /\ i = arg.ino)
<1>1. PICK f : Leads(path.comps, f, Len(path.comps))' /\ f[Len(path.comps)] = i
  BY DEF At
<1>2. Len(path.comps) \in Nat
  BY SpotFacts
<1>3. QED
  BY <1>1, <1>2, NewLeads DEF At, Linked

LEMMA NewInner ==
  ASSUME RepositoryInv, FsStep, NEW i, Inner(i)'
  PROVE  Inner(i) \/ (pc \in {"insert", "attach"} /\ pc' = "save" /\ i = arg.ino)
<1>1. PICK comps, f : \E n \in Nat \ {0} : Leads(comps, f, n)' /\ comps[1] = ".vcs" /\ f[n] = i
  BY DEF Inner
<1>2. PICK n \in Nat \ {0} : Leads(comps, f, n)' /\ comps[1] = ".vcs" /\ f[n] = i
  BY <1>1
<1>3. QED
  BY <1>2, NewLeads DEF Inner, Linked

LEMMA NewKept ==
  ASSUME RepositoryInv, FsStep, NEW d \in Inodes, NEW name, NEW i,
         Kept(d, name)', Link(d, name, i)'
  PROVE  Kept(d, name)
<1>1. CASE d = 0 /\ name = ".vcs"
  BY <1>1 DEF Kept
<1>2. CASE Inner(d)'
  <2>1. SUFFICES ASSUME d = arg.ino, pc \in {"insert", "attach"} PROVE FALSE
    BY <1>2, NewInner DEF Kept
  <2>2. d # arg.dir /\ inode_table[d].block_count = 0
    BY <2>1 DEF RepositoryInv, Creating
  <2>3. Entries(d) = {}
    BY <2>2 DEF Entries, Positions
  <2>4. Changed(d) /\ Tidy(inode_table)
    BY FsIsSession, ChangeLemma DEF RepositoryInv, TablesInv
  <2>5. Link(d, name, i) \/ Linked(d, name, i)
    BY <2>4, LinkChange
  <2>6. QED
    BY <2>2, <2>3, <2>5 DEF Link, Linked
<1>3. QED
  BY <1>1, <1>2 DEF Kept

LEMMA StepOneEntry ==
  ASSUME RepositoryInv, FsStep
  PROVE  OneEntry'
<1> SUFFICES ASSUME NEW d \in Inodes, NEW name, NEW i, NEW j,
                    Kept(d, name)', Link(d, name, i)', Link(d, name, j)'
             PROVE  i = j
  BY DEF OneEntry
<1>1. Kept(d, name)
  BY NewKept
<1>2. Changed(d) /\ Tidy(inode_table)
  BY FsIsSession, ChangeLemma DEF RepositoryInv, TablesInv
<1>3. Link(d, name, i) \/ Linked(d, name, i)
  BY <1>2, LinkChange
<1>4. Link(d, name, j) \/ Linked(d, name, j)
  BY <1>2, LinkChange
<1>5. CASE Link(d, name, i) /\ Link(d, name, j)
  BY <1>1, <1>5 DEF RepositoryInv, OneEntry
<1>6. CASE Linked(d, name, i) /\ Linked(d, name, j)
  BY <1>6 DEF Linked
<1>7. ASSUME NEW x, NEW y, Link(d, name, x), Linked(d, name, y) PROVE FALSE
  BY <1>1, <1>7 DEF RepositoryInv, FreshName, Linked
<1>8. QED
  BY <1>3, <1>4, <1>5, <1>6, <1>7

\* The directory a creation puts its entry into.
LEMMA CreateFacts ==
  ASSUME RepositoryInv, NEW path \in Spots, CarefulCreate(path)
  PROVE  \E d \in Inodes, j \in Inodes :
           /\ d = fs_lookup_path(ParentPath(path)) /\ inode_table[d].used /\ ~inode_table[j].used
           /\ \E type \in {FILE_TYPE, DIR_TYPE} :
                inode_table' = [inode_table EXCEPT ![j] = NewInode(type, d)]
           /\ UNCHANGED block /\ pc' = "insert"
           /\ arg'.op = "create" /\ arg'.ino = j /\ arg'.dir = d /\ arg'.name = Last(path.comps)
           /\ Last(path.comps) \in Plain /\ (Last(path.comps) = ".vcs" => d = 0)
           /\ Kept(d, Last(path.comps)) => \A i : ~Link(d, Last(path.comps), i)
<1>1. PICK type \in {FILE_TYPE, DIR_TYPE} : Create(path, type)
  BY DEF CarefulCreate
<1>2. PICK d \in Inodes, j \in Inodes :
        /\ d = fs_lookup_path(ParentPath(path)) /\ ~inode_table[j].used
        /\ inode_table' = [inode_table EXCEPT ![j] = NewInode(type, d)]
        /\ arg' = [NoArg EXCEPT !.op = "create", !.ino = j, !.dir = d, !.name = Last(path.comps)]
  BY <1>1 DEF Create, IsFirst, UnusedInodes
<1>3. /\ arg'.op = "create" /\ arg'.ino = j /\ arg'.dir = d /\ arg'.name = Last(path.comps)
      /\ UNCHANGED block /\ pc' = "insert"
  BY <1>1, <1>2 DEF Create, NoArg
<1>4. /\ TypeInv /\ Matched /\ ~Named(0) /\ inode_table[0].used
  BY RepositoryFacts
<1>5. PICK n \in Nat \ {0} : n = Len(path.comps)
  BY SpotFacts
<1>6. PICK f : Leads(path.comps, f, n - 1) /\ f[n - 1] = d
  BY <1>5, <1>2, <1>4, SpotParent
<1>7. n - 1 \in Nat /\ n \in 1 .. n /\ Last(path.comps) = path.comps[n]
  BY <1>5, ParentLemma
<1>8. Last(path.comps) \in Plain /\ (Last(path.comps) = ".vcs" => n = 1)
  BY <1>5, <1>7, SpotFacts
<1>9. Last(path.comps) = ".vcs" => d = 0
  <2>1. f[0] = 0
    BY <1>6 DEF Leads
  <2>2. n = 1 => f[0] = d
    BY <1>6
  <2>3. QED
    BY <1>8, <2>1, <2>2
<1>10. inode_table[d].used
  <2>1. CASE n = 1
    <3>1. f[0] = d /\ f[0] = 0
      BY <1>6, <2>1 DEF Leads
    <3>2. QED
      BY <1>4, <3>1
  <2>2. CASE n # 1
    <3>1. n - 1 \in 1 .. n - 1 /\ (n - 1) - 1 \in 0 .. n - 1
      BY <1>7, <2>2
    <3>2. Link(f[(n - 1) - 1], path.comps[n - 1], f[n - 1]) /\ f[(n - 1) - 1] \in Inodes
      BY <1>6, <3>1 DEF Leads
    <3>3. QED
      BY <1>4, <1>6, <3>2, LinkFacts
  <2>3. QED
    BY <2>1, <2>2
<1>11. ASSUME Kept(d, Last(path.comps)) PROVE \A i : ~Link(d, Last(path.comps), i)
  <2>1. CASE Outer(path)
    <3>1. ~Inner(d)
      BY <1>4, <1>6, <1>7, <2>1, OutsideLemma DEF Outer
    <3>2. Last(path.comps) # ".vcs"
      BY <1>7, <1>8, <2>1 DEF Outer
    <3>3. QED
      BY <1>11, <3>1, <3>2 DEF Kept
  <2>2. CASE fs_lookup_path(path) = -1
    BY <1>2, <1>4, <2>2, SpotParent
  <2>3. QED
    BY <2>1, <2>2 DEF CarefulCreate
<1>12. QED
  BY <1>2, <1>3, <1>8, <1>9, <1>10, <1>11

LEMMA TableChange ==
  ASSUME TypeInv, [AnySession]_vars, NEW i \in Inodes
  PROVE  \E r \in {table[i], inode_table[i]} :
           /\ table'[i].used = r.used /\ table'[i].type = r.type
           /\ table'[i].file_size = r.file_size /\ table'[i].block_count = r.block_count
<1>1. inode_table[i] \in Inode /\ table[i] \in Inode
  BY TypeFacts
<1>2. ASSUME UNCHANGED table
      PROVE  \E r \in {table[i], inode_table[i]} :
               /\ table'[i].used = r.used /\ table'[i].type = r.type
               /\ table'[i].file_size = r.file_size /\ table'[i].block_count = r.block_count
  BY <1>2
<1>3. CASE save_inode_table
  <2>1. table'[i] = FirstPart(i)
    BY <1>3 DEF save_inode_table
  <2>2. CASE i = SPLIT_INODE
    <3>1. PICK r, blocks, parent :
            /\ r = inode_table[i] /\ r \in Inode
            /\ table'[i] = [r EXCEPT !.blocks = blocks, !.parent_inode = parent]
      <4>1. ~(i < SPLIT_INODE) /\ ~(i > SPLIT_INODE)
        BY <2>2, SizesLemma DEF Inodes
      <4>2. QED
        BY <1>1, <2>1, <4>1 DEF FirstPart
    <3>2. /\ table'[i].used = r.used /\ table'[i].type = r.type
          /\ table'[i].file_size = r.file_size /\ table'[i].block_count = r.block_count
      BY <3>1 DEF Inode
    <3>3. QED
      BY <3>1, <3>2
  <2>3. CASE i # SPLIT_INODE
    <3>1. i < SPLIT_INODE \/ i > SPLIT_INODE
      BY <2>3, SizesLemma DEF Inodes
    <3>2. FirstPart(i) \in {inode_table[i], table[i]}
      BY <2>3, <3>1, SizesLemma DEF FirstPart
    <3>3. QED
      BY <2>1, <3>2
  <2>4. QED
    BY <2>2, <2>3
<1>4. CASE FlushTable
  BY <1>4 DEF FlushTable
<1>5. CASE AnyCommand
  BY <1>2, <1>5 DEF AnyCommand, CommandOf, handle_create, handle_delete, handle_cd, CreateRefused,
    Create, DeleteRefused, Delete, WriteRefused, Write, disk
<1>6. CASE Step /\ ~save_inode_table /\ ~FlushTable
  BY <1>2, <1>6 DEF Step, InsertEntry, InsertAlloc, AttachBlock, InsertFailed, FreeBlock, FreeDone,
    WriteAlloc, WriteBlock, WriteFailed, WriteDone
<1>7. CASE UNCHANGED vars
  BY <1>2, <1>7 DEF vars
<1>8. QED
  BY <1>3, <1>4, <1>5, <1>6, <1>7 DEF AnySession

LEMMA StepTablesInv ==
  ASSUME RepositoryInv, FsStep
  PROVE  TablesInv'
<1>1. [AnySession]_vars /\ TypeInv /\ \A e \in Inodes : Changed(e)
  BY FsIsSession, ChangeLemma DEF RepositoryInv, TablesInv, SessionInv
<1>2. ASSUME NEW i \in Inodes
      PROVE  /\ inode_table'[i].used \/ inode_table'[i].block_count = 0
             /\ inode_table'[i].type = DIR_TYPE => inode_table'[i].file_size = 0
  BY <1>1, <1>2 DEF Changed, InodeChanged, RepositoryInv, TablesInv, SizelessDirs
<1>3. ASSUME NEW i \in Inodes
      PROVE  /\ table'[i].used \/ table'[i].block_count = 0
             /\ table'[i].type = DIR_TYPE => table'[i].file_size = 0
  BY <1>1, <1>3, TableChange DEF RepositoryInv, TablesInv, SizelessDirs, Tidy
<1>4. QED
  BY <1>2, <1>3 DEF TablesInv, SizelessDirs, Tidy

LEMMA StepNamesInv ==
  ASSUME RepositoryInv, FsStep
  PROVE  NamesInv'
<1> SUFFICES ASSUME NEW d \in Inodes
             PROVE  /\ \A p \in Entries(d)' :
                         /\ NameAt(d, p)' \in Plain /\ (NameAt(d, p)' = ".vcs" => d = 0)
                         /\ IndexAt(d, p)' # 0
                    /\ inode_table'[d].type = DIR_TYPE =>
                         \A p \in Positions(d)' : NameAt(d, p)' \in Components
  BY DEF NamesInv
<1>1. Changed(d)
  BY FsIsSession, ChangeLemma DEF RepositoryInv, TablesInv
<1>2. ASSUME NEW p \in Entries(d)'
      PROVE  /\ NameAt(d, p)' \in Plain /\ (NameAt(d, p)' = ".vcs" => d = 0)
             /\ IndexAt(d, p)' # 0
  <2>1. CASE p \in Entries(d) /\ Same(d, p)
    BY <2>1 DEF RepositoryInv, NamesInv, Same
  <2>2. CASE Inserted(d, p)
    BY <2>2 DEF RepositoryInv, Creating, Inserted, SessionInv, RootInv
  <2>3. QED
    BY <1>1, <2>1, <2>2 DEF Changed, EntriesChanged
<1>3. ASSUME inode_table'[d].type = DIR_TYPE, NEW p \in Positions(d)'
      PROVE  NameAt(d, p)' \in Components
  <2>1. \/ NameAt(d, p)' \in Components
        \/ inode_table[d].type = DIR_TYPE /\ p \in Positions(d) /\ Same(d, p)
    BY <1>1, <1>3 DEF Changed, InodeChanged
  <2>2. QED
    BY <2>1 DEF RepositoryInv, NamesInv, Same
<1>4. QED
  BY <1>2, <1>3

\* How a state inside a creation comes about.
LEMMA CreatingStep ==
  ASSUME RepositoryInv, FsStep, pc' \in {"insert", "attach"}
  PROVE  \/ \E path \in Spots : CarefulCreate(path)
         \/ /\ pc \in {"insert", "attach"} /\ arg' = arg
            /\ inode_table'[arg.ino].block_count = inode_table[arg.ino].block_count
            /\ \A i \in Inodes : inode_table'[i].used = inode_table[i].used
<1>1. ASSUME NEW path \in AnyPath PROVE ~Quiet(path)
  BY DEF Quiet, CreateRefused, DeleteRefused, WriteRefused, handle_cd, Return
<1>2. ASSUME NEW path \in Spots PROVE ~CarefulDelete(path) /\ ~CarefulWrite(path)
  BY DEF CarefulDelete, Delete, CarefulWrite, Write
<1>3. Step => InsertAlloc \/ AttachBlock
  BY DEF Step, InsertEntry, InsertFailed, FreeBlock, FreeDone, AfterFree,
         WriteAlloc, WriteBlock, WriteFailed, WriteDone, save_inode_table, FlushTable, Return
<1>4. CASE UNCHANGED vars
  BY <1>4 DEF vars
<1>5. CASE InsertAlloc
  BY <1>5 DEF InsertAlloc
<1>6. CASE AttachBlock
  <2>1. PICK d \in Inodes : d = arg.dir /\ d # arg.ino
    BY <1>6, TypeFacts DEF AttachBlock, RepositoryInv, SessionInv, Creating
  <2>2. PICK n : inode_table' = [inode_table EXCEPT ![d].blocks[n] = new, ![d].block_count = n]
    BY <1>6, <2>1 DEF AttachBlock
  <2>3. /\ inode_table'[d].used = inode_table[d].used
        /\ \A i \in Inodes : i # d => inode_table'[i] = inode_table[i]
    BY <2>2, TypeFacts DEF Inode, RepositoryInv, SessionInv
  <2>4. arg.ino \in Inodes
    BY TypeFacts DEF RepositoryInv, SessionInv
  <2>5. pc \in {"insert", "attach"} /\ arg' = arg
    BY <1>6 DEF AttachBlock
  <2>6. QED
    BY <2>1, <2>3, <2>4, <2>5
<1>7. QED
  BY <1>1, <1>2, <1>3, <1>4, <1>5, <1>6 DEF FsStep

LEMMA StepCreating ==
  ASSUME RepositoryInv, FsStep
  PROVE  Creating' /\ FreshName'
<1>1. CASE pc' \notin {"insert", "attach"}
  BY <1>1 DEF Creating, FreshName
<1>2. ASSUME pc' \in {"insert", "attach"}, NEW d \in Inodes, NEW name, NEW i,
             Kept(d, name)', Link(d, name, i)'
      PROVE  Kept(d, name) /\ Link(d, name, i)
  <2>1. Changed(d) /\ Tidy(inode_table)
    BY FsIsSession, ChangeLemma DEF RepositoryInv, TablesInv
  <2>2. ~Linked(d, name, i)
    BY <1>2 DEF Linked
  <2>3. QED
    BY <1>2, <2>1, <2>2, LinkChange, NewKept
<1>3. ASSUME pc' \in {"insert", "attach"}, NEW path \in Spots, CarefulCreate(path)
      PROVE  Creating' /\ FreshName'
  <2>1. PICK d \in Inodes, j \in Inodes :
          /\ inode_table[d].used /\ ~inode_table[j].used
          /\ \E type \in {FILE_TYPE, DIR_TYPE} :
               inode_table' = [inode_table EXCEPT ![j] = NewInode(type, d)]
          /\ arg'.ino = j /\ arg'.dir = d /\ arg'.name = Last(path.comps)
          /\ Last(path.comps) \in Plain /\ (Last(path.comps) = ".vcs" => d = 0)
          /\ Kept(d, Last(path.comps)) => \A i : ~Link(d, Last(path.comps), i)
    BY <1>3, CreateFacts
  <2>2. inode_table'[j].block_count = 0 /\ inode_table'[d].used /\ d # j
    <3>1. inode_table \in [Inodes -> Inode]
      BY RepositoryFacts, TypeFacts
    <3>2. QED
      BY <2>1, <3>1 DEF NewInode, UnusedInode
  <2>3. Creating'
    BY <2>1, <2>2 DEF Creating
  <2>4. PICK name : name = Last(path.comps)
    OBVIOUS
  <2>5. ASSUME Kept(d, name)', NEW i, Link(d, name, i)' PROVE FALSE
    BY <1>2, <1>3, <2>1, <2>4, <2>5
  <2>6. FreshName'
    BY <2>1, <2>4, <2>5 DEF FreshName
  <2>7. QED
    BY <2>3, <2>6
<1>4. ASSUME pc' \in {"insert", "attach"}, pc \in {"insert", "attach"}, arg' = arg,
             inode_table'[arg.ino].block_count = inode_table[arg.ino].block_count,
             \A i \in Inodes : inode_table'[i].used = inode_table[i].used
      PROVE  Creating' /\ FreshName'
  <2>1. PICK d, name : d \in Inodes /\ d = arg.dir /\ name = arg.name
    BY RepositoryFacts, TypeFacts
  <2>2. Creating'
    BY <1>4, <2>1 DEF Creating, RepositoryInv
  <2>3. ASSUME Kept(d, name)', NEW i, Link(d, name, i)' PROVE FALSE
    BY <1>2, <1>4, <2>1, <2>3 DEF RepositoryInv, FreshName
  <2>4. FreshName'
    BY <1>4, <2>1, <2>3 DEF FreshName
  <2>5. QED
    BY <2>2, <2>4
<1>5. QED
  BY <1>1, <1>3, <1>4, CreatingStep

-----------------------------------------------------------------------------
(* What HEAD holds.                                                        *)

\* A step leaves what a file shows, empties it, or finishes its write.
LEMMA ShowsChange ==
  ASSUME SessionInv, TextsAreNoEntries, [AnySession]_vars,
         NEW h \in Inodes, NEW text, text \in Shows(h)'
  PROVE  \/ text \in Shows(h) \/ text = <<>>
         \/ /\ arg.op = "write" /\ pc \in {"free", "alloc", "put"}
            /\ arg.ino = h /\ text = arg.data
<1>1. /\ TypeInv /\ OwnershipInv /\ UnsavedInv /\ FilesInv /\ TypeInv'
  BY StepSessionInv DEF SessionInv
<1>2. [StoreNext(AnyText)]_<<Content, Writing>>
  <2>1. AnyText \in SUBSET AnyText
    OBVIOUS
  <2>2. [CommandOf(AnyText) \/ Step]_vars
    BY DEF AnySession, AnyCommand
  <2>3. QED
    BY <1>1, <2>1, <2>2, StepFiles
<1>3. PICK before, after :
        /\ before = Content /\ after = Content'
        /\ before[h] = Shows(h) /\ text \in after[h] /\ DOMAIN before = Inodes
  BY ContentLemma
<1>4. ASSUME NEW i, NEW from, NEW to, Store!Set(i, from, to)
      PROVE  text \in before[h] \/ (i = h /\ text \in to)
  <2>1. after = [before EXCEPT ![i] = to]
    BY <1>3, <1>4 DEF Store!Set
  <2>2. QED
    BY <1>3, <2>1
<1>5. CASE UNCHANGED <<Content, Writing>>
  BY <1>3, <1>5
<1>6. CASE Store!EndWrite
  <2>1. PICK w \in Writing : Store!Set(w[1], Store!Empty, {w[2]})
    BY <1>6 DEF Store!EndWrite
  <2>2. /\ arg.op = "write" /\ pc \in {"free", "alloc", "put"}
        /\ w[1] = arg.ino /\ w[2] = arg.data
    BY DEF Writing
  <2>3. QED
    BY <1>3, <1>4, <2>1, <2>2
<1>7. CASE Store!AbandonWrite
  BY <1>3, <1>7 DEF Store!AbandonWrite
<1>8. ASSUME NEW i \in Inodes, Store!Create(i) \/ Store!Truncate(i) \/ Store!Remove(i)
      PROVE  text \in before[h] \/ text = <<>>
  <2>1. PICK from, to : Store!Set(i, from, to) /\ to \subseteq {<<>>}
    <3>1. CASE Store!Create(i)
      BY <3>1 DEF Store!Create, Store!Empty
    <3>2. CASE Store!Truncate(i)
      BY <3>2 DEF Store!Truncate, Store!Empty
    <3>3. CASE Store!Remove(i)
      <4>1. Store!Set(i, Store!Empty, {}) /\ {} \subseteq {<<>>}
        BY <3>3 DEF Store!Remove
      <4>2. QED
        BY <4>1
    <3>4. QED
      BY <1>8, <3>1, <3>2, <3>3
  <2>2. QED
    BY <1>4, <2>1
<1>9. ASSUME NEW i \in Inodes, NEW data, Store!BeginWrite(i, data)
      PROVE  text \in before[h] \/ text = <<>>
  BY <1>4, <1>9 DEF Store!BeginWrite, Store!Empty
<1>10. QED
  BY <1>2, <1>3, <1>5, <1>6, <1>7, <1>8, <1>9 DEF StoreNext, Store!Next

\* How a state inside a write comes about.
LEMMA WritingStep ==
  ASSUME FsStep, pc' \in {"free", "alloc", "put"}, arg'.op = "write"
  PROVE  \/ \E path \in Spots : CarefulWrite(path)
         \/ pc \in {"free", "alloc", "put"} /\ arg' = arg
<1>1. ASSUME NEW path \in AnyPath PROVE ~Quiet(path)
  BY DEF Quiet, CreateRefused, DeleteRefused, WriteRefused, handle_cd, Return
<1>2. ASSUME NEW path \in Spots PROVE ~CarefulDelete(path) /\ ~CarefulCreate(path)
  BY DEF CarefulDelete, Delete, CarefulCreate, Create, NoArg
<1>3. Step => pc \in {"free", "alloc", "put"} /\ arg' = arg
  BY DEF Step, InsertEntry, InsertAlloc, AttachBlock, InsertFailed, FreeBlock, FreeDone,
         WriteAlloc, WriteBlock, WriteFailed, WriteDone, save_inode_table, FlushTable, Return
<1>4. UNCHANGED vars => pc \in {"free", "alloc", "put"} /\ arg' = arg
  BY DEF vars
<1>5. QED
  BY <1>1, <1>2, <1>3, <1>4 DEF FsStep

LEMMA StepHeadInv ==
  ASSUME RepositoryInv, FsStep, TextsAreNoEntries
  PROVE  HeadInv'
<1>1. SessionInv /\ [AnySession]_vars /\ TypeInv /\ Matched /\ ~Named(0) /\ HEAD \in Spots
  BY FsIsSession, RepositoryFacts, RepositoryPaths DEF RepositoryInv
<1>2. PICK path \in Spots : path = HEAD
  BY <1>1
\* HEAD is HEAD before and after.
<1>3. \A i : (At(HEAD, i)' <=> At(path, i)') /\ (At(HEAD, i) <=> At(path, i))
  BY <1>2 DEF HEAD, Repository, Root
<1>4. ASSUME NEW h \in Inodes, At(path, h)', NEW text, text \in Shows(h)'
      PROVE  Good(text)'
  <2>1. CASE text = <<>>
    BY <2>1 DEF Good
  <2>2. CASE At(path, h) /\ text # <<>>
    <3>1. Good(text)
      BY <1>1, <1>3, <1>4, <2>2, ShowsChange DEF RepositoryInv, HeadInv, WritingHead
    <3>2. QED
      BY <3>1, GoodStays
  <2>3. CASE pc \in {"insert", "attach"} /\ h = arg.ino /\ text # <<>>
    <3>1. text \in Shows(h)
      BY <1>1, <1>4, <2>3, ShowsChange
    <3>2. inode_table[h].file_size = 0
      BY <2>3 DEF RepositoryInv, SessionInv, FilesInv
    <3>3. Shows(h) \subseteq {<<>>}
      BY <1>1, <3>2, EmptyFile DEF Shows
    <3>4. QED
      BY <2>3, <3>1, <3>3
  <2>4. QED
    BY <1>4, <2>1, <2>2, <2>3, NewAt
<1>5. ASSUME WritingHead' PROVE Good(arg.data)'
  <2>1. PICK j, data : j \in Inodes /\ j = arg'.ino /\ data = arg'.data
    <3>1. TypeInv'
      BY <1>1, StepSessionInv DEF SessionInv
    <3>2. arg'.ino \in Inodes
      BY <3>1 DEF TypeInv, TypeOK, Arguments
    <3>3. QED
      BY <3>2
  <2>2. arg'.op = "write" /\ pc' \in {"free", "alloc", "put"} /\ At(path, j)'
    BY <1>3, <1>5, <2>1 DEF WritingHead, HEAD, Repository, Root
  <2>3. At(path, j)
    BY <2>2, NewAt
  <2>4. ASSUME NEW other \in Spots, CarefulWrite(other) PROVE Good(data)
    <3>1. PICK text \in AnyText : (other = HEAD => Good(text)) /\ Write(other, text)
      BY <2>4 DEF CarefulWrite
    <3>2. PICK i \in Inodes : i = fs_lookup_path(other)
                            /\ arg' = [NoArg EXCEPT !.op = "write", !.ino = i, !.data = text]
      BY <3>1 DEF Write
    <3>3. i = j /\ text = data /\ i # -1
      BY <2>1, <3>2, SizesLemma DEF NoArg, Inodes
    <3>4. At(other, j)
      BY <1>1, <3>2, <3>3, SpotResolves
    <3>5. other = HEAD
      BY <1>1, <1>2, <2>3, <3>4, SamePath
    <3>6. QED
      BY <3>1, <3>3, <3>5
  <2>5. ASSUME pc \in {"free", "alloc", "put"}, arg' = arg PROVE Good(data)
    BY <1>3, <2>1, <2>2, <2>3, <2>5 DEF RepositoryInv, HeadInv, WritingHead
  <2>6. Good(data)
    BY <2>2, <2>4, <2>5, WritingStep
  <2>7. Good(data)'
    BY <2>6, GoodStays
  <2>8. QED
    BY <2>1, <2>7
<1>6. QED
  BY <1>3, <1>4, <1>5 DEF HeadInv

LEMMA StepRepositoryInv ==
  ASSUME RepositoryInv, FsStep, TextsAreNoEntries
  PROVE  RepositoryInv'
<1>1. SessionInv'
  BY FsIsSession, StepSessionInv DEF RepositoryInv
<1>2. QED
  BY <1>1, StepTablesInv, StepNamesInv, StepCreating, StepOneEntry, StepHeadInv DEF RepositoryInv

-----------------------------------------------------------------------------
(* Death between two calls, and the next start.                            *)

LEMMA RestoredInodes ==
  ASSUME TypeInv, TablesInv, Saved, Restart, NEW i \in Inodes
  PROVE  /\ inode_table'[i].used = inode_table[i].used
         /\ inode_table[i].used =>
              /\ inode_table'[i].type = inode_table[i].type
              /\ inode_table'[i].file_size = inode_table[i].file_size
              /\ inode_table'[i].parent_inode = inode_table[i].parent_inode
         /\ SameBlocks(i)
<1>1. PICK r \in Inode, s \in Inode : r = inode_table[i] /\ s = table[i]
  BY TypeFacts
<1>2. inode_table'[i] = s /\ block' = block /\ Meaning(inode_table, i) = Meaning(table, i)
  BY <1>1 DEF Restart, Mount, Saved, disk
<1>3. r.used = s.used
  BY <1>1, <1>2, UnusedMeaning, TypeFacts DEF Inode
<1>4. CASE ~r.used
  <2>1. r.block_count = 0 /\ s.block_count = 0
    BY <1>1, <1>3, <1>4 DEF TablesInv, Tidy
  <2>2. SameBlocks(i)
    BY <1>1, <1>2, <2>1 DEF SameBlocks
  <2>3. QED
    BY <1>1, <1>2, <1>3, <1>4, <2>2
<1>5. CASE r.used
  <2>1. [r EXCEPT !.blocks = [k \in 1 .. r.block_count |-> @[k]]]
          = [s EXCEPT !.blocks = [k \in 1 .. s.block_count |-> @[k]]]
    BY <1>1, <1>2, <1>3, <1>5 DEF Meaning
  <2>2. /\ r.type = s.type /\ r.file_size = s.file_size /\ r.parent_inode = s.parent_inode
        /\ r.block_count = s.block_count
    BY <2>1 DEF Inode
  <2>3. [k \in 1 .. r.block_count |-> r.blocks[k]] = [k \in 1 .. s.block_count |-> s.blocks[k]]
    BY <2>1 DEF Inode
  <2>4. ASSUME NEW k \in 1 .. r.block_count PROVE s.blocks[k] = r.blocks[k]
    <3>1. [l \in 1 .. r.block_count |-> r.blocks[l]][k] = r.blocks[k]
      OBVIOUS
    <3>2. [l \in 1 .. s.block_count |-> s.blocks[l]][k] = s.blocks[k]
      BY <2>2
    <3>3. QED
      BY <2>3, <3>1, <3>2
  <2>5. SameBlocks(i)
    BY <1>1, <1>2, <2>2, <2>4 DEF SameBlocks
  <2>6. QED
    BY <1>1, <1>2, <1>3, <2>2, <2>5
<1>6. QED
  BY <1>4, <1>5

LEMMA RestoredLinks ==
  ASSUME TypeInv, TablesInv, Saved, Restart, NEW d \in Inodes, NEW name, NEW i
  PROVE  Link(d, name, i)' <=> Link(d, name, i)
<1>1. \A p : (p \in Entries(d)' <=> p \in Entries(d)) /\ (p \in Entries(d) => Same(d, p))
  BY RestoredInodes, SameEntries
<1>2. ASSUME NEW p \in Entries(d) PROVE inode_table'[d].type = inode_table[d].type
  <2>1. p \in Positions(d)
    BY EntryLemma
  <2>2. inode_table[d].block_count # 0
    BY <2>1 DEF Positions
  <2>3. inode_table[d].used
    BY <2>2 DEF TablesInv, Tidy
  <2>4. QED
    BY <2>3, RestoredInodes
<1>3. QED
  BY <1>1, <1>2 DEF Link, Same

LEMMA RestoredLeads ==
  ASSUME TypeInv, TablesInv, Saved, Restart, NEW comps, NEW f, NEW n \in Nat
  PROVE  Leads(comps, f, n)' <=> Leads(comps, f, n)
<1>1. ASSUME f[0] = 0, \A k \in 0 .. n : f[k] \in Inodes, NEW k \in 1 .. n
      PROVE  Link(f[k - 1], comps[k], f[k])' <=> Link(f[k - 1], comps[k], f[k])
  <2>1. PICK d, name, i : d = f[k - 1] /\ name = comps[k] /\ i = f[k]
    OBVIOUS
  <2>2. d \in Inodes
    BY <1>1, <2>1
  <2>3. Link(d, name, i)' <=> Link(d, name, i)
    BY <2>2, RestoredLinks
  <2>4. QED
    BY <2>1, <2>3
<1>2. QED
  BY <1>1 DEF Leads

LEMMA RestoredAt ==
  ASSUME TypeInv, TablesInv, Saved, Restart, NEW path \in Spots, NEW i
  PROVE  At(path, i)' <=> At(path, i)
BY RestoredLeads, SpotFacts DEF At

LEMMA RestoredThere ==
  ASSUME TypeInv, TablesInv, Saved, Restart, NEW n \in Ids, There(n)
  PROVE  There(n)'
<1>1. PICK path \in Spots : path = TreeDir(n)
  BY CommitPaths
<1>2. PICK i \in Inodes : At(path, i)'
  BY <1>1, RestoredAt DEF There
<1>3. QED
  BY <1>1, <1>2 DEF There, TreeDir, CommitDir, Commits, Repository, Root

LEMMA RestoredFiles ==
  ASSUME SessionInv, TypeInv', TablesInv, Saved, Restart
  PROVE  FilesInv' /\ \A i \in Inodes : Shows(i)' \subseteq Shows(i)
<1>1. pc = "idle" /\ pc' = "idle" /\ block' = block /\ TypeInv /\ FilesInv
  BY DEF Restart, Mount, Return, disk, SessionInv
<1>2. ASSUME NEW i \in Inodes, Writable(i)'
      PROVE  Writable(i) /\ Whole(i)' /\ fs_read(i)' = fs_read(i)
  <2>1. Writable(i) /\ inode_table'[i].file_size = inode_table[i].file_size /\ SameBlocks(i)
    BY <1>1, <1>2, RestoredInodes DEF Writable
  <2>2. Whole(i)
    BY <1>1, <2>1 DEF FilesInv, Emptying
  <2>3. Keeps(i)
    <3>1. /\ inode_table'[i].block_count = inode_table[i].block_count
          /\ inode_table[i].block_count \in Nat
          /\ \A k \in 1 .. inode_table[i].block_count :
               inode_table'[i].blocks[k] = inode_table[i].blocks[k]
      BY <1>1, <2>1, TypeFacts, SizesLemma DEF SameBlocks, Inode
    <3>2. QED
      BY <1>1, <2>1, <3>1 DEF Keeps, Cell
  <2>4. QED
    BY <1>1, <2>1, <2>2, <2>3, KeptFile
<1>3. FilesInv'
  BY <1>1, <1>2 DEF FilesInv
<1>4. \A i \in Inodes : Shows(i)' \subseteq Shows(i)
  BY <1>1, <1>2 DEF Shows, Emptying
<1>5. QED
  BY <1>3, <1>4

LEMMA RestoredSession ==
  ASSUME SessionInv, TablesInv, Saved, Restart
  PROVE  SessionInv'
<1>1. [AnyNext]_vars /\ TypeInv /\ pc = "idle"
  BY DEF AnyNext, SessionInv, Restart
<1>2. /\ pc' = "idle" /\ new' = NoBlock /\ turn' = 0 /\ block' = block /\ bitmap' = bitmap
      /\ arg' = NoArg
  BY DEF Restart, Mount, Return, disk
<1>3. TypeInv' /\ RootInv' /\ UnsavedInv'
  BY <1>1, StepTypeInv, StepRootInv, StepUnsavedInv DEF SessionInv
<1>4. FilesInv'
  BY <1>3, RestoredFiles
<1>5. \A i \in Inodes : SameBlocks(i)
  BY <1>1, RestoredInodes
<1>6. OwnershipInv'
  <2>1. NoBlock \notin Blocks
    BY SizesLemma DEF NoBlock, Blocks
  <2>2. ASSUME NEW i \in Inodes, NEW k \in Held(i)'
        PROVE  k \in Held(i) /\ Entry(i, k)' = Entry(i, k) /\ Entry(i, k) \in bitmap'
               /\ Entry(i, k) # new'
    <3>1. k \in Held(i) /\ Entry(i, k)' = Entry(i, k)
      BY <1>1, <1>2, <1>5, <2>2 DEF Held, Entry, SameBlocks
    <3>2. Entry(i, k) \in bitmap
      BY <3>1 DEF SessionInv, OwnershipInv, NoSharedBlock, Entry
    <3>3. Entry(i, k) \in Blocks
      BY <1>1, <3>2, TypeFacts
    <3>4. QED
      BY <1>2, <2>1, <3>1, <3>2, <3>3
  <2>3. NoSharedBlock'
    BY <2>2, HoldingLess DEF SessionInv, OwnershipInv
  <2>4. MetadataBitsSet'
    BY <1>2 DEF SessionInv, OwnershipInv, MetadataBitsSet
  <2>5. FreshBlock' /\ CountersOK'
    BY <1>2, <2>1 DEF FreshBlock, CountersOK
  <2>6. QED
    BY <2>3, <2>4, <2>5 DEF OwnershipInv
<1>7. EntriesInv'
  <2>1. ASSUME NEW i \in Inodes, Named(i)
        PROVE  /\ inode_table'[i].used = inode_table[i].used
               /\ inode_table'[i].parent_inode = inode_table[i].parent_inode
    BY <1>1, <2>1, RestoredInodes DEF SessionInv, EntriesInv, Matched, Named
  <2>2. Matched'
    BY <1>5, <2>1, ShrunkEntries DEF SessionInv, EntriesInv
  <2>3. TextNamesNobody' /\ block'[0] = EmptyBlock
    BY <1>2 DEF SessionInv, EntriesInv, TextNamesNobody, EmptyBlock, EmptySlot
  <2>4. QED
    BY <1>2, <2>2, <2>3 DEF EntriesInv, EmptyBlock, EmptySlot
<1>8. QED
  BY <1>3, <1>4, <1>6, <1>7 DEF SessionInv

LEMMA RestoredRepositoryInv ==
  ASSUME RepositoryInv, Saved, Restart
  PROVE  RepositoryInv'
<1>1. SessionInv /\ TablesInv /\ TypeInv /\ SessionInv' /\ TypeInv'
  BY RestoredSession DEF RepositoryInv, SessionInv
<1>2. pc' = "idle" /\ inode_table' = table /\ table' = table /\ block' = block
  BY DEF Restart, Mount, Return, disk
<1>3. TablesInv'
  BY <1>1, <1>2 DEF TablesInv, Tidy, SizelessDirs
<1>4. NamesInv'
  <2>1. SUFFICES ASSUME NEW d \in Inodes
                 PROVE  /\ \A p \in Entries(d)' :
                             /\ NameAt(d, p)' \in Plain /\ (NameAt(d, p)' = ".vcs" => d = 0)
                             /\ IndexAt(d, p)' # 0
                        /\ inode_table'[d].type = DIR_TYPE =>
                             \A p \in Positions(d)' : NameAt(d, p)' \in Components
    BY DEF NamesInv
  <2>2. SameBlocks(d)
    BY <1>1, RestoredInodes
  <2>3. \A p \in Entries(d)' :
          /\ NameAt(d, p)' \in Plain /\ (NameAt(d, p)' = ".vcs" => d = 0)
          /\ IndexAt(d, p)' # 0
    BY <2>2, SameEntries DEF RepositoryInv, NamesInv, Same
  <2>4. ASSUME inode_table'[d].type = DIR_TYPE, NEW p \in Positions(d)'
        PROVE  NameAt(d, p)' \in Components
    <3>1. p \in Positions(d) /\ Same(d, p)
      BY <2>2, SameSlots
    <3>2. inode_table[d].block_count # 0
      BY <3>1 DEF Positions
    <3>3. inode_table[d].type = DIR_TYPE
      BY <1>1, <2>4, <3>2, RestoredInodes DEF TablesInv, Tidy
    <3>4. QED
      BY <3>1, <3>3 DEF RepositoryInv, NamesInv, Same
  <2>5. QED
    BY <2>3, <2>4
<1>5. Creating' /\ FreshName'
  BY <1>2 DEF Creating, FreshName
<1>6. OneEntry'
  <2>1. SUFFICES ASSUME NEW d \in Inodes, NEW name, NEW i, NEW j,
                        Kept(d, name)', Link(d, name, i)', Link(d, name, j)'
                 PROVE  i = j
    BY DEF OneEntry
  <2>2. Link(d, name, i) /\ Link(d, name, j)
    BY <1>1, <2>1, RestoredLinks
  <2>3. Inner(d)' => Inner(d)
    BY <1>1, RestoredLeads DEF Inner
  <2>4. QED
    BY <2>1, <2>2, <2>3 DEF RepositoryInv, OneEntry, Kept
<1>7. HeadInv'
  <2>1. PICK path \in Spots : path = HEAD
    BY RepositoryPaths
  <2>2. \A i : (At(HEAD, i)' <=> At(path, i)') /\ (At(HEAD, i) <=> At(path, i))
    BY <2>1 DEF HEAD, Repository, Root
  <2>3. ASSUME NEW h \in Inodes, At(path, h)', NEW text, text \in Shows(h)'
        PROVE  Good(text)'
    <3>1. At(path, h) /\ text \in Shows(h)
      BY <1>1, <2>3, RestoredAt, RestoredFiles
    <3>2. Good(text)
      BY <2>2, <3>1 DEF RepositoryInv, HeadInv
    <3>3. QED
      BY <1>1, <3>2, RestoredThere DEF Good
  <2>4. ~WritingHead'
    BY <1>2 DEF WritingHead
  <2>5. QED
    BY <2>2, <2>3, <2>4 DEF HeadInv
<1>8. QED
  BY <1>1, <1>3, <1>4, <1>5, <1>6, <1>7 DEF RepositoryInv

-----------------------------------------------------------------------------
(* What a directory lists, and what files hold.                            *)

Item(d, p) == [name |-> SlotAt(d, p).name, type |-> inode_table[SlotAt(d, p).inode_index].type]
Items(d, skipped) == {Item(d, p) : p \in {q \in Positions(d) : SlotAt(d, q).name \notin skipped}}

LEMMA RecordLemma ==
  ASSUME NEW name, NEW type
  PROVE  [name |-> name, type |-> type].name = name
OBVIOUS

LEMMA SeqLemma ==
  ASSUME NEW S, NEW s \in Seq(S)
  PROVE  /\ Len(s) \in Nat /\ DOMAIN s = 1 .. Len(s)
         /\ \A n \in 1 .. Len(s) : s[n] \in S
OBVIOUS

Runs(N, S, start, step) ==
  {f \in [0 .. N -> S] : f[0] = start /\ \A n \in 1 .. N : f[n] = step[n][f[n - 1]]}

LEMMA RunsLemma ==
  ASSUME NEW N \in Nat, NEW S, NEW start \in S, NEW function \in [1 .. N -> [S -> S]]
  PROVE  Runs(N, S, start, function) # {}
<1> DEFINE step == function
<1>1. N \in Nat /\ start \in S /\ step \in [1 .. N -> [S -> S]]
  OBVIOUS
<1> HIDE DEF step
<1>2. \E f \in [0 .. N -> S] : f[0] = start /\ \A n \in 1 .. N : f[n] = step[n][f[n - 1]]
  BY <1>1, RecursionLemma
<1>3. QED
  BY <1>2 DEF Runs, step

LEMMA ListedLemma ==
  ASSUME TypeInv, NEW d \in Inodes, NEW skipped
  PROVE  Listed(d, skipped) \in Seq(Items(d, skipped))
<1> DEFINE S == Seq(Items(d, skipped))
           count == inode_table[d].block_count * ENTRIES_PER_BLOCK
           place(n) == <<((n - 1) \div ENTRIES_PER_BLOCK) + 1, ((n - 1) % ENTRIES_PER_BLOCK) + 1>>
           longer(n, s) == IF SlotAt(d, place(n)).name \in skipped THEN s
                           ELSE Append(s, Item(d, place(n)))
           step == [n \in 1 .. count |-> [s \in S |-> longer(n, s)]]
           list == CHOOSE list : list = [n \in 0 .. count |->
                     IF n = 0 THEN <<>> ELSE longer(n, list[n - 1])]
<1>1. count \in Nat /\ inode_table[d].block_count \in Nat
  BY TypeFacts, SizesLemma, ProductLemma DEF Inode
<1>2. ASSUME NEW n \in 1 .. count PROVE place(n) \in Positions(d)
  <2>1. n \in Nat \ {0} /\ n <= inode_table[d].block_count * ENTRIES_PER_BLOCK
    BY <1>1
  <2>2. Row(n) \in 1 .. inode_table[d].block_count /\ Col(n) \in Slots
    BY <1>1, <2>1, Geometry
  <2>3. QED
    BY <2>2 DEF Row, Col, Positions
<1>3. ASSUME NEW n \in 1 .. count, NEW s \in S PROVE longer(n, s) \in S
  <2>1. CASE SlotAt(d, place(n)).name \in skipped
    BY <2>1
  <2>2. CASE SlotAt(d, place(n)).name \notin skipped
    <3>1. Item(d, place(n)) \in Items(d, skipped)
      <4>1. PICK p : p = place(n)
        OBVIOUS
      <4>2. p \in Positions(d) /\ SlotAt(d, p).name \notin skipped
        BY <1>2, <2>2, <4>1
      <4> HIDE DEF place
      <4>3. QED
        BY <4>1, <4>2 DEF Items
    <3>2. longer(n, s) = Append(s, Item(d, place(n)))
      BY <2>2
    <3> HIDE DEF longer, place
    <3>3. QED
      BY <3>1, <3>2
  <2>3. QED
    BY <2>1, <2>2
<1>4. <<>> \in S
  OBVIOUS
<1>5. Listed(d, skipped) = list[count]
  BY DEF Listed, Item
<1> HIDE DEF S, count, longer
<1>6. step \in [1 .. count -> [S -> S]]
  BY <1>3
<1>7. PICK f \in [0 .. count -> S] :
        f[0] = <<>> /\ \A n \in 1 .. count : f[n] = step[n][f[n - 1]]
  <2> HIDE DEF step, list, place
  <2>1. count \in Nat
    BY <1>1
  <2>2. Runs(count, S, <<>>, step) # {}
    BY <1>4, <1>6, <2>1, RunsLemma
  <2>3. QED
    BY <2>2 DEF Runs
<1>8. f = [n \in 0 .. count |-> IF n = 0 THEN <<>> ELSE longer(n, f[n - 1])]
  <2>1. ASSUME NEW n \in 1 .. count PROVE f[n] = longer(n, f[n - 1])
    <3>1. n - 1 \in 0 .. count
      BY <1>1
    <3>2. f[n - 1] \in S
      BY <3>1
    <3>3. step[n][f[n - 1]] = longer(n, f[n - 1])
      BY <3>2
    <3>4. QED
      BY <1>7, <3>3
  <2>2. \A n \in 0 .. count : f[n] = IF n = 0 THEN <<>> ELSE longer(n, f[n - 1])
    BY <1>1, <1>7, <2>1
  <2> HIDE DEF step
  <2>3. QED
    BY <1>7, <2>2
<1>9. list = [n \in 0 .. count |-> IF n = 0 THEN <<>> ELSE longer(n, list[n - 1])]
  BY <1>8
<1> HIDE DEF list, step
<1>10. list[0] = <<>> /\ \A n \in 1 .. count : list[n] = longer(n, list[n - 1])
  <2>1. \A n \in 0 .. count : list[n] = IF n = 0 THEN <<>> ELSE longer(n, list[n - 1])
    BY <1>9
  <2>2. QED
    BY <1>1, <2>1
<1> DEFINE Run == {m \in Nat : m <= count => list[m] \in S}
<1>11. 0 \in Run
  BY <1>4, <1>10
<1>12. ASSUME NEW m \in Nat, m \in Run PROVE m + 1 \in Run
  <2>1. SUFFICES ASSUME m + 1 <= count PROVE list[m + 1] \in S
    OBVIOUS
  <2>2. m + 1 \in 1 .. count /\ (m + 1) - 1 = m /\ list[m] \in S
    BY <1>1, <1>12, <2>1
  <2>3. list[m + 1] = longer(m + 1, list[m])
    BY <1>10, <2>2
  <2>4. QED
    BY <1>3, <2>2, <2>3
<1> HIDE DEF Run
<1>13. Nat \subseteq Run
  BY <1>11, <1>12, InductionLemma
<1>14. QED
  BY <1>1, <1>5, <1>13 DEF Run, S

\* The names a used directory lists are names for files outside .vcs.
LEMMA ListedNames ==
  ASSUME RepositoryInv, NEW d \in Inodes, inode_table[d].type = DIR_TYPE, NEW skipped,
         "" \in skipped, d # 0 \/ ".vcs" \in skipped
  PROVE  /\ Len(Listed(d, skipped)) \in Nat
         /\ DOMAIN Listed(d, skipped) = 1 .. Len(Listed(d, skipped))
         /\ \A n \in 1 .. Len(Listed(d, skipped)) :
              Listed(d, skipped)[n].name \in Plain \ {".vcs"}
<1>1. TypeInv /\ NamesInv
  BY RepositoryFacts DEF RepositoryInv
<1>2. PICK list, S : /\ list = Listed(d, skipped) /\ S = Items(d, skipped)
                     /\ list \in Seq(S)
  BY <1>1, ListedLemma
<1>3. /\ Len(list) \in Nat /\ DOMAIN list = 1 .. Len(list)
      /\ \A n \in 1 .. Len(list) : list[n] \in S
  BY <1>2, SeqLemma
<1>4. ASSUME NEW item \in Items(d, skipped) PROVE item.name \in Plain \ {".vcs"}
  <2>1. PICK p \in Positions(d) : NameAt(d, p) \notin skipped /\ item.name = NameAt(d, p)
    <3>1. PICK p \in Positions(d) : SlotAt(d, p).name \notin skipped /\ item = Item(d, p)
      BY DEF Items
    <3>2. item.name = SlotAt(d, p).name
      BY <3>1, RecordLemma DEF Item
    <3>3. QED
      BY <3>1, <3>2 DEF NameAt
  <2>2. p \in Entries(d)
    BY <1>1, <2>1, EntryLemma DEF NamesInv
  <2>3. QED
    BY <1>1, <2>1, <2>2 DEF NamesInv
<1>5. QED
  BY <1>2, <1>3, <1>4

\* Between two calls a file holds a text a file can hold, HEAD a good one.
LEMMA ReadAny ==
  ASSUME RepositoryInv, pc = "idle", NEW i \in Inodes, inode_table[i].used
  PROVE  fs_read(i) \in AnyText /\ (fs_read(i) = <<>> \/ fs_read(i) \in Shows(i))
<1>1. TypeInv /\ FilesInv /\ TablesInv
  BY RepositoryFacts DEF RepositoryInv, SessionInv
<1>2. PICK text : text = fs_read(i)
  OBVIOUS
<1>3. CASE inode_table[i].type = DIR_TYPE
  <2>1. text = <<>>
    BY <1>1, <1>2, <1>3, EmptyFile DEF TablesInv, SizelessDirs
  <2>2. <<>> \in AnyText
    <3>1. <<>> \in Seq(Text) /\ Len(<<>>) = 0
      OBVIOUS
    <3>2. QED
      BY <3>1, CapacityLemma DEF AnyText
  <2>3. QED
    BY <1>2, <2>1, <2>2
<1>4. CASE inode_table[i].type # DIR_TYPE
  <2>1. Writable(i) /\ Whole(i) /\ text \in Shows(i)
    BY <1>1, <1>2, <1>4 DEF Writable, FilesInv, Emptying, Shows
  <2>2. text = [n \in 1 .. inode_table[i].file_size |-> Cell(i, n).name]
    BY <1>1, <1>2, <2>1, ReadLemma
  <2>3. inode_table[i].file_size \in Nat /\ inode_table[i].block_count \in 0 .. MAX_BLOCKS_PER_INODE
    BY <1>1, TypeFacts DEF Inode
  <2>4. ASSUME NEW n \in 1 .. inode_table[i].file_size PROVE Cell(i, n).name \in Text
    <3>1. PICK cell : cell = Cell(i, n) /\ cell \in TextSlots
      BY <2>1 DEF Whole
    <3>2. cell.name \in Text
      BY <3>1 DEF TextSlots, TextSlot
    <3>3. QED
      BY <3>1, <3>2
  <2>5. text \in Seq(Text) /\ Len(text) = inode_table[i].file_size
    <3>1. PICK size \in Nat : size = inode_table[i].file_size
      BY <2>3
    <3>2. PICK f : f = [n \in 1 .. size |-> Cell(i, n).name]
      OBVIOUS
    <3>3. f \in [1 .. size -> Text]
      BY <2>4, <3>1, <3>2
    <3>4. f \in Seq(Text) /\ Len(f) = size
      BY <3>3
    <3>5. QED
      BY <2>2, <3>1, <3>2, <3>4
  <2>6. Len(text) <= MAX_BLOCKS_PER_INODE * ENTRIES_PER_BLOCK
    <3>1. inode_table[i].file_size <= inode_table[i].block_count * ENTRIES_PER_BLOCK
      BY <2>1 DEF Whole
    <3>2. PICK c \in Nat : c = inode_table[i].block_count /\ c <= MAX_BLOCKS_PER_INODE
      BY <2>3, SizesLemma
    <3>3. c * ENTRIES_PER_BLOCK \in Nat /\ MAX_BLOCKS_PER_INODE * ENTRIES_PER_BLOCK \in Nat
          /\ MAX_BLOCKS_PER_INODE * ENTRIES_PER_BLOCK >= c * ENTRIES_PER_BLOCK
      BY <3>2, SizesLemma, ProductLemma
    <3>4. QED
      BY <2>3, <2>5, <3>1, <3>2, <3>3
  <2>7. QED
    BY <1>2, <2>1, <2>5, <2>6 DEF AnyText
<1>5. QED
  BY <1>3, <1>4

LEMMA ReadTexts ==
  ASSUME RepositoryInv, pc = "idle", NEW path, NEW text, text \in vcs_read_text(path)
  PROVE  text \in AnyText /\ (path = HEAD => Good(text))
<1>1. TypeInv /\ Matched /\ HeadInv
  BY RepositoryFacts DEF RepositoryInv
<1>2. PICK i \in Inodes : i = fs_lookup_path(path) /\ inode_table[i].used /\ text = fs_read(i)
  BY DEF vcs_read_text
<1>3. text \in AnyText /\ (text = <<>> \/ text \in Shows(i))
  BY <1>2, ReadAny
<1>4. ASSUME path = HEAD PROVE Good(text)
  <2>1. i # -1
    BY SizesLemma DEF Inodes
  <2>2. At(HEAD, i)
    BY <1>1, <1>2, <1>4, <2>1, RepositoryPaths, SpotResolves
  <2>3. QED
    BY <1>1, <1>3, <2>2 DEF HeadInv, Good
<1>5. QED
  BY <1>3, <1>4

-----------------------------------------------------------------------------
(* The jobs of the commands.                                               *)

OuterSpots == {path \in Spots : Outer(path)}
AwaySpots == {path \in Spots : Away(path)}

\* All jobs but those that make HEAD name a commit.
PlainJobs ==
  {Ensure(path, type) : path \in Spots \union {Root}, type \in {FILE_TYPE, DIR_TYPE}}
  \union {Expect(path) : path \in Spots \union {Root}}
  \union {Put(path, text) : path \in Spots \ {HEAD}, text \in AnyText}
  \union {Put(HEAD, <<>>), Expect0, ClearRoot}
  \union {CopyFile(path, to) : path \in Spots, to \in AwaySpots}
  \union {CopyTree(path, to) : path \in Spots, to \in AwaySpots \union {Root}}
  \union {CopyEntries(i, path, to) :
            i \in Inodes \ {0}, path \in Spots, to \in AwaySpots \union {Root}}
  \union {CopyRoot(to) : to \in AwaySpots}
  \union {DeleteTree(path) : path \in OuterSpots}
  \union {RemoveJob(path) : path \in OuterSpots}
  \union {WriteMeta(n) : n \in Ids}
  \union {ShowCommit(IdOf(text)) : text \in Seq(Text)}
SetsHead(job, n) == job = Put(HEAD, <<IdText[n]>>)
Jobs == PlainJobs \union {Put(HEAD, <<IdText[n]>>) : n \in Ids}

\* After this job the commit has a tree, or the command has ended.
Assures(job, n) == job.do \in {"ensure", "expect"} /\ job.path = TreeDir(n)
\* HEAD is set only to a commit that has a tree by then.
Guarded(jobs, trees) ==
  \A k \in 1 .. Len(jobs), n \in Ids :
    SetsHead(jobs[k], n) => n \in trees \/ \E j \in 1 .. k - 1 : Assures(jobs[j], n)
Trees == {n \in Ids : There(n)}
JobsInv == todo \in Seq(Jobs) /\ Guarded(todo, Trees)

LEMMA PlainJobsLemma ==
  /\ \A path \in Spots \union {Root} :
       /\ \A type \in {FILE_TYPE, DIR_TYPE} : Ensure(path, type) \in PlainJobs
       /\ Expect(path) \in PlainJobs
  /\ \A path \in Spots \ {HEAD}, text \in AnyText : Put(path, text) \in PlainJobs
  /\ Put(HEAD, <<>>) \in PlainJobs /\ Expect0 \in PlainJobs /\ ClearRoot \in PlainJobs
  /\ \A path \in Spots, to \in AwaySpots :
       CopyFile(path, to) \in PlainJobs /\ CopyRoot(to) \in PlainJobs
  /\ \A path \in Spots, to \in AwaySpots \union {Root} :
       /\ CopyTree(path, to) \in PlainJobs
       /\ \A i \in Inodes \ {0} : CopyEntries(i, path, to) \in PlainJobs
  /\ \A path \in OuterSpots : DeleteTree(path) \in PlainJobs /\ RemoveJob(path) \in PlainJobs
  /\ \A n \in Ids : WriteMeta(n) \in PlainJobs
  /\ \A text \in Seq(Text) : ShowCommit(IdOf(text)) \in PlainJobs
BY DEF PlainJobs

LEMMA PlainKinds ==
  ASSUME NEW job \in PlainJobs
  PROVE  \/ \E path \in Spots \union {Root}, type \in {FILE_TYPE, DIR_TYPE} : job = Ensure(path, type)
         \/ \E path \in Spots \union {Root} : job = Expect(path)
         \/ \E path \in Spots \ {HEAD}, text \in AnyText : job = Put(path, text)
         \/ job = Put(HEAD, <<>>) \/ job = Expect0 \/ job = ClearRoot
         \/ \E path \in Spots, to \in AwaySpots : job = CopyFile(path, to)
         \/ \E path \in Spots, to \in AwaySpots \union {Root} : job = CopyTree(path, to)
         \/ \E i \in Inodes \ {0}, path \in Spots, to \in AwaySpots \union {Root} :
              job = CopyEntries(i, path, to)
         \/ \E to \in AwaySpots : job = CopyRoot(to)
         \/ \E path \in OuterSpots : job = DeleteTree(path)
         \/ \E path \in OuterSpots : job = RemoveJob(path)
         \/ \E n \in Ids : job = WriteMeta(n)
         \/ \E text \in Seq(Text) : job = ShowCommit(IdOf(text))
BY DEF PlainJobs

LEMMA TextFacts ==
  /\ <<>> \in AnyText /\ \A x \in Text : <<x>> \in AnyText
  /\ \A n \in Ids : IdText[n] \in Text /\ IdText[n + 1] \in Text
  /\ 1 \in Ids
<1>1. <<>> \in AnyText
  <2>1. <<>> \in Seq(Text) /\ Len(<<>>) = 0
    OBVIOUS
  <2>2. QED
    BY <2>1, CapacityLemma DEF AnyText
<1>2. ASSUME NEW x \in Text PROVE <<x>> \in AnyText
  <2>1. <<x>> \in Seq(Text) /\ Len(<<x>>) = 1
    OBVIOUS
  <2>2. PICK room \in Nat : room = MAX_BLOCKS_PER_INODE * ENTRIES_PER_BLOCK /\ 2 <= room
    BY IdsAssumption, SizesLemma, ProductLemma
  <2>3. QED
    BY <2>1, <2>2 DEF AnyText
<1>3. MaxId \in Nat \ {0} /\ IdText \in [1 .. MaxId + 1 -> Text]
  BY IdsAssumption
<1>4. \A n \in Ids : n \in 1 .. MaxId + 1 /\ n + 1 \in 1 .. MaxId + 1
  BY <1>3 DEF Ids
<1>5. QED
  BY <1>1, <1>2, <1>3, <1>4 DEF Ids

JobFact(job) ==
  /\ job.do \in {"ensure", "expect"} => job.path \in Spots \union {Root}
  /\ job.do = "ensure" => job.type \in {FILE_TYPE, DIR_TYPE}
  /\ job.do = "put" => /\ job.path \in Spots /\ job.text \in AnyText
                       /\ job.path = HEAD =>
                            job.text = <<>> \/ \E n \in Ids : SetsHead(job, n) /\ job.text = <<IdText[n]>>
  /\ job.do = "copy file" => job.path \in Spots /\ job.to \in AwaySpots
  /\ job.do = "copy tree" => job.path \in Spots /\ job.to \in AwaySpots \union {Root}
  /\ job.do = "copy entries" => /\ job.dir \in Inodes \ {0} /\ job.path \in Spots
                                /\ job.to \in AwaySpots \union {Root}
  /\ job.do = "copy root" => job.to \in AwaySpots
  /\ job.do \in {"delete tree", "remove"} => job.path \in OuterSpots
  /\ job.do = "write meta" => job.id \in Ids
  /\ job.do = "show commit" => \E text \in Seq(Text) : job.id = IdOf(text)

LEMMA JobFacts ==
  ASSUME NEW job \in Jobs
  PROVE  JobFact(job)
<1>1. CASE \E n \in Ids : job = Put(HEAD, <<IdText[n]>>)
  <2>1. PICK n \in Ids : job = Put(HEAD, <<IdText[n]>>)
    BY <1>1
  <2>2. SetsHead(job, n) /\ HEAD \in Spots /\ <<IdText[n]>> \in AnyText
    BY <2>1, TextFacts, RepositoryPaths DEF SetsHead
  <2>3. QED
    BY <2>1, <2>2 DEF Put, JobFact
<1>2. ASSUME NEW path \in Spots \union {Root}, NEW type \in {FILE_TYPE, DIR_TYPE},
             job = Ensure(path, type)
      PROVE  JobFact(job)
  BY <1>2 DEF Ensure, JobFact
<1>3. ASSUME NEW path \in Spots \union {Root}, job = Expect(path) PROVE JobFact(job)
  BY <1>3 DEF Expect, JobFact
<1>4. ASSUME NEW path \in Spots, NEW text \in AnyText, path = HEAD => text = <<>>,
             job = Put(path, text)
      PROVE  JobFact(job)
  BY <1>4 DEF Put, JobFact
<1>5. CASE job = Put(HEAD, <<>>)
  BY <1>4, <1>5, TextFacts, RepositoryPaths
<1>6. CASE job = Expect0
  BY <1>6 DEF Expect0, JobFact
<1>7. CASE job = ClearRoot
  BY <1>7 DEF ClearRoot, JobFact
<1>8. ASSUME NEW path \in Spots, NEW to \in AwaySpots, job = CopyFile(path, to) PROVE JobFact(job)
  BY <1>8 DEF CopyFile, JobFact
<1>9. ASSUME NEW path \in Spots, NEW to \in AwaySpots \union {Root}, job = CopyTree(path, to)
      PROVE  JobFact(job)
  BY <1>9 DEF CopyTree, JobFact
<1>10. ASSUME NEW i \in Inodes \ {0}, NEW path \in Spots, NEW to \in AwaySpots \union {Root},
              job = CopyEntries(i, path, to)
       PROVE  JobFact(job)
  BY <1>10 DEF CopyEntries, JobFact
<1>11. ASSUME NEW to \in AwaySpots, job = CopyRoot(to) PROVE JobFact(job)
  BY <1>11 DEF CopyRoot, JobFact
<1>12. ASSUME NEW path \in OuterSpots, job = DeleteTree(path) PROVE JobFact(job)
  BY <1>12 DEF DeleteTree, JobFact
<1>13. ASSUME NEW path \in OuterSpots, job = RemoveJob(path) PROVE JobFact(job)
  BY <1>13 DEF RemoveJob, JobFact
<1>14. ASSUME NEW n \in Ids, job = WriteMeta(n) PROVE JobFact(job)
  BY <1>14 DEF WriteMeta, JobFact
<1>15. ASSUME NEW text \in Seq(Text), job = ShowCommit(IdOf(text)) PROVE JobFact(job)
  BY <1>15 DEF ShowCommit, JobFact
<1>16. CASE job \in PlainJobs
  BY <1>2, <1>3, <1>4, <1>5, <1>6, <1>7, <1>8, <1>9, <1>10, <1>11, <1>12, <1>13, <1>14, <1>15, <1>16,
    PlainKinds
<1>17. QED
  BY <1>1, <1>16 DEF Jobs

\* A job that is not plain.
LEMMA PlainSetsNothing ==
  ASSUME NEW job \in PlainJobs, NEW n \in Ids
  PROVE  ~SetsHead(job, n)
<1>1. SUFFICES ASSUME job = Put(HEAD, <<IdText[n]>>) PROVE FALSE
  BY DEF SetsHead
<1>2. job.do = "put" /\ job.path = HEAD /\ job.text = <<IdText[n]>>
  BY <1>1 DEF Put
<1>3. job.text # <<>>
  BY <1>2
<1>4. ASSUME NEW path, NEW type PROVE Ensure(path, type).do = "ensure"
  BY DEF Ensure
<1>5. ASSUME NEW path PROVE Expect(path).do = "expect"
  BY DEF Expect
<1>6. ASSUME NEW path PROVE DeleteTree(path).do = "delete tree"
  BY DEF DeleteTree
<1>7. ASSUME NEW path, NEW to PROVE CopyFile(path, to).do = "copy file"
  BY DEF CopyFile
<1>8. ASSUME NEW path, NEW to PROVE CopyTree(path, to).do = "copy tree"
  BY DEF CopyTree
<1>9. ASSUME NEW i, NEW path, NEW to PROVE CopyEntries(i, path, to).do = "copy entries"
  BY DEF CopyEntries
<1>10. ASSUME NEW to PROVE CopyRoot(to).do = "copy root"
  BY DEF CopyRoot
<1>11. ASSUME NEW path PROVE RemoveJob(path).do = "remove"
  BY DEF RemoveJob
<1>12. ASSUME NEW i PROVE WriteMeta(i).do = "write meta"
  BY DEF WriteMeta
<1>13. ASSUME NEW i PROVE ShowCommit(i).do = "show commit"
  BY DEF ShowCommit
<1>14. Expect0.do = "expect 0"
  BY DEF Expect0
<1>15. ClearRoot.do = "clear root"
  BY DEF ClearRoot
<1>16. ASSUME NEW path, NEW text PROVE job = Put(path, text) => path = HEAD /\ text # <<>>
  BY <1>2, <1>3 DEF Put
<1>17. /\ \A path, type : job # Ensure(path, type)
       /\ \A path : job # Expect(path) /\ job # DeleteTree(path) /\ job # RemoveJob(path)
  BY <1>2, <1>4, <1>5, <1>6, <1>11
<1>18. /\ \A path, to : job # CopyFile(path, to) /\ job # CopyTree(path, to) /\ job # CopyRoot(to)
       /\ \A i, path, to : job # CopyEntries(i, path, to)
  BY <1>2, <1>7, <1>8, <1>9, <1>10
<1>19. \A i : job # WriteMeta(i) /\ job # ShowCommit(i) /\ job # Expect0 /\ job # ClearRoot
  BY <1>2, <1>12, <1>13, <1>14, <1>15
<1>20. \A path, text : job = Put(path, text) => path = HEAD /\ text # <<>>
  BY <1>16
<1>21. QED
  BY <1>17, <1>18, <1>19, <1>20, PlainKinds

-----------------------------------------------------------------------------
(* Lists of jobs.                                                          *)

LEMMA ShortLists ==
  ASSUME NEW S, NEW x \in S, NEW y \in S
  PROVE  /\ <<>> \in Seq(S) /\ Len(<<>>) = 0
         /\ <<x>> \in Seq(S) /\ Len(<<x>>) = 1 /\ <<x>>[1] = x
         /\ <<x, y>> \in Seq(S) /\ Len(<<x, y>>) = 2 /\ <<x, y>>[1] = x /\ <<x, y>>[2] = y
OBVIOUS

LEMMA ConcatLemma ==
  ASSUME NEW S, NEW s \in Seq(S), NEW t \in Seq(S)
  PROVE  /\ s \o t \in Seq(S) /\ Len(s \o t) = Len(s) + Len(t)
         /\ \A k \in 1 .. Len(s) : (s \o t)[k] = s[k]
         /\ \A k \in Len(s) + 1 .. Len(s) + Len(t) : (s \o t)[k] = t[k - Len(s)]
OBVIOUS

LEMMA TailLemma ==
  ASSUME NEW S, NEW s \in Seq(S), s # <<>>
  PROVE  /\ Head(s) \in S /\ Head(s) = s[1] /\ Len(s) \in Nat \ {0}
         /\ Tail(s) \in Seq(S) /\ Len(Tail(s)) = Len(s) - 1
         /\ \A k \in 1 .. Len(s) - 1 : Tail(s)[k] = s[k + 1]
OBVIOUS

LEMMA PlainGuarded ==
  ASSUME NEW s \in Seq(PlainJobs), NEW trees
  PROVE  s \in Seq(Jobs) /\ Guarded(s, trees)
<1>1. s \in Seq(Jobs)
  <2>1. PlainJobs \subseteq Jobs
    BY DEF Jobs
  <2>2. QED
    BY <2>1
<1>2. \A k \in 1 .. Len(s) : s[k] \in PlainJobs
  BY SeqLemma
<1>3. QED
  BY <1>1, <1>2, PlainSetsNothing DEF Guarded

\* One list after another, which may rely on the first.
LEMMA GuardedConcat ==
  ASSUME NEW trees, NEW s \in Seq(Jobs), NEW t \in Seq(Jobs), Guarded(s, trees),
         \A k \in 1 .. Len(t), n \in Ids :
           SetsHead(t[k], n) => \/ n \in trees \/ \E j \in 1 .. Len(s) : Assures(s[j], n)
                                \/ \E j \in 1 .. k - 1 : Assures(t[j], n)
  PROVE  s \o t \in Seq(Jobs) /\ Guarded(s \o t, trees)
<1> DEFINE u == s \o t
<1>1. PICK a \in Nat, b \in Nat :
        /\ a = Len(s) /\ b = Len(t) /\ u \in Seq(Jobs) /\ Len(u) = a + b
        /\ \A k \in 1 .. a : u[k] = s[k]
        /\ \A k \in a + 1 .. a + b : u[k] = t[k - a]
  <2>1. Len(s) \in Nat /\ Len(t) \in Nat
    BY SeqLemma
  <2>2. QED
    BY <2>1, ConcatLemma
<1> HIDE DEF u
<1>2. ASSUME NEW k \in 1 .. Len(u), NEW n \in Ids, SetsHead(u[k], n)
      PROVE  n \in trees \/ \E j \in 1 .. k - 1 : Assures(u[j], n)
  <2>1. CASE k <= a
    <3>1. k \in 1 .. a /\ u[k] = s[k]
      BY <1>1, <2>1
    <3>2. n \in trees \/ \E j \in 1 .. k - 1 : Assures(s[j], n)
      BY <1>1, <1>2, <3>1 DEF Guarded
    <3>3. \A j \in 1 .. k - 1 : u[j] = s[j]
      BY <1>1, <3>1
    <3>4. QED
      BY <3>2, <3>3
  <2>2. CASE ~(k <= a)
    <3>1. PICK m \in 1 .. b : m = k - a /\ u[k] = t[m]
      <4>1. k \in a + 1 .. a + b /\ k - a \in 1 .. b
        BY <1>1, <2>2
      <4>2. QED
        BY <1>1, <4>1
    <3>2. \/ n \in trees \/ \E j \in 1 .. a : Assures(s[j], n)
          \/ \E j \in 1 .. m - 1 : Assures(t[j], n)
      BY <1>1, <1>2, <3>1
    <3>3. ASSUME NEW j \in 1 .. a PROVE j \in 1 .. k - 1 /\ u[j] = s[j]
      BY <1>1, <2>2, <3>3
    <3>4. ASSUME NEW j \in 1 .. m - 1 PROVE a + j \in 1 .. k - 1 /\ u[a + j] = t[j]
      <4>1. a + j \in 1 .. k - 1 /\ a + j \in a + 1 .. a + b /\ (a + j) - a = j
        BY <1>1, <3>1
      <4>2. QED
        BY <1>1, <4>1
    <3>5. QED
      BY <3>2, <3>3, <3>4
  <2>3. QED
    BY <2>1, <2>2
<1>3. QED
  BY <1>1, <1>2 DEF Guarded, u

LEMMA ContinueLemma ==
  ASSUME NEW old, NEW trees, old \subseteq trees, NEW list \in Seq(Jobs), list # <<>>,
         Guarded(list, old), NEW jobs \in Seq(PlainJobs),
         \A n \in Ids : Assures(Head(list), n) =>
           n \in trees \/ \E j \in 1 .. Len(jobs) : Assures(jobs[j], n)
  PROVE  jobs \o Tail(list) \in Seq(Jobs) /\ Guarded(jobs \o Tail(list), trees)
<1>1. PICK rest \in Seq(Jobs) :
        /\ rest = Tail(list) /\ Len(rest) = Len(list) - 1 /\ Len(list) \in Nat \ {0}
        /\ Head(list) = list[1] /\ \A k \in 1 .. Len(list) - 1 : rest[k] = list[k + 1]
  BY TailLemma
<1>2. jobs \in Seq(Jobs) /\ Guarded(jobs, trees)
  BY PlainGuarded
<1>3. ASSUME NEW k \in 1 .. Len(rest), NEW n \in Ids, SetsHead(rest[k], n)
      PROVE  \/ n \in trees \/ \E j \in 1 .. Len(jobs) : Assures(jobs[j], n)
             \/ \E j \in 1 .. k - 1 : Assures(rest[j], n)
  <2>1. k + 1 \in 1 .. Len(list) /\ rest[k] = list[k + 1]
    BY <1>1
  <2>2. n \in old \/ \E j \in 1 .. k : Assures(list[j], n)
    <3>1. n \in old \/ \E j \in 1 .. (k + 1) - 1 : Assures(list[j], n)
      BY <1>3, <2>1 DEF Guarded
    <3>2. (k + 1) - 1 = k
      BY <1>1
    <3>3. QED
      BY <3>1, <3>2
  <2>3. ASSUME NEW j \in 1 .. k, j # 1, Assures(list[j], n)
        PROVE  \E l \in 1 .. k - 1 : Assures(rest[l], n)
    <3>1. j - 1 \in 1 .. k - 1 /\ rest[j - 1] = list[j]
      BY <1>1, <2>3
    <3>2. QED
      BY <2>3, <3>1
  <2>4. QED
    BY <1>1, <2>2, <2>3
<1>4. QED
  BY <1>1, <1>2, <1>3, GuardedConcat

\* A job's step: what it puts in its place sets no HEAD, and assures what the
\* job assured.
LEMMA ContinueStep ==
  ASSUME RepositoryInv, FsStep, JobsInv, todo # <<>>, NEW jobs \in Seq(PlainJobs), Continue(jobs),
         \A n \in Ids : Assures(Head(todo), n) =>
           There(n)' \/ \E j \in 1 .. Len(jobs) : Assures(jobs[j], n)
  PROVE  JobsInv'
<1>1. PICK trees, old : trees = Trees' /\ old = Trees
  OBVIOUS
<1>2. old \subseteq trees
  BY <1>1, ThereStays DEF Trees
<1>3. \A n \in Ids : There(n)' => n \in trees
  BY <1>1 DEF Trees
<1>4. jobs \o Tail(todo) \in Seq(Jobs) /\ Guarded(jobs \o Tail(todo), trees)
  BY <1>1, <1>2, <1>3, ContinueLemma DEF JobsInv
<1>5. todo' = jobs \o Tail(todo)
  BY DEF Continue, Perform
<1>6. QED
  BY <1>1, <1>4, <1>5 DEF JobsInv

LEMMA NoJobs ==
  /\ \A trees : Guarded(<<>>, trees)
  /\ \A S : <<>> \in Seq(S)
BY DEF Guarded

LEMMA FailStep ==
  ASSUME Fail
  PROVE  JobsInv'
BY NoJobs DEF Fail, Perform, JobsInv

\* Writing a text other than HEAD's: to a path that is not HEAD, or nothing.
LEMMA WriteTextJobs ==
  ASSUME NEW path \in Spots, NEW text \in AnyText, path = HEAD => text = <<>>
  PROVE  vcs_write_text(path, text) \in Seq(PlainJobs)
<1>1. Ensure(path, FILE_TYPE) \in PlainJobs
  BY PlainJobsLemma
<1>2. Put(path, text) \in PlainJobs
  BY PlainJobsLemma
<1>3. QED
  BY <1>1, <1>2, ShortLists DEF vcs_write_text

-----------------------------------------------------------------------------
(* The jobs' steps.                                                        *)

LEMMA SpotInode ==
  ASSUME TypeInv, Matched, ~Named(0), NEW path \in Spots, fs_lookup_path(path) # -1
  PROVE  fs_lookup_path(path) \in Inodes \ {0}
<1>1. PICK i \in Inodes : i = fs_lookup_path(path) /\ At(path, i)
  BY SpotResolves
<1>2. PICK n \in Nat \ {0} : n = Len(path.comps)
  BY SpotFacts
<1>3. PICK f : Leads(path.comps, f, n) /\ f[n] = i
  BY <1>1, <1>2 DEF At
<1>4. f[n - 1] \in Inodes /\ Link(f[n - 1], path.comps[n], i)
  BY <1>2, <1>3 DEF Leads
<1>5. Named(i)
  BY <1>4, LinkFacts
<1>6. QED
  BY <1>1, <1>5

LEMMA JoinSpot ==
  ASSUME NEW path \in Spots \union {Root}, NEW name \in Plain \ {".vcs"}
  PROVE  /\ vcs_path_join(path, name) \in Spots
         /\ path \in AwaySpots \union {Root} => vcs_path_join(path, name) \in AwaySpots
         /\ path \in OuterSpots \union {Root} => vcs_path_join(path, name) \in OuterSpots
<1>1. CASE path = Root
  <2>1. vcs_path_join(Root, name) \in Spots /\ vcs_path_join(Root, name).comps = <<name>>
    BY RootJoin
  <2>2. Outer(vcs_path_join(Root, name))
    BY <2>1 DEF Outer
  <2>3. QED
    BY <1>1, <2>1, <2>2 DEF Away, AwaySpots, OuterSpots
<1>2. CASE path \in Spots /\ path # Root
  <2>1. /\ vcs_path_join(path, name) \in Spots
        /\ Outer(path) => Outer(vcs_path_join(path, name))
        /\ Away(path) => Away(vcs_path_join(path, name))
    BY <1>2, JoinLemma
  <2>2. QED
    BY <1>2, <2>1 DEF AwaySpots, OuterSpots
<1>3. QED
  BY <1>1, <1>2

\* Entries that have names for files outside .vcs.
ProperNames(entries) ==
  /\ Len(entries) \in Nat /\ DOMAIN entries = 1 .. Len(entries)
  /\ \A n \in 1 .. Len(entries) : entries[n].name \in Plain \ {".vcs"}

LEMMA CopiesLemma ==
  ASSUME NEW entries, ProperNames(entries), NEW path \in Spots \union {Root},
         NEW to \in AwaySpots \union {Root}
  PROVE  Copies(entries, path, to) \in Seq(PlainJobs)
<1> DEFINE copy(n) ==
      IF entries[n].type = DIR_TYPE
      THEN CopyTree(vcs_path_join(path, entries[n].name), vcs_path_join(to, entries[n].name))
      ELSE CopyFile(vcs_path_join(path, entries[n].name), vcs_path_join(to, entries[n].name))
<1>1. PICK count \in Nat : count = Len(entries) /\ DOMAIN entries = 1 .. count
  BY DEF ProperNames
<1>2. ASSUME NEW n \in 1 .. count PROVE copy(n) \in PlainJobs
  <2>1. PICK name \in Plain \ {".vcs"} : name = entries[n].name
    BY <1>1 DEF ProperNames
  <2>2. vcs_path_join(path, name) \in Spots
    BY JoinSpot
  <2>3. vcs_path_join(to, name) \in AwaySpots
    BY JoinSpot DEF AwaySpots
  <2>4. PICK from \in Spots, target \in AwaySpots :
          from = vcs_path_join(path, name) /\ target = vcs_path_join(to, name)
    BY <2>2, <2>3
  <2>5. CopyTree(from, target) \in PlainJobs /\ CopyFile(from, target) \in PlainJobs
    BY PlainJobsLemma
  <2>6. QED
    BY <2>1, <2>4, <2>5
<1>3. Copies(entries, path, to) = [n \in 1 .. count |-> copy(n)]
  BY <1>1 DEF Copies
<1> HIDE DEF copy
<1>4. [n \in 1 .. count |-> copy(n)] \in Seq(PlainJobs)
  BY <1>2
<1>5. QED
  BY <1>3, <1>4

LEMMA DeletionsLemma ==
  ASSUME NEW entries, ProperNames(entries), NEW path \in OuterSpots \union {Root}
  PROVE  Deletions(entries, path) \in Seq(PlainJobs)
<1> DEFINE delete(n) == DeleteTree(vcs_path_join(path, entries[n].name))
<1>1. PICK count \in Nat : count = Len(entries) /\ DOMAIN entries = 1 .. count
  BY DEF ProperNames
<1>2. ASSUME NEW n \in 1 .. count PROVE delete(n) \in PlainJobs
  <2>1. PICK name \in Plain \ {".vcs"} : name = entries[n].name
    BY <1>1 DEF ProperNames
  <2>2. vcs_path_join(path, name) \in OuterSpots
    BY JoinSpot DEF OuterSpots
  <2>3. QED
    BY <2>1, <2>2, PlainJobsLemma
<1>3. Deletions(entries, path) = [n \in 1 .. count |-> delete(n)]
  BY <1>1 DEF Deletions
<1> HIDE DEF delete
<1>4. [n \in 1 .. count |-> delete(n)] \in Seq(PlainJobs)
  BY <1>2
<1>5. QED
  BY <1>3, <1>4

\* What a directory of the tree lists, and the root without .vcs.
LEMMA ListLemma ==
  ASSUME RepositoryInv
  PROVE  /\ \A d \in Inodes \ {0} : inode_table[d].type = DIR_TYPE => ProperNames(list_dir(d))
         /\ ProperNames(Committed) /\ ProperNames(ClearedByCheckout)
<1>1. ASSUME NEW d \in Inodes \ {0}, inode_table[d].type = DIR_TYPE PROVE ProperNames(list_dir(d))
  <2>1. PICK skipped : skipped = {""} /\ "" \in skipped
    OBVIOUS
  <2>2. ProperNames(Listed(d, skipped))
    BY <1>1, <2>1, ListedNames DEF ProperNames
  <2>3. QED
    BY <2>1, <2>2 DEF list_dir
<1> DEFINE skipped == {"", ".vcs"}
<1>2. "" \in skipped /\ ".vcs" \in skipped
  OBVIOUS
<1> HIDE DEF skipped
<1>3. ProperNames(Listed(0, skipped))
  <2>1. 0 \in Inodes /\ inode_table[0].type = DIR_TYPE
    BY RepositoryFacts, SizesLemma DEF Inodes
  <2>2. QED
    BY <1>2, <2>1, ListedNames DEF ProperNames
<1>4. QED
  BY <1>1, <1>3 DEF Committed, ClearedByCheckout, skipped

\* A meta file's text fits, and its parent is a text.
LEMMA MetaLemma ==
  ASSUME RepositoryInv, NEW n \in Ids, NEW parent, Good(parent)
  PROVE  MetaText(n, parent) \in AnyText
<1>1. IdText[n] \in Text
  BY TextFacts
<1>2. PICK room \in Nat : room = MAX_BLOCKS_PER_INODE * ENTRIES_PER_BLOCK /\ 2 <= room
  BY IdsAssumption, SizesLemma, ProductLemma
<1>3. CASE parent = <<>>
  <2>1. MetaText(n, parent) = <<IdText[n]>>
    BY <1>1, <1>3 DEF MetaText
  <2>2. QED
    BY <1>1, <2>1, TextFacts
<1>4. ASSUME NEW m \in Ids, parent = <<IdText[m]>> PROVE MetaText(n, parent) \in AnyText
  <2>1. PICK x \in Text, y \in Text : x = IdText[n] /\ y = IdText[m]
    BY <1>1, TextFacts
  <2>2. <<x>> \o <<y>> \in Seq(Text) /\ Len(<<x>> \o <<y>>) = 2
    OBVIOUS
  <2>3. MetaText(n, parent) = <<x>> \o <<y>>
    BY <1>4, <2>1 DEF MetaText
  <2>4. QED
    BY <1>2, <2>2, <2>3 DEF AnyText
<1>5. QED
  BY <1>3, <1>4 DEF Good

\* The parts of a step that makes no call of the file system.
LEMMA PassiveStep ==
  ASSUME RepositoryInv, JobsInv, todo # <<>>, UNCHANGED vars, NEW jobs, jobs \in Seq(PlainJobs),
         Continue(jobs), \A n \in Ids : ~Assures(Head(todo), n)
  PROVE  FsStep /\ JobsInv'
<1>1. FsStep
  BY DEF FsStep
<1>2. ASSUME NEW n \in Ids, Assures(Head(todo), n) PROVE There(n)'
  BY <1>2
<1>3. QED
  BY <1>1, <1>2, ContinueStep

\* A path that is there: a commit that has it for its tree has a tree.
LEMMA ThereLemma ==
  ASSUME RepositoryInv, NEW path, fs_lookup_path(path) # -1, NEW n \in Ids, path = TreeDir(n)
  PROVE  There(n)
<1>1. TypeInv /\ Matched
  BY RepositoryFacts
<1>2. TreeDir(n) \in Spots
  BY CommitPaths
<1>3. fs_lookup_path(TreeDir(n)) \in Inodes /\ At(TreeDir(n), fs_lookup_path(TreeDir(n)))
  BY <1>1, <1>2, SpotResolves
<1>4. QED
  BY <1>3 DEF There

LEMMA EnsuredStep ==
  ASSUME RepositoryInv, JobsInv, todo # <<>>, UNCHANGED vars, Continue(<<>>),
         fs_lookup_path(Head(todo).path) # -1
  PROVE  FsStep /\ JobsInv'
<1>1. FsStep
  BY DEF FsStep
<1>2. ASSUME NEW n \in Ids, Assures(Head(todo), n) PROVE There(n)'
  <2>1. There(n)
    BY <1>2, ThereLemma DEF Assures
  <2>2. QED
    BY <1>1, <2>1, ThereStays
<1>3. <<>> \in Seq(PlainJobs)
  BY NoJobs
<1>4. QED
  BY <1>1, <1>2, <1>3, ContinueStep

LEMMA StepEnsure ==
  ASSUME RepositoryInv, JobsInv, EnsureExists
  PROVE  FsStep /\ JobsInv'
<1>1. todo # <<>> /\ Job.do = "ensure"
  BY DEF EnsureExists, Doing, Job
<1>2. PICK job \in Jobs : job = Job /\ job = Head(todo) /\ job.do = "ensure"
  BY <1>1, TailLemma DEF JobsInv, Job
<1>3. PICK path \in Spots, type \in {FILE_TYPE, DIR_TYPE} : path = job.path /\ type = job.type
  <2>1. job.path \in Spots \union {Root} /\ job.type \in {FILE_TYPE, DIR_TYPE}
    BY <1>2, JobFacts DEF JobFact
  <2>2. fs_lookup_path(job.path) = -1
    BY <1>2 DEF EnsureExists
  <2>3. fs_lookup_path(Root) = 0
    BY RepositoryFacts, RootLookup
  <2>4. job.path # Root
    BY <2>2, <2>3
  <2>5. QED
    BY <2>1, <2>4
<1>4. FsStep
  <2>1. CASE CreateRefused(Job.path)
    BY <1>2, <1>3, <2>1, SpotFacts DEF FsStep, Quiet
  <2>2. CASE Create(Job.path, Job.type)
    <3>1. CarefulCreate(path)
      BY <1>2, <1>3, <2>2 DEF CarefulCreate, EnsureExists
    <3>2. QED
      BY <3>1 DEF FsStep
  <2>3. QED
    BY <2>1, <2>2 DEF EnsureExists
<1>5. PICK next \in PlainJobs : next = Expect(path)
  BY PlainJobsLemma
<1>6. ASSUME NEW n \in Ids, Assures(job, n) PROVE Assures(next, n)
  <2>1. next.do = "expect" /\ next.path = path
    BY <1>5 DEF Expect
  <2>2. QED
    BY <1>3, <1>6, <2>1 DEF Assures
<1>7. PICK jobs \in Seq(PlainJobs) : jobs = <<next>> /\ Len(jobs) = 1 /\ jobs[1] = next
  BY ShortLists
<1>8. Continue(jobs)
  BY <1>2, <1>3, <1>5, <1>7 DEF EnsureExists
<1>9. \A n \in Ids : Assures(Head(todo), n) => \E j \in 1 .. Len(jobs) : Assures(jobs[j], n)
  BY <1>2, <1>6, <1>7
<1>10. QED
  BY <1>1, <1>4, <1>8, <1>9, ContinueStep

LEMMA StepResolved ==
  ASSUME RepositoryInv, JobsInv, AlreadyExists \/ Resolved
  PROVE  FsStep /\ JobsInv'
<1>1. todo # <<>> /\ UNCHANGED vars
  BY DEF AlreadyExists, Resolved, Doing
<1>2. CASE fs_lookup_path(Job.path) # -1
  <2>1. Continue(<<>>)
    BY <1>2 DEF AlreadyExists, Resolved, ContinueIf
  <2>2. QED
    BY <1>1, <1>2, <2>1, EnsuredStep DEF Job
<1>3. CASE ~(fs_lookup_path(Job.path) # -1)
  <2>1. Fail
    BY <1>3 DEF AlreadyExists, Resolved, ContinueIf
  <2>2. QED
    BY <1>1, <2>1, FailStep DEF FsStep
<1>4. QED
  BY <1>2, <1>3

LEMMA StepCall ==
  ASSUME RepositoryInv, JobsInv, PutText \/ RemoveEntry
  PROVE  FsStep /\ JobsInv'
<1>1. todo # <<>>
  BY DEF PutText, RemoveEntry, Doing
<1>2. PICK job \in Jobs : job = Job /\ job = Head(todo) /\ job = todo[1] /\ Len(todo) \in Nat \ {0}
  BY <1>1, TailLemma DEF JobsInv, Job
<1>3. JobFact(job)
  BY JobFacts
<1>4. job.do \in {"put", "remove"}
  BY <1>2 DEF PutText, RemoveEntry, Doing, Job
<1>5. ASSUME PutText PROVE FsStep
  <2>1. job.do = "put"
    BY <1>2, <1>5 DEF PutText, Doing, Job
  <2>2. PICK path \in Spots, text \in AnyText :
          /\ path = job.path /\ text = job.text
          /\ path = HEAD => text = <<>> \/ \E n \in Ids : SetsHead(job, n) /\ text = <<IdText[n]>>
    BY <1>3, <2>1 DEF JobFact
  <2>3. ASSUME path = HEAD PROVE Good(text)
    <3>1. CASE text = <<>>
      BY <3>1 DEF Good
    <3>2. ASSUME NEW n \in Ids, SetsHead(job, n), text = <<IdText[n]>> PROVE Good(text)
      <4>1. n \in Trees \/ \E j \in 1 .. 1 - 1 : Assures(todo[j], n)
        BY <1>2, <3>2 DEF JobsInv, Guarded
      <4>2. n \in Trees
        BY <4>1
      <4>3. QED
        BY <3>2, <4>2 DEF Good, Trees
    <3>3. QED
      BY <2>2, <2>3, <3>1, <3>2
  <2>4. CASE WriteRefused(Job.path)
    BY <1>2, <2>2, <2>4, SpotFacts DEF FsStep, Quiet
  <2>5. CASE Write(Job.path, Job.text)
    <3>1. CarefulWrite(path)
      BY <1>2, <2>2, <2>3, <2>5 DEF CarefulWrite
    <3>2. QED
      BY <3>1 DEF FsStep
  <2>6. QED
    BY <1>5, <2>4, <2>5 DEF PutText
<1>6. ASSUME RemoveEntry PROVE FsStep
  <2>1. PICK path \in Spots : path = job.path /\ Outer(path)
    BY <1>2, <1>3, <1>6 DEF RemoveEntry, Doing, Job, JobFact, OuterSpots
  <2>2. CASE DeleteRefused(Job.path)
    BY <1>2, <2>1, <2>2, SpotFacts DEF FsStep, Quiet
  <2>3. CASE Delete(Job.path)
    BY <1>2, <2>1, <2>3 DEF CarefulDelete, FsStep
  <2>4. QED
    BY <1>6, <2>2, <2>3 DEF RemoveEntry
<1>7. FsStep
  BY <1>5, <1>6
<1>8. PICK jobs \in Seq(PlainJobs) : jobs = <<Expect0>>
  <2>1. Expect0 \in PlainJobs
    BY PlainJobsLemma
  <2>2. QED
    BY <2>1, ShortLists
<1>9. Continue(jobs)
  BY <1>8 DEF PutText, RemoveEntry
<1>10. \A n \in Ids : ~Assures(Head(todo), n)
  BY <1>2, <1>4 DEF Assures
<1>11. \A n \in Ids : Assures(Head(todo), n) =>
         There(n)' \/ \E j \in 1 .. Len(jobs) : Assures(jobs[j], n)
  BY <1>10
<1>12. QED
  BY <1>1, <1>7, <1>9, <1>11, ContinueStep

LEMMA StepPassive ==
  ASSUME RepositoryInv, JobsInv,
         \/ Succeeded \/ copy_file \/ copy_tree \/ copy_entries \/ copy_root
         \/ delete_tree \/ clear_root_except_vcs \/ write_meta \/ show_commit
  PROVE  FsStep /\ JobsInv'
<1>1. todo # <<>> /\ UNCHANGED vars /\ pc = "idle"
  BY DEF Succeeded, copy_file, copy_tree, copy_entries, copy_root, delete_tree,
    clear_root_except_vcs, write_meta, show_commit, Doing
<1>2. PICK job \in Jobs : job = Job /\ job = Head(todo)
  BY <1>1, TailLemma DEF JobsInv, Job
<1>3. JobFact(job) /\ TypeInv /\ Matched /\ ~Named(0)
  BY JobFacts, RepositoryFacts
<1>4. \A n \in Ids : ~Assures(Head(todo), n)
  <2>1. job.do \notin {"ensure", "expect"}
    BY <1>2 DEF Succeeded, copy_file, copy_tree, copy_entries, copy_root, delete_tree,
      clear_root_except_vcs, write_meta, show_commit, Doing, Job
  <2>2. QED
    BY <1>2, <2>1 DEF Assures
<1>5. SUFFICES ASSUME ~Fail PROVE \E jobs \in Seq(PlainJobs) : Continue(jobs)
  <2>1. CASE Fail
    BY <1>1, <2>1, FailStep DEF FsStep
  <2>2. ASSUME NEW jobs \in Seq(PlainJobs), Continue(jobs) PROVE FsStep /\ JobsInv'
    BY <1>1, <1>4, <2>2, PassiveStep
  <2>3. QED
    BY <2>1, <2>2
<1>6. <<>> \in Seq(PlainJobs)
  BY NoJobs
<1>7. CASE Succeeded
  BY <1>5, <1>6, <1>7 DEF Succeeded, ContinueIf
<1>8. CASE copy_file
  <2>1. PICK path \in Spots, to \in AwaySpots : path = job.path /\ to = job.to
    BY <1>2, <1>3, <1>8 DEF copy_file, Doing, Job, JobFact
  <2>2. PICK text \in vcs_read_text(path) : Continue(vcs_write_text(to, text))
    BY <1>2, <1>5, <1>8, <2>1 DEF copy_file
  <2>3. text \in AnyText
    BY <1>1, <2>1, ReadTexts
  <2>4. to \in Spots /\ to # HEAD
    BY HeadPath DEF AwaySpots
  <2>5. QED
    BY <2>2, <2>3, <2>4, WriteTextJobs
<1>9. CASE copy_tree
  <2>1. PICK path \in Spots, to \in AwaySpots \union {Root} : path = job.path /\ to = job.to
    BY <1>2, <1>3, <1>9 DEF copy_tree, Doing, Job, JobFact
  <2>2. PICK i : i = fs_lookup_path(path)
    OBVIOUS
  <2>3. ContinueIf(i # -1, <<Ensure(to, DIR_TYPE), CopyEntries(i, path, to)>>)
    BY <1>2, <1>9, <2>1, <2>2 DEF copy_tree
  <2>4. i # -1 /\ Continue(<<Ensure(to, DIR_TYPE), CopyEntries(i, path, to)>>)
    BY <1>5, <2>3 DEF ContinueIf
  <2>5. i \in Inodes \ {0}
    BY <1>3, <2>2, <2>4, SpotInode
  <2>6. to \in Spots \union {Root}
    BY DEF AwaySpots
  <2>7. Ensure(to, DIR_TYPE) \in PlainJobs
    BY <2>6, PlainJobsLemma
  <2>8. CopyEntries(i, path, to) \in PlainJobs
    BY <2>1, <2>5, PlainJobsLemma
  <2>9. QED
    BY <2>4, <2>7, <2>8, ShortLists
<1>10. CASE copy_entries
  <2>1. PICK i \in Inodes \ {0}, path \in Spots, to \in AwaySpots \union {Root} :
          i = job.dir /\ path = job.path /\ to = job.to
    BY <1>2, <1>3, <1>10 DEF copy_entries, Doing, Job, JobFact
  <2>2. IsDirectory(i) /\ Continue(Copies(list_dir(i), path, to))
    BY <1>2, <1>5, <1>10, <2>1 DEF copy_entries
  <2>3. ProperNames(list_dir(i))
    BY <2>2, ListLemma DEF IsDirectory
  <2>4. QED
    BY <2>2, <2>3, CopiesLemma
<1>11. CASE copy_root
  <2>1. PICK to \in AwaySpots : to = job.to
    BY <1>2, <1>3, <1>11 DEF copy_root, Doing, Job, JobFact
  <2>2. Continue(Copies(Committed, Root, to))
    BY <1>2, <1>11, <2>1 DEF copy_root
  <2>3. QED
    BY <2>2, ListLemma, CopiesLemma
<1>12. CASE delete_tree
  <2>1. PICK path \in OuterSpots : path = job.path
    BY <1>2, <1>3, <1>12 DEF delete_tree, Doing, Job, JobFact
  <2>2. RemoveJob(path) \in PlainJobs
    BY PlainJobsLemma
  <2>3. PICK last \in Seq(PlainJobs) : last = <<RemoveJob(path)>>
    BY <2>2, ShortLists
  <2>4. PICK i : i = fs_lookup_path(path)
    OBVIOUS
  <2>5. i # -1 /\ \/ Continue(last)
                  \/ IsDirectory(i) /\ Continue(Deletions(list_dir(i), path) \o last)
    BY <1>2, <1>5, <1>12, <2>1, <2>3, <2>4 DEF delete_tree
  <2>6. CASE Continue(last)
    BY <2>6
  <2>7. CASE IsDirectory(i) /\ Continue(Deletions(list_dir(i), path) \o last)
    <3>1. i \in Inodes \ {0}
      BY <1>3, <2>4, <2>5, SpotInode DEF OuterSpots
    <3>2. ProperNames(list_dir(i))
      BY <2>7, <3>1, ListLemma DEF IsDirectory
    <3>3. PICK deletions \in Seq(PlainJobs) : deletions = Deletions(list_dir(i), path)
      BY <3>2, DeletionsLemma
    <3>4. deletions \o last \in Seq(PlainJobs)
      BY ConcatLemma
    <3>5. QED
      BY <2>7, <3>3, <3>4
  <2>8. QED
    BY <2>5, <2>6, <2>7
<1>13. CASE clear_root_except_vcs
  <2>1. Continue(Deletions(ClearedByCheckout, Root))
    BY <1>13 DEF clear_root_except_vcs
  <2>2. QED
    BY <2>1, ListLemma, DeletionsLemma
<1>14. CASE write_meta
  <2>1. PICK n \in Ids : n = job.id
    BY <1>2, <1>3, <1>14 DEF write_meta, Doing, Job, JobFact
  <2>2. PICK parent : /\ Continue(vcs_write_text(MetaFile(n), MetaText(n, parent)))
                      /\ parent = <<>> \/ parent \in vcs_read_text(HEAD)
    BY <1>2, <1>14, <2>1 DEF write_meta
  <2>3. Good(parent)
    <3>1. HEAD \in Spots
      BY RepositoryPaths
    <3>2. QED
      BY <1>1, <2>2, <3>1, ReadTexts DEF Good
  <2>4. MetaText(n, parent) \in AnyText
    BY <2>3, MetaLemma
  <2>5. MetaFile(n) \in Spots /\ MetaFile(n) # HEAD
    BY CommitPaths, HeadPath
  <2>6. QED
    BY <2>2, <2>4, <2>5, WriteTextJobs
<1>15. CASE show_commit
  <2>1. PICK n, text : /\ text \in vcs_read_text(MetaFile(n)) /\ n = job.id
                       /\ Continue(History(n, text))
    BY <1>2, <1>5, <1>15 DEF show_commit
  <2>2. text \in AnyText
    BY <1>1, <2>1, ReadTexts
  <2>3. CASE MetaParent(text) = <<>>
    BY <1>6, <2>1, <2>3 DEF History
  <2>4. CASE MetaParent(text) # <<>>
    <3>1. MetaParent(text) \in Seq(Text)
      <4>1. text \in Seq(Text)
        BY <2>2 DEF AnyText
      <4>2. text # <<>> /\ MetaParent(text) = Tail(text)
        BY <2>4 DEF MetaParent
      <4>3. QED
        BY <4>1, <4>2, TailLemma
    <3>2. PICK parent \in Seq(Text) : parent = MetaParent(text) /\ Continue(<<ShowCommit(IdOf(parent))>>)
      BY <2>1, <2>4, <3>1 DEF History
    <3>3. ShowCommit(IdOf(parent)) \in PlainJobs
      BY PlainJobsLemma
    <3>4. QED
      BY <3>2, <3>3, ShortLists
  <2>5. QED
    BY <2>3, <2>4
<1>16. QED
  BY <1>7, <1>8, <1>9, <1>10, <1>11, <1>12, <1>13, <1>14, <1>15

\* No number has another's text.
LEMMA IdTextLemma ==
  ASSUME NEW n \in Ids, NEW m \in Ids, IdText[n] = IdText[m]
  PROVE  n = m
<1>1. IsInjective(IdText) /\ IdText \in [1 .. MaxId + 1 -> Text] /\ MaxId \in Nat
  BY IdsAssumption
<1>2. n \in DOMAIN IdText /\ m \in DOMAIN IdText
  BY <1>1 DEF Ids
<1>3. QED
  BY <1>1, <1>2 DEF IsInjective

LEMMA StepJob ==
  ASSUME RepositoryInv, JobsInv, JobStep
  PROVE  FsStep /\ JobsInv'
BY StepEnsure, StepResolved, StepCall, StepPassive DEF JobStep

-----------------------------------------------------------------------------
(* Commands.                                                               *)

LEMMA StartStep ==
  ASSUME RepositoryInv, NEW name, NEW n, NEW jobs \in Seq(Jobs), Start(name, n, jobs),
         Guarded(jobs, Trees)
  PROVE  FsStep /\ JobsInv'
<1>1. FsStep /\ todo' = jobs
  BY DEF Start, FsStep
<1>2. PICK trees, old : trees = Trees' /\ old = Trees
  OBVIOUS
<1>3. old \subseteq trees
  BY <1>1, <1>2, ThereStays DEF Trees
<1>4. Guarded(jobs, trees)
  BY <1>2, <1>3 DEF Guarded
<1>5. QED
  BY <1>1, <1>2, <1>4 DEF JobsInv

\* The last files of a commit or a checkout may rely on the jobs before.
LEMMA HeadJobs ==
  ASSUME NEW n \in Ids, NEW trees, NEW jobs \in Seq(PlainJobs),
         n \in trees \/ \E j \in 1 .. Len(jobs) : Assures(jobs[j], n)
  PROVE  jobs \o SetHead(n) \in Seq(Jobs) /\ Guarded(jobs \o SetHead(n), trees)
<1>1. PICK first \in PlainJobs : first = Ensure(HEAD, FILE_TYPE)
  BY RepositoryPaths, PlainJobsLemma
<1>2. PICK second \in Jobs : second = Put(HEAD, <<IdText[n]>>)
  BY DEF Jobs
<1>3. PICK end \in Seq(Jobs) : /\ end = SetHead(n) /\ end = <<first, second>> /\ Len(end) = 2
                              /\ end[1] = first /\ end[2] = second
  <2>1. SetHead(n) = <<first, second>>
    BY <1>1, <1>2 DEF SetHead, vcs_write_text
  <2>2. first \in Jobs
    BY DEF Jobs
  <2>3. /\ <<first, second>> \in Seq(Jobs) /\ Len(<<first, second>>) = 2
        /\ <<first, second>>[1] = first /\ <<first, second>>[2] = second
    BY <2>2, ShortLists
  <2>4. QED
    BY <2>1, <2>3
<1>4. ASSUME NEW k \in 1 .. Len(end), NEW m \in Ids, SetsHead(end[k], m) PROVE m = n
  <2>1. k = 2
    BY <1>3, <1>4, PlainSetsNothing
  <2>2. Put(HEAD, <<IdText[n]>>) = Put(HEAD, <<IdText[m]>>)
    BY <1>2, <1>3, <1>4, <2>1 DEF SetsHead
  <2>3. Put(HEAD, <<IdText[n]>>).text = <<IdText[n]>> /\ Put(HEAD, <<IdText[m]>>).text = <<IdText[m]>>
    BY DEF Put
  <2>4. <<IdText[n]>> = <<IdText[m]>>
    BY <2>2, <2>3
  <2>5. IdText[n] = IdText[m]
    BY <2>4
  <2>6. QED
    BY <2>5, IdTextLemma
<1>5. jobs \in Seq(Jobs) /\ Guarded(jobs, trees)
  BY PlainGuarded
<1>6. \A k \in 1 .. Len(end), m \in Ids :
        SetsHead(end[k], m) => \/ m \in trees \/ \E j \in 1 .. Len(jobs) : Assures(jobs[j], m)
                               \/ \E j \in 1 .. k - 1 : Assures(end[j], m)
  BY <1>4
<1>7. QED
  BY <1>3, <1>5, <1>6, GuardedConcat

LEMMA StepInit ==
  ASSUME RepositoryInv, vcs_init
  PROVE  FsStep /\ JobsInv'
<1>1. Ensure(Repository, DIR_TYPE) \in PlainJobs /\ Ensure(Commits, DIR_TYPE) \in PlainJobs
  BY RepositoryPaths, PlainJobsLemma
<1>2. vcs_write_text(HEAD, <<>>) \in Seq(PlainJobs)
  BY RepositoryPaths, TextFacts, WriteTextJobs
<1>3. vcs_write_text(NEXT, <<IdText[1]>>) \in Seq(PlainJobs)
  <2>1. NEXT \in Spots /\ NEXT # HEAD /\ <<IdText[1]>> \in AnyText
    BY RepositoryPaths, HeadPath, TextFacts
  <2>2. QED
    BY <2>1, WriteTextJobs
<1>4. PICK dirs \in Seq(PlainJobs), head \in Seq(PlainJobs), next \in Seq(PlainJobs) :
        /\ dirs = <<Ensure(Repository, DIR_TYPE), Ensure(Commits, DIR_TYPE)>>
        /\ head = vcs_write_text(HEAD, <<>>) /\ next = vcs_write_text(NEXT, <<IdText[1]>>)
  BY <1>1, <1>2, <1>3, ShortLists
<1>5. PICK jobs \in Seq(PlainJobs) : jobs = dirs \o head \o next
  BY ConcatLemma
<1>6. Start("init", 0, jobs)
  BY <1>4, <1>5 DEF vcs_init
<1>7. QED
  BY <1>5, <1>6, PlainGuarded, StartStep

LEMMA StepCommit ==
  ASSUME RepositoryInv, vcs_commit
  PROVE  FsStep /\ JobsInv'
<1>1. PICK n \in Ids : Start("commit", n, CommitJobs(n))
  BY DEF vcs_commit
<1>2. PICK dir, tree, copy, meta :
        /\ dir = Ensure(CommitDir(n), DIR_TYPE) /\ tree = Ensure(TreeDir(n), DIR_TYPE)
        /\ copy = CopyRoot(TreeDir(n)) /\ meta = WriteMeta(n)
        /\ dir \in PlainJobs /\ tree \in PlainJobs /\ copy \in PlainJobs /\ meta \in PlainJobs
  <2>1. CommitDir(n) \in Spots /\ TreeDir(n) \in Spots /\ TreeDir(n) \in AwaySpots
    BY CommitPaths DEF AwaySpots
  <2>2. QED
    BY <2>1, PlainJobsLemma
<1>3. PICK jobs \in Seq(PlainJobs) : jobs = <<dir, tree, copy, meta>> /\ Len(jobs) = 4 /\ jobs[2] = tree
  <2>1. PICK S : S = PlainJobs
    OBVIOUS
  <2>2. <<dir, tree, copy, meta>> \in Seq(S)
    BY <1>2, <2>1
  <2>3. QED
    BY <2>1, <2>2
<1>4. Assures(jobs[2], n) /\ 2 \in 1 .. Len(jobs)
  <2>1. tree.do = "ensure" /\ tree.path = TreeDir(n)
    BY <1>2 DEF Ensure
  <2>2. QED
    BY <1>3, <2>1 DEF Assures
<1>5. PICK trees : trees = Trees
  OBVIOUS
<1>6. PICK first \in Seq(Jobs) : first = jobs \o SetHead(n) /\ Guarded(first, trees)
  BY <1>4, HeadJobs
<1>7. PICK next \in Seq(PlainJobs) : next = SetNext(n)
  <2>1. NEXT \in Spots /\ NEXT # HEAD /\ <<IdText[n + 1]>> \in AnyText
    BY RepositoryPaths, HeadPath, TextFacts
  <2>2. QED
    BY <2>1, WriteTextJobs DEF SetNext
<1>8. next \in Seq(Jobs) /\ \A k \in 1 .. Len(next), m \in Ids : ~SetsHead(next[k], m)
  <2>1. \A k \in 1 .. Len(next) : next[k] \in PlainJobs
    BY SeqLemma
  <2>2. QED
    BY <2>1, PlainGuarded, PlainSetsNothing
<1>9. PICK all \in Seq(Jobs) : all = first \o next /\ Guarded(all, trees)
  BY <1>6, <1>8, GuardedConcat
<1>10. CommitJobs(n) = all
  BY <1>2, <1>3, <1>6, <1>7, <1>9 DEF CommitJobs
<1>11. QED
  BY <1>1, <1>5, <1>9, <1>10, StartStep

LEMMA StepCheckout ==
  ASSUME RepositoryInv, NEW n \in Ids, vcs_checkout(n)
  PROVE  FsStep /\ JobsInv'
<1>1. n \in Trees
  BY ThereLemma DEF vcs_checkout, Trees
<1>2. PICK clear \in PlainJobs, copy \in PlainJobs : clear = ClearRoot /\ copy = CopyTree(TreeDir(n), Root)
  BY CommitPaths, PlainJobsLemma
<1>3. PICK jobs \in Seq(PlainJobs) : jobs = <<clear, copy>>
  BY ShortLists
<1>4. PICK all \in Seq(Jobs) : all = jobs \o SetHead(n) /\ Guarded(all, Trees)
  BY <1>1, HeadJobs
<1>5. Start("checkout", n, all)
  BY <1>2, <1>3, <1>4 DEF vcs_checkout
<1>6. QED
  BY <1>4, <1>5, StartStep

LEMMA StepLog ==
  ASSUME RepositoryInv, vcs_log
  PROVE  FsStep /\ JobsInv'
<1>1. PICK text \in vcs_read_text(HEAD) : Start("log", IdOf(text), <<ShowCommit(IdOf(text))>>)
  BY DEF vcs_log
<1>2. text \in Seq(Text)
  <2>1. pc = "idle"
    BY DEF vcs_log, Prompt
  <2>2. QED
    BY <2>1, ReadTexts DEF AnyText
<1>3. PICK n : n = IdOf(text) /\ ShowCommit(n) \in PlainJobs
  BY <1>2, PlainJobsLemma
<1>4. PICK jobs \in Seq(PlainJobs) : jobs = <<ShowCommit(n)>>
  BY <1>3, ShortLists
<1>5. Start("log", n, jobs)
  BY <1>1, <1>3, <1>4
<1>6. QED
  BY <1>4, <1>5, PlainGuarded, StartStep

\* A step of the file system between two of the jobs', or of a command the user
\* gives it.
LEMMA SameJobs ==
  ASSUME RepositoryInv, JobsInv, FsStep, UNCHANGED todo
  PROVE  JobsInv'
<1>1. PICK trees, old : trees = Trees' /\ old = Trees
  OBVIOUS
<1>2. old \subseteq trees
  BY <1>1, ThereStays DEF Trees
<1>3. todo \in Seq(Jobs) /\ Guarded(todo, trees)
  BY <1>1, <1>2 DEF JobsInv, Guarded
<1>4. QED
  BY <1>1, <1>3 DEF JobsInv

LEMMA StepUser ==
  ASSUME RepositoryInv, JobsInv, NEW path \in TreeFiles, CreateFile(path) \/ Edit(path)
  PROVE  FsStep /\ JobsInv'
<1>1. path \in Spots /\ Outer(path) /\ path \in AnyPath /\ path # HEAD
  <2>1. path \in Spots /\ Outer(path)
    BY UserPaths
  <2>2. QED
    BY <2>1, SpotFacts, RepositoryPaths
<1>2. UNCHANGED todo
  BY DEF CreateFile, Edit, Typed
<1>3. Quiet(path) \/ CarefulCreate(path) \/ CarefulDelete(path) \/ CarefulWrite(path)
  <2>1. ASSUME handle_create(path) PROVE Quiet(path) \/ CarefulCreate(path)
    BY <1>1, <2>1 DEF handle_create, Quiet, CarefulCreate
  <2>2. ASSUME handle_delete(path) PROVE Quiet(path) \/ CarefulDelete(path)
    BY <1>1, <2>2 DEF handle_delete, Quiet, CarefulDelete
  <2>3. ASSUME handle_write(path) PROVE Quiet(path) \/ CarefulWrite(path)
    <3>1. \A data \in Contents : data \in AnyText
      BY AnyLemma
    <3>2. QED
      BY <1>1, <2>3, <3>1 DEF handle_write, Quiet, CarefulWrite
  <2>4. QED
    BY <2>1, <2>2, <2>3 DEF CreateFile, Edit
<1>4. FsStep
  BY <1>1, <1>3 DEF FsStep
<1>5. QED
  BY <1>2, <1>4, SameJobs

LEMMA StepDirectory ==
  ASSUME RepositoryInv, JobsInv, NEW path \in Paths, ChangeDirectory(path)
  PROVE  FsStep /\ JobsInv'
<1>1. path \in AnyPath
  BY InputsAssumption DEF AnyPath
<1>2. FsStep /\ UNCHANGED todo
  BY <1>1 DEF ChangeDirectory, Typed, FsStep, Quiet
<1>3. QED
  BY <1>2, SameJobs

-----------------------------------------------------------------------------
(* What holds in every state when the user creates, deletes and writes by  *)
(* the paths of TreeFiles, whenever the program dies between two calls.    *)

VcsInv == RepositoryInv /\ JobsInv

LEMMA InitVcsInv ==
  ASSUME VcsInit, TextsAreNoEntries
  PROVE  VcsInv
<1>1. Init /\ todo = <<>> /\ SessionInv
  BY InitSessionInv DEF VcsInit
<1>2. \A i \in Inodes : inode_table[i].block_count = 0 /\ inode_table[i].file_size = 0
  BY <1>1 DEF Init, NewInode, UnusedInode
<1>3. table = inode_table /\ pc = "idle"
  BY <1>1 DEF Init
<1>4. TablesInv
  BY <1>2, <1>3 DEF TablesInv, Tidy, SizelessDirs
<1>5. ASSUME NEW d \in Inodes PROVE Positions(d) = {} /\ \A p : p \notin Entries(d)
  <2>1. Positions(d) = {}
    BY <1>2 DEF Positions
  <2>2. QED
    BY <2>1, EntryLemma
<1>6. NamesInv
  BY <1>5 DEF NamesInv
<1>7. ASSUME NEW d \in Inodes, NEW name, NEW i PROVE ~Link(d, name, i)
  BY <1>5 DEF Link
<1>8. OneEntry
  BY <1>7 DEF OneEntry
<1>9. ASSUME NEW i \in Inodes PROVE ~At(HEAD, i)
  <2>1. SUFFICES ASSUME NEW f, Leads(HEAD.comps, f, Len(HEAD.comps)) PROVE FALSE
    BY DEF At
  <2>2. Len(HEAD.comps) = 2
    BY RepositoryPaths
  <2>3. f[1 - 1] \in Inodes /\ Link(f[1 - 1], HEAD.comps[1], f[1])
    BY <2>1, <2>2 DEF Leads
  <2>4. QED
    BY <1>7, <2>3
<1>10. HeadInv
  BY <1>3, <1>9 DEF HeadInv, WritingHead
<1>11. Creating /\ FreshName
  BY <1>3 DEF Creating, FreshName
<1>12. JobsInv
  BY <1>1, NoJobs DEF JobsInv
<1>13. QED
  BY <1>1, <1>4, <1>6, <1>8, <1>10, <1>11, <1>12 DEF VcsInv, RepositoryInv

LEMMA StepVcsInv ==
  ASSUME VcsInv, TextsAreNoEntries, [TreeUserNext \/ DieAndRestart]_vcs_vars
  PROVE  VcsInv'
<1>1. RepositoryInv /\ JobsInv
  BY DEF VcsInv
<1>2. CASE DieAndRestart
  <2>1. todo' = <<>> /\ Saved /\ Restart
    BY <1>2 DEF DieAndRestart
  <2>2. QED
    BY <1>1, <2>1, RestoredRepositoryInv, NoJobs DEF JobsInv, VcsInv
<1>3. ASSUME TreeUserNext \/ UNCHANGED vcs_vars PROVE FsStep /\ JobsInv'
  <2>1. CASE JobStep
    BY <1>1, <2>1, StepJob
  <2>2. CASE FileSystemStep \/ UNCHANGED vcs_vars
    <3>1. FsStep /\ UNCHANGED todo
      BY <2>2 DEF FileSystemStep, vcs_vars, FsStep
    <3>2. QED
      BY <1>1, <3>1, SameJobs
  <2>3. CASE vcs_init
    BY <1>1, <2>3, StepInit
  <2>4. CASE vcs_commit
    BY <1>1, <2>4, StepCommit
  <2>5. CASE vcs_log
    BY <1>1, <2>5, StepLog
  <2>6. CASE \E n \in Ids : vcs_checkout(n)
    BY <1>1, <2>6, StepCheckout
  <2>7. CASE \E path \in TreeFiles : CreateFile(path) \/ Edit(path)
    BY <1>1, <2>7, StepUser
  <2>8. CASE \E path \in Paths : ChangeDirectory(path)
    BY <1>1, <2>8, StepDirectory
  <2>9. QED
    BY <1>3, <2>1, <2>2, <2>3, <2>4, <2>5, <2>6, <2>7, <2>8 DEF TreeUserNext, Progress
<1>4. CASE TreeUserNext \/ UNCHANGED vcs_vars
  BY <1>1, <1>3, <1>4, StepRepositoryInv DEF VcsInv
<1>5. QED
  BY <1>2, <1>4

LEMMA AlwaysVcsInv ==
  ASSUME TextsAreNoEntries
  PROVE  TreeUserSpec => []VcsInv
<1>1. VcsInit => VcsInv
  BY InitVcsInv
<1>2. VcsInv /\ [TreeUserNext \/ DieAndRestart]_vcs_vars => VcsInv'
  BY StepVcsInv
<1>3. QED
  BY <1>1, <1>2, PTL DEF TreeUserSpec

\* A text HEAD can hold, other than the empty one, names a commit with a tree.
LEMMA NamedCommit ==
  ASSUME NEW text, Good(text), text # <<>>
  PROVE  IdOf(text) \in Ids /\ There(IdOf(text))
<1>1. PICK n \in Ids : text = <<IdText[n]>> /\ There(n)
  BY DEF Good
<1>2. IsInjective(IdText) /\ DOMAIN IdText = 1 .. MaxId + 1 /\ MaxId \in Nat
  BY IdsAssumption
<1>3. n \in DOMAIN IdText /\ \A m \in DOMAIN IdText : IdText[m] = IdText[n] => m = n
  BY <1>2 DEF Ids, IsInjective
<1>4. text[1] = IdText[n]
  BY <1>1
<1>5. IdOf(text) = CHOOSE m \in DOMAIN IdText : IdText[m] = IdText[n]
  BY <1>4 DEF IdOf
<1>6. IdOf(text) = n
  BY <1>3, <1>5
<1>7. QED
  BY <1>1, <1>6

LEMMA HeadLemma ==
  ASSUME VcsInv
  PROVE  HeadHasTree
<1>1. SUFFICES ASSUME HeadId \in Ids PROVE fs_lookup_path(TreeDir(HeadId)) # -1
  BY DEF HeadHasTree
<1>2. /\ TypeInv /\ Matched /\ OneEntry /\ TablesInv /\ HeadInv
  BY RepositoryFacts DEF VcsInv, RepositoryInv
<1>3. -1 \notin Ids /\ 0 \notin Ids
  <2>1. PICK most \in Nat : most = MaxId
    BY IdsAssumption
  <2>2. QED
    BY <2>1 DEF Ids
<1>4. /\ ~(pc \in {"free", "alloc", "put"} /\ arg.ino = fs_lookup_path(HEAD))
      /\ ~(vcs_read_text(HEAD) \subseteq {<<>>})
  BY <1>1, <1>3 DEF HeadId, Moving
<1>5. PICK text \in vcs_read_text(HEAD) : HeadId = IdOf(text)
  BY <1>4 DEF HeadId
<1>6. PICK i \in Inodes : i = fs_lookup_path(HEAD) /\ inode_table[i].used /\ text = fs_read(i)
  BY <1>5 DEF vcs_read_text
<1>7. text # <<>>
  BY <1>4, <1>6 DEF vcs_read_text
<1>8. Writable(i) /\ text \in Shows(i)
  <2>1. inode_table[i].type # DIR_TYPE
    BY <1>2, <1>6, <1>7, EmptyFile DEF TablesInv, SizelessDirs
  <2>2. ~Emptying(i)
    BY <1>4, <1>6 DEF Emptying
  <2>3. QED
    BY <1>6, <2>1, <2>2 DEF Writable, Shows
<1>9. At(HEAD, i)
  <2>1. i # -1
    BY SizesLemma DEF Inodes
  <2>2. QED
    BY <1>2, <1>6, <2>1, RepositoryPaths, SpotResolves
<1>10. Good(text)
  BY <1>2, <1>8, <1>9 DEF HeadInv
<1>11. PICK n \in Ids : n = HeadId /\ There(n)
  BY <1>5, <1>7, <1>10, NamedCommit
<1>12. PICK tree \in Inodes : At(TreeDir(n), tree)
  BY <1>11 DEF There
<1>13. fs_lookup_path(TreeDir(n)) = tree
  BY <1>2, <1>12, CommitPaths, InnerLookup
<1>14. tree # -1
  BY SizesLemma DEF Inodes
<1>15. QED
  BY <1>11, <1>13, <1>14

\* For a user who creates, deletes and writes files by absolute paths outside
\* /.vcs alone, wherever cd has led: whatever fails or is left behind by a
\* command that failed or died, HEAD is empty or names a commit that has a tree,
\* so a checkout of it finds one.  vcs_commit writes HEAD after it has resolved
\* the tree, vcs_checkout after it has found it, and neither of them, nor a
\* path of that kind, deletes anything under .vcs.  A path that starts at a
\* deleted working directory can: see CommitsKeepTrees.
THEOREM HeadHasTreeAlways ==
  ASSUME TextsAreNoEntries
  PROVE  TreeUserSpec => []HeadHasTree
BY AlwaysVcsInv, HeadLemma, PTL

\* For the same user, version control keeps the file system under it whole: the
\* types, no block in two files, and every inode in use but the root's listed by
\* one entry, that of its parent.
THEOREM RepositoryStaysWhole ==
  ASSUME TextsAreNoEntries
  PROVE  TreeUserSpec => [](TypeOK /\ NoSharedBlock /\ EntriesMatchInodes)
<1>1. VcsInv => TypeOK /\ NoSharedBlock /\ EntriesMatchInodes
  BY DEF VcsInv, RepositoryInv, SessionInv, TypeInv, OwnershipInv, EntriesInv, Matched,
    EntriesMatchInodes, IndexAt
<1>2. QED
  BY <1>1, AlwaysVcsInv, PTL
=============================================================================
