--------------------------- MODULE FileStoreProofs ---------------------------
(***************************************************************************)
(* Proof that a session of FileSystem implements FileStore, as long as no  *)
(* text reads as a directory entry of an inode but the root: fs_delete     *)
(* would take it for the entry it has to clear.                            *)
(***************************************************************************)
EXTENDS DiskProofs

TextsAreNoEntries == \A t \in Text : TextInode[t] \in {0, NotAnInode}

\* Where the n-th chunk of a file is, and what is there.
Row(n) == ((n - 1) \div ENTRIES_PER_BLOCK) + 1
Col(n) == ((n - 1) % ENTRIES_PER_BLOCK) + 1
Cell(i, n) == block[inode_table[i].blocks[Row(n)]][Col(n)]
TextSlots == {TextSlot(t) : t \in Text}

\* A file is as long as it says and has text all along, which keeps entries
\* out of it; one that is being written has its first blocks already.
Emptying(i) == pc = "free" /\ arg.ino = i
Whole(i) ==
  /\ inode_table[i].file_size <= inode_table[i].block_count * ENTRIES_PER_BLOCK
  /\ \A n \in 1 .. inode_table[i].file_size : Cell(i, n) \in TextSlots
FilesInv ==
  /\ \A i \in Inodes : Writable(i) /\ ~Emptying(i) => Whole(i)
  /\ pc \in {"insert", "attach"} => inode_table[arg.ino].file_size = 0
  /\ pc \in {"alloc", "put"} =>
       \A k \in 1 .. turn : block[inode_table[arg.ino].blocks[k]] = Chunk(arg.data, k)

Shows(i) == IF Writable(i) THEN {IF Emptying(i) THEN <<>> ELSE fs_read(i)} ELSE {}

-----------------------------------------------------------------------------
(* Arithmetic of blocks and slots.                                         *)

LEMMA DivisionLemma ==
  ASSUME NEW m \in Nat, NEW e \in Nat \ {0}
  PROVE  m \div e \in Nat /\ m % e \in 0 .. e - 1 /\ m = (m \div e) * e + (m % e)
OBVIOUS

LEMMA QuotientLemma ==
  ASSUME NEW q \in Nat, NEW r \in Nat, NEW c \in Nat, NEW e \in Nat \ {0}, q * e + r < c * e
  PROVE  q < c
<1>1. ASSUME q >= c PROVE q * e >= c * e
  BY <1>1, ProductLemma
<1>2. q * e \in Nat /\ c * e \in Nat
  BY ProductLemma
<1>3. QED
  BY <1>1, <1>2

LEMMA Geometry ==
  ASSUME NEW c \in Nat, NEW n \in Nat \ {0}, n <= c * ENTRIES_PER_BLOCK
  PROVE  Row(n) \in 1 .. c /\ Col(n) \in Slots /\ n = (Row(n) - 1) * ENTRIES_PER_BLOCK + Col(n)
<1> DEFINE e == ENTRIES_PER_BLOCK
           q == (n - 1) \div e
           r == (n - 1) % e
<1>1. n - 1 \in Nat /\ e \in Nat \ {0} /\ c * e \in Nat
  BY SizesLemma, ProductLemma
<1>2. q \in Nat /\ r \in 0 .. e - 1 /\ n - 1 = q * e + r
  BY <1>1, DivisionLemma
<1>3. r \in Nat /\ q * e \in Nat
  BY <1>1, <1>2, ProductLemma
<1>4. q < c
  <2>1. q * e + r < c * e
    BY <1>1, <1>2, <1>3
  <2>2. QED
    BY <1>1, <1>2, <1>3, <2>1, QuotientLemma
<1>5. Row(n) = q + 1 /\ Col(n) = r + 1
  BY DEF Row, Col
<1> HIDE DEF q, r
<1>6. Row(n) \in 1 .. c /\ Col(n) \in Slots
  BY <1>1, <1>2, <1>3, <1>4, <1>5 DEF Slots
<1>7. n = (Row(n) - 1) * e + Col(n)
  <2>1. Row(n) - 1 = q
    BY <1>2, <1>5
  <2>2. QED
    BY <1>2, <1>3, <1>5, <2>1
<1>8. QED
  BY <1>6, <1>7

\* The n-th chunk of a whole file is in one of its blocks.
LEMMA CellInFile ==
  ASSUME TypeInv, NEW i \in Inodes, Whole(i), NEW n \in 1 .. inode_table[i].file_size
  PROVE  /\ Row(n) \in 1 .. inode_table[i].block_count /\ Col(n) \in Slots
         /\ Row(n) \in 1 .. MAX_BLOCKS_PER_INODE
         /\ inode_table[i].blocks[Row(n)] \in Blocks
<1>1. /\ inode_table[i].file_size \in Nat /\ inode_table[i].block_count \in 0 .. MAX_BLOCKS_PER_INODE
      /\ inode_table[i].blocks \in [1 .. MAX_BLOCKS_PER_INODE -> Blocks]
  BY TypeFacts DEF Inode
<1>2. n \in Nat \ {0} /\ inode_table[i].block_count \in Nat
  BY <1>1, SizesLemma
<1>3. inode_table[i].block_count * ENTRIES_PER_BLOCK \in Nat
  BY <1>2, SizesLemma, ProductLemma
<1>4. n <= inode_table[i].block_count * ENTRIES_PER_BLOCK
  BY <1>1, <1>2, <1>3 DEF Whole
<1>5. Row(n) \in 1 .. inode_table[i].block_count /\ Col(n) \in Slots
  BY <1>2, <1>4, Geometry
<1>6. Row(n) \in 1 .. MAX_BLOCKS_PER_INODE
  BY <1>1, <1>5, SizesLemma
<1>7. QED
  BY <1>1, <1>5, <1>6

LEMMA ReadLemma ==
  ASSUME TypeInv, NEW i \in Inodes, Whole(i)
  PROVE  fs_read(i) = [n \in 1 .. inode_table[i].file_size |-> Cell(i, n).name]
<1>1. fs_read(i) =
        [n \in 1 .. (IF inode_table[i].file_size <= inode_table[i].block_count * ENTRIES_PER_BLOCK
                     THEN inode_table[i].file_size
                     ELSE inode_table[i].block_count * ENTRIES_PER_BLOCK) |-> Cell(i, n).name]
  BY DEF fs_read, Cell, Row, Col
<1>2. QED
  BY <1>1 DEF Whole

-----------------------------------------------------------------------------
(* What leaves a file as it was.                                           *)

\* A step that keeps an inode's size, the blocks it had, and its chunks.
Keeps(i) ==
  /\ inode_table'[i].file_size = inode_table[i].file_size
  /\ inode_table'[i].block_count >= inode_table[i].block_count
  /\ \A k \in 1 .. inode_table[i].block_count :
       inode_table'[i].blocks[k] = inode_table[i].blocks[k]
  /\ \A n \in 1 .. inode_table[i].file_size :
       block'[inode_table[i].blocks[Row(n)]][Col(n)] = Cell(i, n)

LEMMA KeptFile ==
  ASSUME TypeInv, TypeInv', NEW i \in Inodes, Whole(i), Keeps(i)
  PROVE  Whole(i)' /\ fs_read(i)' = fs_read(i)
<1>1. \A n \in 1 .. inode_table[i].file_size : Cell(i, n)' = Cell(i, n)
  BY CellInFile DEF Keeps, Cell
<1>2. /\ inode_table[i].file_size \in Nat
      /\ inode_table[i].block_count \in Nat /\ inode_table'[i].block_count \in Nat
  BY TypeFacts, SizesLemma DEF TypeInv, TypeOK, Inode
<1>3. inode_table'[i].file_size <= inode_table'[i].block_count * ENTRIES_PER_BLOCK
  <2>1. /\ inode_table'[i].block_count * ENTRIES_PER_BLOCK >= inode_table[i].block_count * ENTRIES_PER_BLOCK
        /\ inode_table'[i].block_count * ENTRIES_PER_BLOCK \in Nat
        /\ inode_table[i].block_count * ENTRIES_PER_BLOCK \in Nat
    BY <1>2, SizesLemma, ProductLemma DEF Keeps
  <2>2. QED
    BY <1>2, <2>1 DEF Keeps, Whole
<1>4. Whole(i)'
  BY <1>1, <1>3 DEF Whole, Keeps, TextSlots
<1>5. fs_read(i) = [n \in 1 .. inode_table[i].file_size |-> Cell(i, n).name]
  BY ReadLemma
<1>6. fs_read(i)' = [n \in 1 .. inode_table'[i].file_size |-> Cell(i, n)'.name]
  <2>1. fs_read(i)' =
          [n \in 1 .. (IF inode_table'[i].file_size <= inode_table'[i].block_count * ENTRIES_PER_BLOCK
                       THEN inode_table'[i].file_size
                       ELSE inode_table'[i].block_count * ENTRIES_PER_BLOCK) |-> Cell(i, n)'.name]
    BY DEF fs_read, Cell, Row, Col
  <2>2. QED
    BY <1>3, <2>1
<1>7. QED
  BY <1>1, <1>4, <1>5, <1>6 DEF Keeps

\* A file that is not being emptied, before and after, shows what it showed.
LEMMA KeptShows ==
  ASSUME TypeInv, TypeInv', FilesInv, NEW i \in Inodes, ~Emptying(i), ~Emptying(i)',
         inode_table'[i].used = inode_table[i].used, inode_table'[i].type = inode_table[i].type,
         Writable(i) => Keeps(i)
  PROVE  Shows(i)' = Shows(i) /\ (Writable(i)' => Whole(i)')
<1>1. Writable(i)' <=> Writable(i)
  BY DEF Writable
<1>2. CASE Writable(i)
  <2>1. Whole(i)
    BY <1>2 DEF FilesInv
  <2>2. Whole(i)' /\ fs_read(i)' = fs_read(i)
    BY <1>2, <2>1, KeptFile
  <2>3. QED
    BY <1>1, <1>2, <2>2 DEF Shows
<1>3. CASE ~Writable(i)
  BY <1>1, <1>3 DEF Shows
<1>4. QED
  BY <1>2, <1>3

LEMMA SameInodeKeeps ==
  ASSUME TypeInv, NEW i \in Inodes, inode_table'[i] = inode_table[i],
         \A n \in 1 .. inode_table[i].file_size :
           block'[inode_table[i].blocks[Row(n)]][Col(n)] = Cell(i, n)
  PROVE  Keeps(i)
<1>1. inode_table[i].block_count \in Nat
  BY TypeFacts, SizesLemma DEF Inode
<1>2. QED
  BY <1>1 DEF Keeps

\* Writing the call's fresh block changes no chunk of a file.
LEMMA FreshBlockKeeps ==
  ASSUME TypeInv, OwnershipInv, NEW i \in Inodes, Whole(i), pc # "free",
         pc \in {"alloc", "put"} => arg.ino # i,
         NEW content, block' = [block EXCEPT ![new] = content]
  PROVE  \A n \in 1 .. inode_table[i].file_size :
           block'[inode_table[i].blocks[Row(n)]][Col(n)] = Cell(i, n)
<1> SUFFICES ASSUME NEW n \in 1 .. inode_table[i].file_size
             PROVE  block'[inode_table[i].blocks[Row(n)]][Col(n)] = Cell(i, n)
  OBVIOUS
<1>1. Row(n) \in Held(i) /\ inode_table[i].blocks[Row(n)] \in Blocks
  BY CellInFile DEF Held
<1>2. inode_table[i].blocks[Row(n)] # new
  BY <1>1 DEF OwnershipInv, NoSharedBlock
<1>3. QED
  BY <1>1, <1>2, TypeFacts DEF Cell

\* Nor does changing a slot that is not text.
LEMMA SetSlotKeeps ==
  ASSUME TypeInv, NEW i \in Inodes, Whole(i), NEW d \in Inodes, NEW p \in Positions(d), NEW slot,
         SetSlot(d, p, slot), SlotAt(d, p) \notin TextSlots
  PROVE  \A n \in 1 .. inode_table[i].file_size :
           block'[inode_table[i].blocks[Row(n)]][Col(n)] = Cell(i, n)
<1> SUFFICES ASSUME NEW n \in 1 .. inode_table[i].file_size
             PROVE  block'[inode_table[i].blocks[Row(n)]][Col(n)] = Cell(i, n)
  OBVIOUS
<1> DEFINE b == inode_table[d].blocks[p[1]]
           c == inode_table[i].blocks[Row(n)]
<1>1. c \in Blocks /\ Col(n) \in Slots /\ block[c][Col(n)] \in TextSlots
  BY CellInFile DEF Whole, Cell
<1>2. block' = [block EXCEPT ![b][p[2]] = slot] /\ block[b][p[2]] \notin TextSlots
  BY DEF SetSlot, SlotAt
<1>3. ~(b = c /\ p[2] = Col(n))
  BY <1>1, <1>2
<1>4. block[c] \in [Slots -> DirEntry] /\ block \in [Blocks -> [Slots -> DirEntry]]
  BY <1>1, TypeFacts
<1> HIDE DEF b, c
<1>5. block'[c][Col(n)] = block[c][Col(n)]
  BY <1>1, <1>2, <1>3, <1>4
<1>6. QED
  BY <1>5 DEF Cell, c

-----------------------------------------------------------------------------
(* What a session shows.                                                   *)

LEMMA ContentLemma ==
  Content = [i \in Inodes |-> Shows(i)] /\ Content' = [i \in Inodes |-> Shows(i)']
BY DEF Content, Shows, Writable, Emptying

LEMMA SameContent ==
  ASSUME \A i \in Inodes : Shows(i)' = Shows(i)
  PROVE  Content' = Content
BY ContentLemma

LEMMA OneContent ==
  ASSUME NEW j \in Inodes, \A i \in Inodes \ {j} : Shows(i)' = Shows(i)
  PROVE  Content[j] = Shows(j) /\ Content' = [Content EXCEPT ![j] = Shows(j)']
BY ContentLemma

LEMMA EmptyFile ==
  /\ TypeInv => \A i \in Inodes :
       inode_table[i].file_size = 0 => Whole(i) /\ fs_read(i) = <<>>
  /\ TypeInv' => \A i \in Inodes :
       inode_table'[i].file_size = 0 => Whole(i)' /\ fs_read(i)' = <<>>
<1>1. ASSUME TypeInv, NEW i \in Inodes, inode_table[i].file_size = 0
      PROVE  Whole(i) /\ fs_read(i) = <<>>
  <2>1. inode_table[i].block_count * ENTRIES_PER_BLOCK \in Nat
    BY <1>1, TypeFacts, SizesLemma, ProductLemma DEF Inode
  <2>2. QED
    BY <1>1, <2>1 DEF Whole, fs_read
<1>2. ASSUME TypeInv', NEW i \in Inodes, inode_table'[i].file_size = 0
      PROVE  Whole(i)' /\ fs_read(i)' = <<>>
  <2>1. inode_table'[i].block_count \in Nat
    BY <1>2, SizesLemma DEF TypeInv, TypeOK, Inode
  <2>2. inode_table'[i].block_count * ENTRIES_PER_BLOCK \in Nat
    BY <2>1, SizesLemma, ProductLemma
  <2>3. QED
    BY <1>2, <2>2 DEF Whole, fs_read
<1>3. QED
  BY <1>1, <1>2

\* Most steps touch no file, in memory or on disk.
LEMMA QuietFiles ==
  ASSUME FilesInv, UNCHANGED <<inode_table, block>>, \A i \in Inodes : Emptying(i)' <=> Emptying(i)
  PROVE  /\ Content' = Content
         /\ \A i \in Inodes : Writable(i)' /\ ~Emptying(i)' => Whole(i)'
<1>1. \A i \in Inodes : Shows(i)' = Shows(i)
  BY DEF Shows, Writable, fs_read
<1>2. \A i \in Inodes : Writable(i)' /\ ~Emptying(i)' => Whole(i)'
  BY DEF FilesInv, Writable, Whole, Cell, TextSlots
<1>3. QED
  BY <1>1, <1>2, SameContent

-----------------------------------------------------------------------------
(* The steps.                                                              *)

LEMMA InitFiles == Init => FilesInv /\ Store!Init
<1> SUFFICES ASSUME Init PROVE FilesInv /\ Store!Init
  OBVIOUS
<1>1. \A i \in Inodes : ~Writable(i)
  BY DEF Init, Writable, NewInode, UnusedInode, DIR_TYPE
<1>2. Content = [i \in Inodes |-> {}]
  BY <1>1, ContentLemma DEF Shows
<1>3. Writing = {}
  BY DEF Init, Writing, NoArg
<1>4. QED
  BY <1>1, <1>2, <1>3 DEF Init, FilesInv, Store!Init

\* A step of the store whose writes take these texts.
StoreNext(texts) ==
  Store!Next \/ \E i \in Inodes, text \in texts : Store!BeginWrite(i, text)

LEMMA StepFiles ==
  ASSUME TypeInv, TypeInv', OwnershipInv, UnsavedInv, FilesInv, TextsAreNoEntries,
         NEW texts \in SUBSET AnyText, [CommandOf(texts) \/ Step]_vars
  PROVE  FilesInv' /\ [StoreNext(texts)]_<<Content, Writing>>
<1>0. /\ inode_table \in [Inodes -> Inode] /\ inode_table' \in [Inodes -> Inode]
      /\ arg.ino \in Inodes /\ arg.dir \in Inodes
  BY TypeFacts DEF TypeInv, TypeOK
<1>1. ASSUME NEW path \in AnyPath, CreateRefused(path) \/ DeleteRefused(path) \/ WriteRefused(path)
      PROVE  FilesInv' /\ [Store!Next]_<<Content, Writing>>
  <2>1. pc = "idle" /\ pc' = "idle" /\ UNCHANGED <<inode_table, block>>
    BY <1>1 DEF CreateRefused, DeleteRefused, WriteRefused, Return
  <2>2. Content' = Content /\ \A i \in Inodes : Writable(i)' /\ ~Emptying(i)' => Whole(i)'
    BY <2>1, QuietFiles DEF Emptying
  <2>3. QED
    BY <2>1, <2>2 DEF FilesInv, Writing
<1>2. ASSUME NEW path \in AnyPath, handle_cd(path)
      PROVE  FilesInv' /\ [Store!Next]_<<Content, Writing>>
  <2>1. pc = "idle" /\ pc' = "idle" /\ UNCHANGED <<inode_table, block>>
    BY <1>2 DEF handle_cd, disk
  <2>2. Content' = Content /\ \A i \in Inodes : Writable(i)' /\ ~Emptying(i)' => Whole(i)'
    BY <2>1, QuietFiles DEF Emptying
  <2>3. QED
    BY <2>1, <2>2 DEF FilesInv, Writing
<1>3. ASSUME NEW path \in AnyPath, NEW type \in {FILE_TYPE, DIR_TYPE}, Create(path, type)
      PROVE  FilesInv' /\ [Store!Next]_<<Content, Writing>>
  <2>1. PICK d \in Inodes, j \in Inodes :
          /\ ~inode_table[j].used
          /\ inode_table' = [inode_table EXCEPT ![j] = NewInode(type, d)]
          /\ arg' = [NoArg EXCEPT !.op = "create", !.ino = j, !.dir = d, !.name = Last(path.comps)]
    BY <1>3 DEF Create, IsFirst, UnusedInodes
  <2>2. pc = "idle" /\ pc' = "insert" /\ block' = block /\ arg'.ino = j
    BY <1>3, <2>1 DEF Create, NoArg
  <2>3. ASSUME NEW i \in Inodes \ {j}
        PROVE  Shows(i)' = Shows(i) /\ (Writable(i)' => Whole(i)')
    <3>1. inode_table'[i] = inode_table[i]
      BY <1>0, <2>1
    <3>2. Keeps(i)
      BY <2>2, <3>1, SameInodeKeeps DEF Cell
    <3>3. QED
      BY <2>2, <3>1, <3>2, KeptShows DEF Emptying
  <2>4. /\ inode_table'[j].file_size = 0 /\ inode_table'[j].used /\ inode_table'[j].type = type
        /\ Whole(j)' /\ fs_read(j)' = <<>>
    <3>1. inode_table'[j] = NewInode(type, d)
      BY <1>0, <2>1
    <3>2. inode_table'[j].file_size = 0 /\ inode_table'[j].used /\ inode_table'[j].type = type
      BY <3>1 DEF NewInode, UnusedInode
    <3>3. QED
      BY <3>2, EmptyFile
  <2>5. FilesInv'
    BY <2>2, <2>3, <2>4 DEF FilesInv
  <2>6. Content[j] = {} /\ Content' = [Content EXCEPT ![j] = Shows(j)']
    BY <2>1, <2>3, OneContent DEF Shows, Writable
  <2>7. Shows(j)' \in {Store!Empty, {}}
    BY <2>2, <2>4 DEF Shows, Writable, Emptying, Store!Empty
  <2>8. Writing' = Writing
    BY <2>2 DEF Writing
  <2>9. CASE Shows(j)' = Store!Empty
    BY <2>5, <2>6, <2>8, <2>9 DEF Store!Next, Store!Create, Store!Set
  <2>10. CASE Shows(j)' = {}
    <3>1. Content' = Content
      BY <2>6, <2>10, ContentLemma
    <3>2. QED
      BY <2>5, <2>8, <3>1
  <2>11. QED
    BY <2>5, <2>7, <2>9, <2>10
<1>4. ASSUME NEW path \in AnyPath, Delete(path)
      PROVE  FilesInv' /\ [Store!Next]_<<Content, Writing>>
  <2>1. PICK j \in Inodes \ {0} :
          /\ \E p \in EntriesOf(inode_table[j].parent_inode, j) :
               SetSlot(inode_table[j].parent_inode, p, Cleared(SlotAt(inode_table[j].parent_inode, p)))
          /\ arg' = [NoArg EXCEPT !.op = "delete", !.ino = j]
    BY <1>4 DEF Delete
  <2>2. /\ pc = "idle" /\ pc' = "free" /\ UNCHANGED inode_table
        /\ arg'.ino = j /\ arg'.op = "delete"
    BY <1>4, <2>1 DEF Delete, NoArg
  <2>3. ASSUME NEW i \in Inodes \ {j}
        PROVE  Shows(i)' = Shows(i) /\ (Writable(i)' => Whole(i)')
    <3>1. inode_table[j].parent_inode \in Inodes
      BY <1>0 DEF Inode
    <3>2. PICK p \in EntriesOf(inode_table[j].parent_inode, j) :
            SetSlot(inode_table[j].parent_inode, p, Cleared(SlotAt(inode_table[j].parent_inode, p)))
      BY <2>1
    <3>3. SlotAt(inode_table[j].parent_inode, p) \notin TextSlots
      <4>1. SlotAt(inode_table[j].parent_inode, p).inode_index = j /\ j \notin {0, NotAnInode}
        <5>1. j \notin {0, NotAnInode}
          BY SizesLemma DEF Inodes, NotAnInode
        <5>2. QED
          BY <3>2, <5>1 DEF EntriesOf
      <4>2. \A slot \in TextSlots : slot.inode_index \in {0, NotAnInode}
        BY DEF TextSlots, TextSlot, TextsAreNoEntries
      <4>3. QED
        BY <4>1, <4>2
    <3>4. ASSUME Writable(i) PROVE Keeps(i)
      <4>1. Whole(i)
        BY <2>2, <3>4 DEF FilesInv, Emptying
      <4>2. QED
        BY <2>2, <3>1, <3>2, <3>3, <4>1, SetSlotKeeps, SameInodeKeeps DEF EntriesOf
    <3>5. QED
      BY <2>2, <3>4, KeptShows DEF Emptying
  <2>4. FilesInv'
    BY <2>2, <2>3 DEF FilesInv, Emptying
  <2>5. Content[j] = Shows(j) /\ Content' = [Content EXCEPT ![j] = Shows(j)']
    BY <2>3, OneContent
  <2>6. Writing' = Writing
    BY <2>2 DEF Writing
  <2>7. CASE Writable(j)
    <3>1. Content[j] = {fs_read(j)} /\ Shows(j)' = Store!Empty
      BY <2>2, <2>5, <2>7 DEF Shows, Writable, Emptying, Store!Empty
    <3>2. QED
      BY <2>4, <2>5, <2>6, <3>1 DEF Store!Next, Store!Truncate, Store!Set
  <2>8. CASE ~Writable(j)
    <3>1. Shows(j)' = Shows(j)
      BY <2>2, <2>8 DEF Shows, Writable
    <3>2. Content' = Content
      BY <2>3, <3>1, SameContent
    <3>3. QED
      BY <2>4, <2>6, <3>2
  <2>9. QED
    BY <2>7, <2>8
<1>5. ASSUME NEW path \in AnyPath, NEW data \in texts, Write(path, data)
      PROVE  FilesInv' /\ [StoreNext(texts)]_<<Content, Writing>>
  <2>1. PICK j \in Inodes :
          Writable(j) /\ arg' = [NoArg EXCEPT !.op = "write", !.ino = j, !.data = data]
    BY <1>5 DEF Write
  <2>2. /\ pc = "idle" /\ pc' = "free" /\ UNCHANGED <<inode_table, block>>
        /\ arg'.ino = j /\ arg'.op = "write" /\ arg'.data = data
    BY <1>5, <2>1 DEF Write, NoArg
  <2>3. ASSUME NEW i \in Inodes \ {j}
        PROVE  Shows(i)' = Shows(i) /\ (Writable(i)' => Whole(i)')
    <3>1. Keeps(i)
      BY <2>2, SameInodeKeeps DEF Cell
    <3>2. QED
      BY <2>2, <3>1, KeptShows DEF Emptying
  <2>4. FilesInv'
    BY <2>2, <2>3 DEF FilesInv, Emptying
  <2>5. Content[j] = {fs_read(j)} /\ Content' = [Content EXCEPT ![j] = Store!Empty]
    <3>1. Content[j] = Shows(j) /\ Content' = [Content EXCEPT ![j] = Shows(j)']
      BY <2>3, OneContent
    <3>2. Shows(j) = {fs_read(j)} /\ Shows(j)' = Store!Empty
      BY <2>1, <2>2 DEF Shows, Writable, Emptying, Store!Empty
    <3>3. QED
      BY <3>1, <3>2
  <2>6. Writing = {} /\ Writing' = {<<j, data>>}
    BY <2>2 DEF Writing
  <2>7. Store!BeginWrite(j, data)
    BY <2>5, <2>6 DEF Store!BeginWrite, Store!Set
  <2>8. QED
    BY <2>4, <2>7 DEF StoreNext
<1>6. ASSUME InsertEntry
      PROVE  FilesInv' /\ [Store!Next]_<<Content, Writing>>
  <2>1. /\ pc = "insert" /\ pc' = "save" /\ UNCHANGED <<inode_table, arg>>
        /\ \E p \in FreeSlots(arg.dir) :
             SetSlot(arg.dir, p, [name |-> arg.name, inode_index |-> arg.ino])
    BY <1>6 DEF InsertEntry
  <2>2. ASSUME NEW i \in Inodes
        PROVE  Shows(i)' = Shows(i) /\ (Writable(i)' => Whole(i)')
    <3>1. PICK p \in FreeSlots(arg.dir) :
            SetSlot(arg.dir, p, [name |-> arg.name, inode_index |-> arg.ino])
      BY <2>1
    <3>2. SlotAt(arg.dir, p) \notin TextSlots
      <4>1. SlotAt(arg.dir, p).name = ""
        BY DEF FreeSlots
      <4>2. "" \notin Text
        BY TextAssumption DEF Components
      <4>3. \A slot \in TextSlots : slot.name \in Text
        BY DEF TextSlots, TextSlot
      <4>4. QED
        BY <4>1, <4>2, <4>3
    <3>3. ASSUME Writable(i) PROVE Keeps(i)
      <4>1. Whole(i)
        BY <2>1, <3>3 DEF FilesInv, Emptying
      <4>2. QED
        BY <1>0, <2>1, <3>1, <3>2, <4>1, SetSlotKeeps, SameInodeKeeps DEF FreeSlots
    <3>4. QED
      BY <2>1, <3>3, KeptShows DEF Emptying
  <2>3. FilesInv' /\ Content' = Content /\ Writing' = Writing
    BY <2>1, <2>2, SameContent DEF FilesInv, Writing
  <2>4. QED
    BY <2>3
<1>7. ASSUME InsertAlloc
      PROVE  FilesInv' /\ [Store!Next]_<<Content, Writing>>
  <2>1. pc = "insert" /\ pc' = "attach" /\ UNCHANGED <<inode_table, block, arg>>
    BY <1>7 DEF InsertAlloc
  <2>2. Content' = Content /\ \A i \in Inodes : Writable(i)' /\ ~Emptying(i)' => Whole(i)'
    BY <2>1, QuietFiles DEF Emptying
  <2>3. QED
    BY <2>1, <2>2 DEF FilesInv, Writing
<1>8. ASSUME AttachBlock
      PROVE  FilesInv' /\ [Store!Next]_<<Content, Writing>>
  <2>1. PICK d \in Inodes, n \in 1 .. MAX_BLOCKS_PER_INODE :
          d = arg.dir /\ n = inode_table[d].block_count + 1
    BY <1>0, <1>8, AttachInArray
  <2>2. /\ inode_table' = [inode_table EXCEPT ![d].blocks[n] = new, ![d].block_count = n]
        /\ pc = "attach" /\ pc' \in {"insert", "save"} /\ UNCHANGED arg
        /\ \E content : block' = [block EXCEPT ![new] = content]
    BY <1>8, <2>1 DEF AttachBlock
  <2>3. /\ inode_table'[d].block_count = n
        /\ inode_table'[d].blocks = [inode_table[d].blocks EXCEPT ![n] = new]
        /\ inode_table'[d].file_size = inode_table[d].file_size
        /\ inode_table'[d].used = inode_table[d].used
        /\ inode_table'[d].type = inode_table[d].type
        /\ \A i \in Inodes : i # d => inode_table'[i] = inode_table[i]
    BY <1>0, <2>2 DEF Inode
  <2>4. ASSUME NEW i \in Inodes
        PROVE  Shows(i)' = Shows(i) /\ (Writable(i)' => Whole(i)')
    <3>1. ASSUME Writable(i) PROVE Keeps(i)
      <4>1. Whole(i)
        BY <2>2, <3>1 DEF FilesInv, Emptying
      <4>2. \A m \in 1 .. inode_table[i].file_size :
              block'[inode_table[i].blocks[Row(m)]][Col(m)] = Cell(i, m)
        BY <2>2, <4>1, FreshBlockKeeps
      <4>3. CASE i = d
        <5>1. /\ inode_table[d].block_count \in 0 .. MAX_BLOCKS_PER_INODE
              /\ inode_table[d].blocks \in [1 .. MAX_BLOCKS_PER_INODE -> Blocks]
          BY <1>0 DEF Inode
        <5>2. \A k \in 1 .. inode_table[d].block_count :
                inode_table'[d].blocks[k] = inode_table[d].blocks[k]
          BY <2>1, <2>3, <5>1, SizesLemma
        <5>3. n >= inode_table[d].block_count
          BY <2>1, <5>1, SizesLemma
        <5>4. QED
          BY <2>3, <4>2, <4>3, <5>2, <5>3 DEF Keeps
      <4>4. CASE i # d
        BY <2>3, <4>2, <4>4, SameInodeKeeps
      <4>5. QED
        BY <4>3, <4>4
    <3>2. inode_table'[i].used = inode_table[i].used /\ inode_table'[i].type = inode_table[i].type
      BY <2>3
    <3>3. QED
      BY <2>2, <3>1, <3>2, KeptShows DEF Emptying
  <2>5. inode_table'[arg.ino].file_size = 0
    BY <1>0, <2>2, <2>3 DEF FilesInv
  <2>6. FilesInv' /\ Content' = Content /\ Writing' = Writing
    BY <2>2, <2>4, <2>5, SameContent DEF FilesInv, Writing
  <2>7. QED
    BY <2>6
<1>9. ASSUME InsertFailed
      PROVE  FilesInv' /\ [Store!Next]_<<Content, Writing>>
  <2>1. PICK j \in Inodes : j = arg.ino
    BY <1>0
  <2>2. /\ pc = "insert" /\ pc' = "idle" /\ UNCHANGED block
        /\ inode_table' = [inode_table EXCEPT ![j].used = FALSE]
    BY <1>9, <2>1 DEF InsertFailed, Return
  <2>3. ASSUME NEW i \in Inodes \ {j}
        PROVE  Shows(i)' = Shows(i) /\ (Writable(i)' => Whole(i)')
    <3>1. inode_table'[i] = inode_table[i]
      BY <1>0, <2>2
    <3>2. Keeps(i)
      BY <2>2, <3>1, SameInodeKeeps DEF Cell
    <3>3. QED
      BY <2>2, <3>1, <3>2, KeptShows DEF Emptying
  <2>4. ~inode_table'[j].used
    BY <1>0, <2>2 DEF Inode
  <2>5. FilesInv'
    BY <2>2, <2>3, <2>4 DEF FilesInv, Writable
  <2>6. Content[j] = Shows(j) /\ Content' = [Content EXCEPT ![j] = {}]
    <3>1. Shows(j)' = {}
      BY <2>4 DEF Shows, Writable
    <3>2. QED
      BY <2>3, <3>1, OneContent
  <2>7. Writing' = Writing
    BY <2>2 DEF Writing
  <2>8. CASE Writable(j)
    <3>1. Content[j] = Store!Empty
      BY <2>1, <2>2, <2>6, <2>8, EmptyFile DEF Shows, Emptying, FilesInv, Store!Empty
    <3>2. QED
      BY <2>5, <2>6, <2>7, <3>1 DEF Store!Next, Store!Remove, Store!Set
  <2>9. CASE ~Writable(j)
    <3>1. Content' = Content
      BY <2>6, <2>9, ContentLemma DEF Shows
    <3>2. QED
      BY <2>5, <2>7, <3>1
  <2>10. QED
    BY <2>8, <2>9
<1>10. ASSUME FreeBlock
      PROVE  FilesInv' /\ [Store!Next]_<<Content, Writing>>
  <2>1. PICK j \in Inodes, n \in 1 .. MAX_BLOCKS_PER_INODE : j = arg.ino /\ n = turn + 1
    BY <1>0, <1>10, TurnInArray
  <2>2. /\ inode_table' = [inode_table EXCEPT ![j].blocks[n] = 0]
        /\ pc = "free" /\ pc' = "free" /\ UNCHANGED <<block, arg>>
    BY <1>10, <2>1 DEF FreeBlock
  <2>3. /\ inode_table'[j].used = inode_table[j].used
        /\ inode_table'[j].type = inode_table[j].type
        /\ \A i \in Inodes : i # j => inode_table'[i] = inode_table[i]
    BY <1>0, <2>2 DEF Inode
  <2>4. ASSUME NEW i \in Inodes \ {j}
        PROVE  Shows(i)' = Shows(i) /\ (Writable(i)' => Whole(i)')
    <3>1. Keeps(i)
      BY <2>2, <2>3, SameInodeKeeps DEF Cell
    <3>2. QED
      BY <2>1, <2>2, <2>3, <3>1, KeptShows DEF Emptying
  <2>5. Shows(j)' = Shows(j)
    BY <2>1, <2>2, <2>3 DEF Shows, Writable, Emptying
  <2>6. FilesInv' /\ Content' = Content /\ Writing' = Writing
    BY <2>1, <2>2, <2>4, <2>5, SameContent DEF FilesInv, Emptying, Writing
  <2>7. QED
    BY <2>6
<1>11. ASSUME FreeDone
      PROVE  FilesInv' /\ [Store!Next]_<<Content, Writing>>
  <2>1. PICK j \in Inodes : j = arg.ino
    BY <1>0
  <2>2. /\ inode_table' = [inode_table EXCEPT ![j].block_count = 0, ![j].file_size = 0,
                                              ![j].used = @ /\ arg.op # "delete"]
        /\ pc = "free" /\ pc' \in {"alloc", "save"} /\ (pc' = "alloc" <=> arg.op # "delete")
        /\ turn' = 0 /\ UNCHANGED <<block, arg>>
    BY <1>11, <2>1 DEF FreeDone, AfterFree
  <2>3. /\ inode_table'[j].used = (inode_table[j].used /\ arg.op # "delete")
        /\ inode_table'[j].type = inode_table[j].type
        /\ inode_table'[j].file_size = 0
        /\ \A i \in Inodes : i # j => inode_table'[i] = inode_table[i]
    BY <1>0, <2>2 DEF Inode
  <2>4. ASSUME NEW i \in Inodes \ {j}
        PROVE  Shows(i)' = Shows(i) /\ (Writable(i)' => Whole(i)')
    <3>1. Keeps(i)
      BY <2>2, <2>3, SameInodeKeeps DEF Cell
    <3>2. QED
      BY <2>1, <2>2, <2>3, <3>1, KeptShows DEF Emptying
  <2>5. Whole(j)' /\ fs_read(j)' = <<>>
    BY <2>3, EmptyFile
  <2>6. FilesInv'
    BY <2>2, <2>4, <2>5, SizesLemma DEF FilesInv
  <2>7. Content[j] = Shows(j) /\ Content' = [Content EXCEPT ![j] = Shows(j)']
    BY <2>4, OneContent
  <2>8. /\ Writable(j) => Shows(j) = Store!Empty
        /\ Writable(j)' => Shows(j)' = Store!Empty
    BY <2>1, <2>2, <2>5 DEF Shows, Emptying, Store!Empty
  <2>9. arg.op \in {"write", "delete"}
    BY <2>2 DEF UnsavedInv
  <2>10. Writing' = Writing
    BY <2>2, <2>9 DEF Writing
  <2>11. CASE Writable(j) /\ arg.op = "delete"
    <3>1. Content[j] = Store!Empty /\ Shows(j)' = {}
      BY <2>3, <2>7, <2>8, <2>11 DEF Shows, Writable
    <3>2. QED
      BY <2>6, <2>7, <2>10, <3>1 DEF Store!Next, Store!Remove, Store!Set
  <2>12. CASE ~Writable(j) \/ arg.op = "write"
    <3>1. Shows(j)' = Shows(j)
      BY <2>3, <2>8, <2>12 DEF Shows, Writable
    <3>2. Content' = Content
      BY <2>4, <3>1, SameContent
    <3>3. QED
      BY <2>6, <2>10, <3>2
  <2>13. QED
    BY <2>9, <2>11, <2>12
<1>12. ASSUME WriteAlloc
      PROVE  FilesInv' /\ [Store!Next]_<<Content, Writing>>
  <2>1. pc = "alloc" /\ pc' = "put" /\ UNCHANGED <<inode_table, block, arg, turn>>
    BY <1>12 DEF WriteAlloc
  <2>2. Content' = Content /\ \A i \in Inodes : Writable(i)' /\ ~Emptying(i)' => Whole(i)'
    BY <2>1, QuietFiles DEF Emptying
  <2>3. FilesInv' /\ Writing' = Writing
    BY <2>1, <2>2 DEF FilesInv, Writing, Chunk
  <2>4. QED
    BY <2>2, <2>3
<1>13. ASSUME WriteBlock
      PROVE  FilesInv' /\ [Store!Next]_<<Content, Writing>>
  <2>1. PICK j \in Inodes, n \in 1 .. MAX_BLOCKS_PER_INODE : j = arg.ino /\ n = turn + 1
    BY <1>0, <1>13, TurnLemma DEF WriteBlock, TypeInv, CallOK
  <2>2. /\ inode_table' = [inode_table EXCEPT ![j].blocks[n] = new]
        /\ block' = [block EXCEPT ![new] = Chunk(arg.data, n)]
        /\ pc = "put" /\ pc' = "alloc" /\ turn' = n /\ UNCHANGED arg /\ new \in Blocks
    BY <1>13, <2>1 DEF WriteBlock, TypeInv, CallOK
  <2>3. /\ inode_table'[j].used = inode_table[j].used
        /\ inode_table'[j].type = inode_table[j].type
        /\ inode_table'[j].file_size = inode_table[j].file_size
        /\ inode_table'[j].blocks = [inode_table[j].blocks EXCEPT ![n] = new]
        /\ \A i \in Inodes : i # j => inode_table'[i] = inode_table[i]
    BY <1>0, <2>2 DEF Inode
  <2>4. ASSUME NEW i \in Inodes \ {j}
        PROVE  Shows(i)' = Shows(i) /\ (Writable(i)' => Whole(i)')
    <3>1. ASSUME Writable(i) PROVE Keeps(i)
      <4>1. Whole(i)
        BY <2>2, <3>1 DEF FilesInv, Emptying
      <4>2. QED
        BY <2>1, <2>2, <2>3, <4>1, FreshBlockKeeps, SameInodeKeeps
    <3>2. QED
      BY <2>2, <2>3, <3>1, KeptShows DEF Emptying
  <2>5. Shows(j)' = Shows(j) /\ Whole(j)'
    <3>1. inode_table[j].file_size = 0 /\ inode_table'[j].file_size = 0
      BY <2>1, <2>2, <2>3 DEF UnsavedInv, Emptied
    <3>2. QED
      BY <2>2, <2>3, <3>1, EmptyFile DEF Shows, Writable, Emptying
  <2>6. ASSUME NEW k \in 1 .. n
        PROVE  block'[inode_table'[j].blocks[k]] = Chunk(arg.data, k)
    <3>1. /\ inode_table[j].blocks \in [1 .. MAX_BLOCKS_PER_INODE -> Blocks]
          /\ k \in 1 .. MAX_BLOCKS_PER_INODE
      BY <1>0, SizesLemma DEF Inode
    <3>2. CASE k = n
      <4>1. inode_table'[j].blocks[k] = new
        BY <2>3, <3>1, <3>2
      <4>2. block'[new] = Chunk(arg.data, n)
        BY <2>2, TypeFacts
      <4>3. QED
        BY <3>2, <4>1, <4>2
    <3>3. CASE k # n
      <4>1. k \in 1 .. turn
        BY <1>0, <2>1, <3>3, TypeFacts, SizesLemma
      <4>2. inode_table[j].blocks[k] # new
        BY <2>1, <2>2, <4>1 DEF OwnershipInv, NoSharedBlock, Held
      <4>3. block[inode_table[j].blocks[k]] = Chunk(arg.data, k)
        BY <2>1, <2>2, <4>1 DEF FilesInv
      <4>4. QED
        BY <2>2, <2>3, <3>1, <3>3, <4>2, <4>3, TypeFacts
    <3>4. QED
      BY <3>2, <3>3
  <2>7. FilesInv'
    BY <2>1, <2>2, <2>4, <2>5, <2>6 DEF FilesInv, Chunk
  <2>8. Content' = Content /\ Writing' = Writing
    BY <2>2, <2>4, <2>5, SameContent DEF Writing
  <2>9. QED
    BY <2>7, <2>8
<1>14. ASSUME WriteFailed
      PROVE  FilesInv' /\ [Store!Next]_<<Content, Writing>>
  <2>1. pc = "alloc" /\ pc' = "idle" /\ UNCHANGED <<inode_table, block>>
    BY <1>14 DEF WriteFailed, Return
  <2>2. Content' = Content /\ \A i \in Inodes : Writable(i)' /\ ~Emptying(i)' => Whole(i)'
    BY <2>1, QuietFiles DEF Emptying
  <2>3. Writing # {} /\ Writing' = {}
    BY <2>1 DEF Writing, UnsavedInv
  <2>4. QED
    BY <2>1, <2>2, <2>3 DEF FilesInv, Store!Next, Store!AbandonWrite
<1>15. ASSUME WriteDone
      PROVE  FilesInv' /\ [Store!Next]_<<Content, Writing>>
  <2>1. PICK j \in Inodes : j = arg.ino
    BY <1>0
  <2>2. /\ inode_table' = [inode_table EXCEPT ![j].block_count = turn,
                                              ![j].file_size = Len(arg.data)]
        /\ pc = "alloc" /\ pc' = "save" /\ UNCHANGED <<block, arg>> /\ ~MoreBlocksNeeded
    BY <1>15, <2>1 DEF WriteDone
  <2>3. /\ inode_table'[j].used = inode_table[j].used
        /\ inode_table'[j].type = inode_table[j].type
        /\ inode_table'[j].file_size = Len(arg.data)
        /\ inode_table'[j].block_count = turn
        /\ inode_table'[j].blocks = inode_table[j].blocks
        /\ \A i \in Inodes : i # j => inode_table'[i] = inode_table[i]
    BY <1>0, <2>2 DEF Inode
  <2>4. ASSUME NEW i \in Inodes \ {j}
        PROVE  Shows(i)' = Shows(i) /\ (Writable(i)' => Whole(i)')
    <3>1. Keeps(i)
      BY <2>2, <2>3, SameInodeKeeps DEF Cell
    <3>2. QED
      BY <2>2, <2>3, <3>1, KeptShows DEF Emptying
  <2>5. ASSUME NEW n \in 1 .. Len(arg.data)
        PROVE  Cell(j, n)' = TextSlot(arg.data[n])
    <3>1. n \in Nat \ {0} /\ turn \in Nat /\ n <= turn * ENTRIES_PER_BLOCK
      <4>1. turn \in Nat /\ Len(arg.data) \in Nat /\ turn * ENTRIES_PER_BLOCK \in Nat
        BY TypeFacts, SizesLemma, ProductLemma
      <4>2. Len(arg.data) <= turn * ENTRIES_PER_BLOCK
        BY <2>2, <4>1 DEF MoreBlocksNeeded
      <4>3. QED
        BY <4>1, <4>2
    <3>2. Row(n) \in 1 .. turn /\ Col(n) \in Slots /\ n = (Row(n) - 1) * ENTRIES_PER_BLOCK + Col(n)
      BY <3>1, Geometry
    <3>3. block[inode_table[j].blocks[Row(n)]] = Chunk(arg.data, Row(n))
      BY <2>1, <2>2, <3>2 DEF FilesInv
    <3>4. Chunk(arg.data, Row(n))[Col(n)] = TextSlot(arg.data[n])
      BY <3>2 DEF Chunk
    <3>5. QED
      BY <2>2, <2>3, <3>3, <3>4 DEF Cell
  <2>6. Whole(j)'
    <3>1. turn * ENTRIES_PER_BLOCK \in Nat /\ Len(arg.data) \in Nat
      BY TypeFacts, SizesLemma, ProductLemma
    <3>2. Len(arg.data) <= turn * ENTRIES_PER_BLOCK
      BY <2>2, <3>1 DEF MoreBlocksNeeded
    <3>3. \A n \in 1 .. Len(arg.data) : Cell(j, n)' \in TextSlots
      BY <2>5, TypeFacts DEF TextSlots
    <3>4. QED
      BY <2>3, <3>2, <3>3 DEF Whole, TextSlots
  <2>7. FilesInv'
    BY <2>2, <2>4, <2>6 DEF FilesInv
  <2>8. Content[j] = Store!Empty /\ Shows(j)' = {arg.data}
    <3>1. Writable(j) /\ Writable(j)' /\ fs_read(j) = <<>>
      <4>1. Emptied(j) /\ inode_table[j].file_size = 0
        BY <2>1, <2>2 DEF UnsavedInv, Emptied
      <4>2. Writable(j) /\ Writable(j)'
        BY <2>3, <4>1 DEF Emptied, Writable, FILE_TYPE, DIR_TYPE
      <4>3. QED
        BY <4>1, <4>2, EmptyFile
    <3>2. fs_read(j)' = arg.data
      <4>1. fs_read(j)' = [n \in 1 .. Len(arg.data) |-> Cell(j, n)'.name]
        <5>1. fs_read(j)' =
                [n \in 1 .. (IF inode_table'[j].file_size <= inode_table'[j].block_count * ENTRIES_PER_BLOCK
                             THEN inode_table'[j].file_size
                             ELSE inode_table'[j].block_count * ENTRIES_PER_BLOCK) |-> Cell(j, n)'.name]
          BY DEF fs_read, Cell, Row, Col
        <5>2. QED
          BY <2>3, <2>6, <5>1 DEF Whole
      <4>2. \A n \in 1 .. Len(arg.data) : Cell(j, n)'.name = arg.data[n]
        BY <2>5 DEF TextSlot
      <4>3. arg.data \in Seq(Text)
        BY TypeFacts
      <4>4. QED
        BY <4>1, <4>2, <4>3
    <3>3. Content[j] = Shows(j)
      BY ContentLemma
    <3>4. QED
      BY <2>2, <3>1, <3>2, <3>3 DEF Shows, Emptying, Store!Empty
  <2>9. Content' = [Content EXCEPT ![j] = {arg.data}]
    BY <2>4, <2>8, OneContent
  <2>10. Writing = {<<j, arg.data>>} /\ Writing' = {}
    BY <2>1, <2>2 DEF Writing, UnsavedInv
  <2>11. Store!EndWrite
    BY <2>8, <2>9, <2>10 DEF Store!EndWrite, Store!Set
  <2>12. QED
    BY <2>7, <2>11 DEF Store!Next
<1>16. ASSUME save_inode_table \/ FlushTable
      PROVE  FilesInv' /\ [Store!Next]_<<Content, Writing>>
  <2>1. /\ pc \in {"save", "flush"} /\ pc' \in {"flush", "idle"}
        /\ UNCHANGED <<inode_table, block>>
    BY <1>16 DEF save_inode_table, FlushTable, Return
  <2>2. Content' = Content /\ \A i \in Inodes : Writable(i)' /\ ~Emptying(i)' => Whole(i)'
    BY <2>1, QuietFiles DEF Emptying
  <2>3. QED
    BY <2>1, <2>2 DEF FilesInv, Writing
<1>17. ASSUME UNCHANGED vars
      PROVE  FilesInv' /\ [Store!Next]_<<Content, Writing>>
  <2>1. UNCHANGED <<inode_table, block, pc, arg, turn>>
    BY <1>17 DEF vars
  <2>2. Content' = Content /\ \A i \in Inodes : Writable(i)' /\ ~Emptying(i)' => Whole(i)'
    BY <2>1, QuietFiles DEF Emptying
  <2>3. FilesInv' /\ Writing' = Writing
    BY <2>1, <2>2 DEF FilesInv, Writing, Chunk
  <2>4. QED
    BY <2>2, <2>3
<1>18. [Store!Next]_<<Content, Writing>> => [StoreNext(texts)]_<<Content, Writing>>
  BY DEF StoreNext
<1>19. QED
  BY <1>1, <1>2, <1>3, <1>4, <1>5, <1>6, <1>7, <1>8, <1>9, <1>10, <1>11, <1>12, <1>13,
     <1>14, <1>15, <1>16, <1>17, <1>18
  DEF CommandOf, Step, handle_create, handle_delete

\* A session implements FileStore: a file holds what was last written to it, or
\* nothing if that write failed, whatever was done to others.
THEOREM SessionsStoreFiles ==
  ASSUME TextsAreNoEntries
  PROVE  Session => ImplementsFileStore
<1>1. Init => TypeInv /\ OwnershipInv /\ UnsavedInv /\ FilesInv /\ Store!Init
  BY InitTypeInv, InitOwnershipInv, InitUnsavedInv, InitFiles
<1>2. TypeInv /\ OwnershipInv /\ UnsavedInv /\ [SessionNext]_vars
        => TypeInv' /\ OwnershipInv' /\ UnsavedInv'
  BY AnyLemma, StepTypeInv, StepOwnershipInv, StepUnsavedInv DEF AnyNext
<1>3. TypeInv /\ TypeInv' /\ OwnershipInv /\ UnsavedInv /\ FilesInv /\ [SessionNext]_vars
        => FilesInv' /\ [Store!Next]_<<Content, Writing>>
  <2>1. [StoreNext(Contents)]_<<Content, Writing>> <=> [Store!Next]_<<Content, Writing>>
    BY DEF StoreNext, Store!Next
  <2>2. QED
    BY <2>1, StepFiles, AnyLemma
<1>4. QED
  BY <1>1, <1>2, <1>3, PTL DEF Session, ImplementsFileStore, Store!Spec
=============================================================================
