----------------------------- MODULE FileSystem -----------------------------
(***************************************************************************)
(* The file system of filesystem/file_system.c over the block device of    *)
(* filestructures/block_operations.c: an inode table kept in memory, its   *)
(* copy on disk, the bitmap of allocated blocks, and the data blocks.      *)
(*                                                                         *)
(* A call (fs_create, fs_delete, fs_write) is a chain of steps, one for    *)
(* each write that reaches the disk image, in the order of the code.  The  *)
(* program is single threaded, so nothing runs between two steps of a call *)
(* except a crash, which loses the memory and keeps what was written.      *)
(*                                                                         *)
(* Data is counted in directory slots: a block is ENTRIES_PER_BLOCK slots, *)
(* and a slot holds a directory entry or one chunk of file text.           *)
(***************************************************************************)
EXTENDS BlockAllocator, Sequences, SequencesExt

CONSTANTS
  MAX_INODES,            \* number of inodes in the table
  MAX_BLOCKS_PER_INODE,  \* length of an inode's block array
  ENTRIES_PER_BLOCK,     \* directory slots of a block
  Names,                 \* names a user gives to files and directories
  Text,                  \* chunks of file text, one slot each
  TextInode,             \* the inode number a chunk has, read as a directory entry
  SPLIT_INODE,           \* the save of the inode table takes two writes: the first
  SPLIT_BLOCKS,          \*   ends in this inode, after so many entries of its array
  Paths,                 \* the paths a user types
  Contents               \* the texts a user writes

Inodes == 0 .. MAX_INODES - 1
Slots == 1 .. ENTRIES_PER_BLOCK

FILE_TYPE == "file"
DIR_TYPE == "dir"

\* What stands between two slashes of a path; "" between two adjacent ones
\* and after a last one.
Components == Names \union {"", ".", ".."}

\* "/a/b" is [absolute |-> TRUE, comps |-> <<"a", "b">>].  Only the empty path
\* has no component, so comps is not empty here: the handlers reject it.
PathType == [absolute : BOOLEAN, comps : Seq(Components)]

\* What text holds where an entry has its inode number: two characters, no
\* inode's number; under the last chunk of a text 0 if it ends before, the
\* root's, or 10, its newline, if it ends in the first of the two.
NotAnInode == -1
DirEntry == [name : Components \union Text, inode_index : Inodes \union {NotAnInode}]
EmptySlot == [name |-> "", inode_index |-> 0]
TextSlot(t) == [name |-> t, inode_index |-> TextInode[t]]

Inode == [used : BOOLEAN, type : {FILE_TYPE, DIR_TYPE}, file_size : Nat,
          block_count : 0 .. MAX_BLOCKS_PER_INODE,
          blocks : [1 .. MAX_BLOCKS_PER_INODE -> Blocks], parent_inode : Inodes]

ASSUME SizesAssumption ==
  /\ MAX_INODES \in Nat \ {0}
  /\ MAX_BLOCKS_PER_INODE \in Nat \ {0}
  /\ ENTRIES_PER_BLOCK \in Nat \ {0}
  /\ SPLIT_INODE \in Inodes
  /\ SPLIT_BLOCKS \in 0 .. MAX_BLOCKS_PER_INODE
ASSUME TextAssumption ==
  /\ Text \intersect Components = {}
  /\ TextInode \in [Text -> Inodes \union {NotAnInode}]
ASSUME InputsAssumption ==
  /\ \A path \in Paths : path \in PathType /\ path.comps # <<>>
  /\ \A data \in Contents :
       /\ data \in Seq(Text)
       /\ Len(data) <= MAX_BLOCKS_PER_INODE * ENTRIES_PER_BLOCK

\* BlockAllocator declares bitmap, the set of blocks whose bit is set on disk.
VARIABLES
  inode_table,  \* memory: fs->inode_table
  cwd_inode,    \* memory: fs->cwd_inode
  table,        \* disk: the inode table as last saved
  block,        \* disk: what each data block holds, slot by slot
  pc,           \* where the running call is; "idle" between two commands
  arg,          \* the arguments of the running call, resolved
  turn,         \* turns its loop over blocks has done
  new,          \* the block it has just allocated
  ret           \* the last call's return value

memory == <<inode_table, cwd_inode>>
disk == <<table, bitmap, block>>
call == <<pc, arg, turn, new, ret>>
vars == <<inode_table, cwd_inode, table, bitmap, block, pc, arg, turn, new, ret>>

Arguments == [op : {"none", "create", "delete", "write"}, ino : Inodes, dir : Inodes,
              name : Components, data : Seq(Text)]
NoArg == [op |-> "none", ino |-> 0, dir |-> 0, name |-> "", data |-> <<>>]
NoBlock == -1

-----------------------------------------------------------------------------
(* Slots.                                                                  *)

\* The slots of an inode's blocks, in the order the code scans them.
Positions(d) == (1 .. inode_table[d].block_count) \X Slots
Before(p, q) == p[1] < q[1] \/ (p[1] = q[1] /\ p[2] <= q[2])
IsFirstPosition(p, S) == p \in S /\ \A q \in S : Before(p, q)
SlotAt(d, p) == block[inode_table[d].blocks[p[1]]][p[2]]
SetSlot(d, p, slot) ==
  block' = [block EXCEPT ![inode_table[d].blocks[p[1]]][p[2]] = slot]

FreeSlots(d) == {p \in Positions(d) : SlotAt(d, p).name = ""}

-----------------------------------------------------------------------------
(* Path resolution.                                                        *)

\* The inode the first entry of that name holds, -1 when there is none.
find_in_dir(d, name) ==
  LET hits == {p \in Positions(d) : SlotAt(d, p).name = name}
  IN  IF name = "" \/ hits = {} THEN -1
      ELSE SlotAt(d, CHOOSE p \in hits : IsFirstPosition(p, hits)).inode_index

\* One turn of the loop of fs_lookup_path; strtok never returns an empty token.
Resolve(current, token) ==
  IF current = -1 \/ token \in {"", "."} THEN current
  ELSE IF token = ".." THEN IF current # 0 THEN inode_table[current].parent_inode ELSE 0
  ELSE IF inode_table[current].type # DIR_TYPE THEN -1
  ELSE find_in_dir(current, token)

Walk(token) == [current \in Inodes \union {-1} |-> Resolve(current, token)]
\* walk[n] is current after n turns.
fs_lookup_path(path) ==
  LET walk[n \in 0 .. Len(path.comps)] ==
        IF n = 0 THEN IF path.absolute THEN 0 ELSE cwd_inode
        ELSE Walk(path.comps[n])[walk[n - 1]]
  IN  walk[Len(path.comps)]

ParentPath(path) == [path EXCEPT !.comps = Front(@)]

-----------------------------------------------------------------------------
(* A freshly formatted, mounted disk: mkfs, then fs_init.                  *)

UnusedInode == [used |-> FALSE, type |-> FILE_TYPE, file_size |-> 0, block_count |-> 0,
                blocks |-> [k \in 1 .. MAX_BLOCKS_PER_INODE |-> 0], parent_inode |-> 0]
\* The bad one forgets used = 1.
BadNewInode(type, parent) == [UnusedInode EXCEPT !.type = type, !.parent_inode = parent]
NewInode(type, parent) ==
  [UnusedInode EXCEPT !.used = TRUE, !.type = type, !.parent_inode = parent]
EmptyBlock == [s \in Slots |-> EmptySlot]

Init ==
  /\ inode_table = [i \in Inodes |-> IF i = 0 THEN NewInode(DIR_TYPE, 0) ELSE UnusedInode]
  /\ cwd_inode = 0
  /\ table = inode_table
  /\ AllocatorInit
  /\ block = [b \in Blocks |-> EmptyBlock]
  /\ pc = "idle" /\ arg = NoArg /\ turn = 0 /\ new = NoBlock /\ ret = 0

Return(rc) == pc' = "idle" /\ arg' = NoArg /\ turn' = 0 /\ new' = NoBlock /\ ret' = rc

-----------------------------------------------------------------------------
(* save_inode_table, the tail of every successful call.                    *)

\* The first write carries the inodes before SPLIT_INODE whole, and of that
\* one the fields that come first in memory: used, type, file_size,
\* block_count, and the first entries of blocks.
FirstPart(i) ==
  IF i < SPLIT_INODE THEN inode_table[i]
  ELSE IF i > SPLIT_INODE THEN table[i]
  ELSE [inode_table[i] EXCEPT
         !.blocks = [k \in 1 .. MAX_BLOCKS_PER_INODE |->
                      IF k <= SPLIT_BLOCKS THEN @[k] ELSE table[i].blocks[k]],
         !.parent_inode = table[i].parent_inode]

save_inode_table ==
  /\ pc = "save"
  /\ table' = [i \in Inodes |-> FirstPart(i)]
  /\ pc' = "flush"
  /\ UNCHANGED <<inode_table, cwd_inode, bitmap, block, arg, turn, new, ret>>

\* The fflush writes the rest, and the call returns.  What fs_create returns
\* then is whatever the register holds: 0, left there by save_inode_table.
FlushTable ==
  /\ pc = "flush"
  /\ table' = inode_table
  /\ Return(0)
  /\ UNCHANGED <<inode_table, cwd_inode, bitmap, block>>

-----------------------------------------------------------------------------
(* fs_create.                                                              *)

UnusedInodes == {i \in Inodes : ~inode_table[i].used}

\* The parent does not resolve, or every inode is in use.
CreateRefused(path) ==
  /\ pc = "idle"
  /\ fs_lookup_path(ParentPath(path)) = -1 \/ UnusedInodes = {}
  /\ Return(-1)
  /\ UNCHANGED <<inode_table, cwd_inode, table, bitmap, block>>

\* Takes the first unused inode and initialises it in memory.
Create(path, type) ==
  /\ pc = "idle"
  /\ \E d \in Inodes \intersect {fs_lookup_path(ParentPath(path))}, i \in Inodes :
       /\ IsFirst(i, UnusedInodes)
       /\ inode_table' = [inode_table EXCEPT ![i] = NewInode(type, d)]
       /\ arg' = [NoArg EXCEPT !.op = "create", !.ino = i, !.dir = d, !.name = Last(path.comps)]
  /\ pc' = "insert"
  /\ UNCHANGED <<cwd_inode, table, bitmap, block, turn, new, ret>>

\* insert_into_dir: the first free slot of the directory's blocks.
InsertEntry ==
  /\ pc = "insert"
  /\ \E p \in FreeSlots(arg.dir) :
       /\ IsFirstPosition(p, FreeSlots(arg.dir))
       /\ SetSlot(arg.dir, p, [name |-> arg.name, inode_index |-> arg.ino])
  /\ pc' = "save"
  /\ UNCHANGED <<inode_table, cwd_inode, table, bitmap, arg, turn, new, ret>>

DirFull == inode_table[arg.dir].block_count >= MAX_BLOCKS_PER_INODE

\* No free slot: allocate a block for the directory ...
InsertAlloc ==
  /\ pc = "insert" /\ FreeSlots(arg.dir) = {} /\ ~DirFull
  /\ \E b \in Blocks : alloc_block(b) /\ new' = b
  /\ pc' = "attach"
  /\ UNCHANGED <<inode_table, cwd_inode, table, block, arg, turn, ret>>

\* ... and write it: a directory's first block empty, to be scanned for a slot
\* like any other; a further block with the entry in its first slot.
AttachBlock ==
  /\ pc = "attach"
  /\ LET count == inode_table[arg.dir].block_count IN
       /\ inode_table' = [inode_table EXCEPT ![arg.dir].blocks[count + 1] = new,
                                             ![arg.dir].block_count = count + 1]
       /\ block' = [block EXCEPT ![new] =
            IF count = 0 THEN EmptyBlock
            ELSE [EmptyBlock EXCEPT ![1] = [name |-> arg.name, inode_index |-> arg.ino]]]
       /\ pc' = IF count = 0 THEN "insert" ELSE "save"
  /\ new' = NoBlock
  /\ UNCHANGED <<cwd_inode, table, bitmap, arg, turn, ret>>

\* The directory is full, or the disk is: the inode is given back, in memory.
InsertFailed ==
  /\ pc = "insert" /\ FreeSlots(arg.dir) = {} /\ (DirFull \/ FreeBlocks = {})
  /\ inode_table' = [inode_table EXCEPT ![arg.ino].used = FALSE]
  /\ Return(-1)
  /\ UNCHANGED <<cwd_inode, table, bitmap, block>>

-----------------------------------------------------------------------------
(* fs_delete, and free_inode_blocks, which fs_write also calls.            *)

EntriesOf(d, i) == {p \in Positions(d) : SlotAt(d, p).inode_index = i /\ SlotAt(d, p).name # ""}

\* The root, a path that does not resolve, or an inode its parent does not list.
DeleteRefused(path) ==
  LET i == fs_lookup_path(path) IN
  /\ pc = "idle"
  /\ i > 0 => EntriesOf(inode_table[i].parent_inode, i) = {}
  /\ Return(-1)
  /\ UNCHANGED <<inode_table, cwd_inode, table, bitmap, block>>

\* The memset of remove_from_dir; the bad one leaves the name.
BadCleared(slot) == [slot EXCEPT !.inode_index = 0]
Cleared(slot) == EmptySlot

\* remove_from_dir clears the parent's first entry for the inode.
Delete(path) ==
  /\ pc = "idle"
  /\ \E i \in (Inodes \ {0}) \intersect {fs_lookup_path(path)} :
       LET parent == inode_table[i].parent_inode IN
       /\ \E p \in EntriesOf(parent, i) :
            /\ IsFirstPosition(p, EntriesOf(parent, i))
            /\ SetSlot(parent, p, Cleared(SlotAt(parent, p)))
       /\ arg' = [NoArg EXCEPT !.op = "delete", !.ino = i]
  /\ pc' = "free"
  /\ UNCHANGED <<inode_table, cwd_inode, table, bitmap, turn, new, ret>>

\* One turn of the loop of free_inode_blocks; the bad loop does not move on.
BadNextTurn(n) == n
NextTurn(n) == n + 1
FreeBlock ==
  /\ pc = "free" /\ turn < inode_table[arg.ino].block_count
  /\ free_block(inode_table[arg.ino].blocks[turn + 1])
  /\ inode_table' = [inode_table EXCEPT ![arg.ino].blocks[turn + 1] = 0]
  /\ turn' = NextTurn(turn)
  /\ UNCHANGED <<cwd_inode, table, block, pc, arg, new, ret>>

\* fs_delete goes on to mark the inode unused and save, fs_write to allocate;
\* the bad fs_delete returns without the save.
BadAfterFree(op) == IF op = "delete" THEN "idle" ELSE "alloc"
AfterFree(op) == IF op = "delete" THEN "save" ELSE "alloc"
FreeDone ==
  /\ pc = "free" /\ turn >= inode_table[arg.ino].block_count
  /\ inode_table' = [inode_table EXCEPT ![arg.ino].block_count = 0,
                                        ![arg.ino].file_size = 0,
                                        ![arg.ino].used = @ /\ arg.op # "delete"]
  /\ pc' = AfterFree(arg.op)
  /\ turn' = 0
  /\ UNCHANGED <<cwd_inode, table, bitmap, block, arg, new, ret>>

-----------------------------------------------------------------------------
(* fs_write and fs_read.                                                   *)

Writable(i) == inode_table[i].used /\ inode_table[i].type # DIR_TYPE

WriteRefused(path) ==
  LET i == fs_lookup_path(path) IN
  /\ pc = "idle"
  /\ i # -1 => ~Writable(i)
  /\ Return(-1)
  /\ UNCHANGED <<inode_table, cwd_inode, table, bitmap, block>>

Write(path, data) ==
  /\ pc = "idle"
  /\ \E i \in Inodes \intersect {fs_lookup_path(path)} :
       /\ Writable(i)
       /\ arg' = [NoArg EXCEPT !.op = "write", !.ino = i, !.data = data]
  /\ pc' = "free"
  /\ UNCHANGED <<inode_table, cwd_inode, table, bitmap, block, turn, new, ret>>

\* i < blocks_needed, which is (size + BLOCK_SIZE - 1) / BLOCK_SIZE.
MoreBlocksNeeded == turn * ENTRIES_PER_BLOCK < Len(arg.data)

WriteAlloc ==
  /\ pc = "alloc" /\ MoreBlocksNeeded
  /\ \E b \in Blocks : alloc_block(b) /\ new' = b
  /\ pc' = "put"
  /\ UNCHANGED <<inode_table, cwd_inode, table, block, arg, turn, ret>>

\* The n-th block of a text: its chunks, then zeros.  The bad one takes the
\* last chunk for zeros.
BadChunk(data, n) ==
  LET offset == (n - 1) * ENTRIES_PER_BLOCK
  IN  [s \in Slots |-> IF offset + s < Len(data) THEN TextSlot(data[offset + s]) ELSE EmptySlot]
Chunk(data, n) ==
  LET offset == (n - 1) * ENTRIES_PER_BLOCK
  IN  [s \in Slots |-> IF offset + s <= Len(data) THEN TextSlot(data[offset + s]) ELSE EmptySlot]

WriteBlock ==
  /\ pc = "put"
  /\ block' = [block EXCEPT ![new] = Chunk(arg.data, turn + 1)]
  /\ inode_table' = [inode_table EXCEPT ![arg.ino].blocks[turn + 1] = new]
  /\ pc' = "alloc" /\ turn' = turn + 1 /\ new' = NoBlock
  /\ UNCHANGED <<cwd_inode, table, bitmap, arg, ret>>

\* The disk is full: the call returns at once, without a save.
WriteFailed ==
  /\ pc = "alloc" /\ MoreBlocksNeeded /\ FreeBlocks = {}
  /\ Return(-1)
  /\ UNCHANGED <<inode_table, cwd_inode, table, bitmap, block>>

WriteDone ==
  /\ pc = "alloc" /\ ~MoreBlocksNeeded
  /\ inode_table' = [inode_table EXCEPT ![arg.ino].block_count = turn,
                                        ![arg.ino].file_size = Len(arg.data)]
  /\ pc' = "save" /\ turn' = 0
  /\ UNCHANGED <<cwd_inode, table, bitmap, block, arg, new, ret>>

\* What fs_read returns of an inode when asked for fs_get_size bytes.
fs_read(i) ==
  LET there == inode_table[i].block_count * ENTRIES_PER_BLOCK
      size == IF inode_table[i].file_size <= there THEN inode_table[i].file_size ELSE there
  IN  [n \in 1 .. size |->
        block[inode_table[i].blocks[((n - 1) \div ENTRIES_PER_BLOCK) + 1]]
             [((n - 1) % ENTRIES_PER_BLOCK) + 1].name]

-----------------------------------------------------------------------------
(* cd, exit and restart, crash.                                            *)

BadCdTarget(i) == i = -1 \/ inode_table[i].type = DIR_TYPE
CdTarget(i) == i # -1 /\ inode_table[i].type = DIR_TYPE

handle_cd(path) ==
  /\ pc = "idle"
  /\ \E i \in Inodes \union {-1} :
       /\ fs_lookup_path(path) = i
       /\ IF CdTarget(i)
          THEN cwd_inode' = i /\ ret' = 0
          ELSE ret' = -1 /\ UNCHANGED cwd_inode
  /\ UNCHANGED <<inode_table, disk, pc, arg, turn, new>>

\* The program starts: fs_init loads the saved table, main resets the cwd.
Mount == inode_table' = table' /\ cwd_inode' = 0 /\ Return(0)

\* exit (or end of input) between two commands, and the next start.
Restart == pc = "idle" /\ UNCHANGED disk /\ Mount

\* The process dies inside a call, between two writes, and is started again.
Crash == pc # "idle" /\ UNCHANGED disk /\ Mount

-----------------------------------------------------------------------------

handle_create(path) ==
  CreateRefused(path) \/ \E type \in {FILE_TYPE, DIR_TYPE} : Create(path, type)
handle_delete(path) == DeleteRefused(path) \/ Delete(path)
handle_write(path) == WriteRefused(path) \/ \E data \in Contents : Write(path, data)

\* One line of the prompt; ls, lookup and read change nothing.
Command == \E path \in Paths :
  handle_create(path) \/ handle_delete(path) \/ handle_write(path) \/ handle_cd(path)

Step ==
  \/ InsertEntry \/ InsertAlloc \/ AttachBlock \/ InsertFailed
  \/ FreeBlock \/ FreeDone
  \/ WriteAlloc \/ WriteBlock \/ WriteFailed \/ WriteDone
  \/ save_inode_table \/ FlushTable

\* One session of the program: from a mount to its exit.
SessionNext == Command \/ Step
Session == Init /\ [][SessionNext]_vars
FairSession == Session /\ WF_vars(Step)

\* Sessions that end with exit, one after the other on the same disk.
Sessions == Init /\ [][SessionNext \/ Restart]_vars

\* The program over its disk's life: sessions, restarts and crashes.
Next == SessionNext \/ Restart \/ Crash
Spec == Init /\ [][Next]_vars

-----------------------------------------------------------------------------
(* Properties.                                                             *)

TypeOK ==
  /\ inode_table \in [Inodes -> Inode] /\ table \in [Inodes -> Inode]
  /\ cwd_inode \in Inodes
  /\ bitmap \in SUBSET Blocks
  /\ block \in [Blocks -> [Slots -> DirEntry]]
  /\ pc \in {"idle", "insert", "attach", "free", "alloc", "put", "save", "flush"}
  /\ arg \in Arguments
  /\ turn \in 0 .. MAX_BLOCKS_PER_INODE
  /\ new \in Blocks \union {NoBlock}
  /\ ret \in {0, -1}

\* A path resolves to an inode of the table or to nothing, and an absolute
\* path to an inode in use: the walk of fs_lookup_path never checks used.
LookupsResolve ==
  \A path \in Paths :
    LET i == fs_lookup_path(path) IN
    /\ i \in Inodes \union {-1}
    /\ path.absolute /\ i # -1 => inode_table[i].used

\* Block 0, the superblock, is never read or written by the code.
SUPERBLOCK_BLOCK == 0

\* The bitmap and the inode table stay reserved and out of every file and
\* directory, in memory and on disk (file_system.c:89), whatever the program has
\* run and wherever it has died: also when it died between the two writes of a
\* save, which can leave an inode with a stale part of its block array.
OutsideMetadata(b) == b = SUPERBLOCK_BLOCK \/ b >= FIRST_DATA_BLOCK
MetadataProtected ==
  /\ \A b \in Blocks : OutsideMetadata(b) \/ b \in bitmap
  /\ \A t \in {inode_table, table} : \A i \in Inodes :
       \A k \in 1 .. t[i].block_count : OutsideMetadata(t[i].blocks[k])

\* Inode 0 is the root directory, in memory and on disk, in every state: every
\* absolute path, and the next mount, start there.
RootIntact ==
  \A t \in {inode_table, table} : t[0].used /\ t[0].type = DIR_TYPE /\ t[0].parent_inode = 0

\* The entries of an inode's block array that hold a block of its: those below
\* block_count; of the inode the running call empties or fills, those that its
\* loop has not yet freed, or has already filled.
Held(i) ==
  IF pc = "free" /\ arg.ino = i THEN turn + 1 .. inode_table[i].block_count
  ELSE IF pc \in {"alloc", "put"} /\ arg.ino = i THEN 1 .. turn
  ELSE 1 .. inode_table[i].block_count

\* No block is in two places, in two inodes, twice in one, or in an inode and
\* in the hand of the running call, and each is an allocated data block: what
\* a file writes or frees is never another's, nor metadata.
NoSharedBlock ==
  /\ \A i, j \in Inodes : \A k \in Held(i), l \in Held(j) :
       inode_table[i].blocks[k] = inode_table[j].blocks[l] => i = j /\ k = l
  /\ \A i \in Inodes : \A k \in Held(i) :
       LET b == inode_table[i].blocks[k] IN
       b \in bitmap /\ b >= FIRST_DATA_BLOCK /\ b # new

\* The directory entries among the slots an inode owns.
Entries(d) == {p \in Positions(d) : SlotAt(d, p).name \in Components \ {""}}

\* An entry always names an inode in use, and the inode has it as its only
\* entry, in the directory it calls its parent: fs_create and fs_delete keep
\* the names and the inodes in step, although neither looks for the other's work.
\* Of sessions, and as long as no text reads as an entry of an inode but the root.
EntriesMatchInodes ==
  \A d \in Inodes : \A p \in Entries(d) :
    LET i == SlotAt(d, p).inode_index IN
    /\ i \in Inodes /\ inode_table[i].used
    /\ inode_table[i].parent_inode = d
    /\ \A q \in Entries(d) : SlotAt(d, q).inode_index = i => q = p

\* What a table says of an inode, without what it no longer means.
Meaning(t, i) ==
  IF t[i].used
  THEN [t[i] EXCEPT !.blocks = [k \in 1 .. t[i].block_count |-> @[k]]]
  ELSE UnusedInode

\* Memory and disk agree on every inode in use that the running call has not
\* touched, but for the files of failed writes: emptied in memory, and on
\* disk still holding the blocks that fs_write had freed (file_system.c:556).
UnsavedOnlyByFailedWrite ==
  \A i \in Inodes : Meaning(inode_table, i) # Meaning(table, i) =>
    \/ pc # "idle" /\ i \in {arg.ino, arg.dir}
    \/ /\ inode_table[i].used /\ inode_table[i].type = FILE_TYPE
       /\ inode_table[i].block_count = 0 /\ inode_table[i].file_size = 0

\* The file contents a session shows, as fs_read returns them.  A file whose
\* old blocks are being freed counts as empty.
Content ==
  [i \in Inodes |->
    IF ~inode_table[i].used \/ inode_table[i].type = DIR_TYPE THEN {}
    ELSE {IF pc = "free" /\ arg.ino = i THEN <<>> ELSE fs_read(i)}]

\* Within a session the files are a FileStore: reading a file gives what was
\* last written to it, whole, or nothing if that write failed, whatever
\* happened to other files and to directories in between.  It needs that no text
\* reads as an entry of an inode but the root: fs_delete would clear its slot.
Writing ==
  IF arg.op = "write" /\ pc \in {"free", "alloc", "put"} THEN {<<arg.ino, arg.data>>} ELSE {}
Store == INSTANCE FileStore WITH content <- Content, writing <- Writing
ImplementsFileStore == Store!Spec

\* Every call returns.
CallsReturn == (pc # "idle") ~> (pc = "idle")

-----------------------------------------------------------------------------
(* What the repository says of the program and the program does not do: a  *)
(* run of each shows how (see README.md).                                  *)

\* testfilesystem.c:86, "Lookup after delete (should be -1)".
LookupAfterDelete ==
  [][\A path \in Paths : Delete(path) => fs_lookup_path(path)' = -1]_vars

\* README.md:25, "Persistent storage across mounts": an orderly exit and the
\* next start change nothing.
MountsPersist ==
  [][Restart => \A i \in Inodes : Meaning(inode_table, i)' = Meaning(inode_table, i)]_vars

\* README.md:81, "Managing free and used disk blocks with a bitmap"; and
\* file_system.c:515, "Frees all data blocks owned by inode": a block belongs to
\* one inode, also after a crash and a restart.
BlocksHaveOneOwner ==
  pc = "idle" => \A i, j \in Inodes : \A k \in Held(i), l \in Held(j) :
    inode_table[i].blocks[k] = inode_table[j].blocks[l] => i = j /\ k = l

=============================================================================
