# Snapshot File System: a TLA+ model

The repository is a file system in one disk image (`disk.dat`), with a small
git-like version control on top of it, both driven by one command loop. This
directory holds TLA+ modules that model both, TLC runs that check them on small
instances, and theorems about them proved with TLAPS. `PROJECT.json` lists
components, runs, the source lines of every definition, the hazards of the code,
the findings and the theorems.

Lines are those of the repository's files; `file_system.c:555` is
`src/filesystem/file_system.c`, line 555.

## 1. The system

| Component | State it keeps | Operations | Uses |
|---|---|---|---|
| Block bitmap (`filestructures/bitmap.c`) | none: works on a buffer it is given | get, set, clear, find first free, allocate, free | |
| Block device (`filestructures/block_operations.c`) | the disk image; block 2 is the bitmap | `read_block`, `write_block` (seek, write, flush), `alloc_block`, `free_block` (read bitmap, change a bit, write it) | bitmap |
| Files and directories (`filesystem/file_system.c`) | in memory: the inode table, `cwd_inode`; on disk: the inode table, directory blocks, file blocks | `fs_create`, `fs_delete`, `fs_write`, `fs_read`, `fs_ls`, `fs_lookup_path`, `fs_get_size` | block device |
| Formatting and mounting (`mkfs`, `fs_init`) | the same | zero the image, set the metadata bits, write the table with the root; or load the table | block device |
| Command loop (`main.c`, `command_handlers.c`) | none | one command per line: create, ls, write, read, delete, lookup, cd, exit, init, commit, log, checkout | all |
| Version control (`vcs/*.c`) | files: `/.vcs/HEAD`, `/.vcs/NEXT`, `/.vcs/commits/<id>/{tree,meta}` | `vcs_init`, `vcs_commit`, `vcs_log`, `vcs_checkout` | files and directories, by path |

Components interact by plain calls on one global `FileSystem fs`. There is one
thread, so nothing interleaves with a call; what makes the code hard is

* **a call is several writes.** Each `write_block` is flushed on its own
  (`block_operations.c:54`), each bitmap change is its own read-modify-write,
  and the inode table is saved last. A crash can fall between any two;
* **the save itself is two writes.** The table has 128 x 48 = 6144 bytes and the
  stream's buffer 4096, so the `fwrite` of `save_inode_table` reaches the file
  as one write of 4096 bytes and, at the `fflush`, one of 2048. The cut falls in
  inode 85, between entries 2 and 3 of its block array;
* **memory and disk drift apart.** A write that fails returns without a save,
  and has by then changed the file in memory and the bitmap on disk;
* **limits.** 128 inodes, 1024 blocks, 16 blocks per inode, 15 entries per
  block: every call has a path on which a limit is hit halfway;
* **what the code does not look at.** A path walk never asks whether an inode is
  in use; create asks neither for an equal name nor for a directory as parent;
  delete asks neither whether a directory is empty nor whether it is the working
  directory;
* **multi-call protocols.** commit and checkout are long sequences of such calls
  with no undo, and their state is itself stored in files.

What makes each component correct:

* block layer: an allocated block was free and is marked before it is used; a
  release frees one block; metadata blocks are never handed out;
* files and directories: a block has one owner; names and inodes stay in step; a
  path resolves to an inode in use or to nothing; a file holds what was last
  written to it; the root and the metadata survive everything; every call ends;
* mounting: once `mkfs` has put its root on the disk, the disk is whole and every
  later start mounts it; a disk without a root is made whole before it is used;
  a restart changes nothing that was done;
* version control: a commit's tree is the working tree at its commit and never
  changes; checkout brings it back, whole, or leaves the working tree alone;
  HEAD names a complete commit; the parents form a chain that ends.

## 2. Modules

| Module | What it is |
|---|---|
| `BlockAllocator` | the block layer as a set of allocated blocks; also the abstract specification of it |
| `BlockOperations` | the same on the bytes of the bitmap block; implements `BlockAllocator` |
| `FileSystem` | files, directories, paths, save, restart, crash; extends `BlockAllocator` |
| `FileStore` | abstract specification of file contents; implemented by a session of `FileSystem` |
| `Mount` | the life of a disk image: `mkfs` and `fs_init` around the sessions of `FileSystem`; extends it |
| `VersionControl` | init, commit, checkout and log as sequences of file-system calls; extends `FileSystem` |
| `SnapshotStore` | abstract specification of version control; implemented by careful use of `VersionControl` |
| `MCFileSystem`, `MCMount`, `MCVersionControl` | inputs of the runs |
| `FileSystemProofs` | types, root and metadata, for the whole life of a formatted disk |
| `BlockOperationsProofs` | the bytes of the bitmap implement a set of blocks |
| `DiskProofs` | block ownership, within a session; what memory knows and the disk does not |
| `FileStoreProofs` | a session implements `FileStore` |
| `EntriesProofs` | names and inodes stay in step, within a session; paths resolve |
| `MountProofs` | types, root, metadata and unsaved writes from before `mkfs` |
| `SnapshotStoreProofs` | what the abstract version control guarantees |
| `VersionControlProofs` | the steps of version control: the file system stays whole, nothing in `/.vcs` is lost, HEAD names a commit that has a tree |

### How `FileSystem` corresponds to the code

| Variable | In the code |
|---|---|
| `inode_table`, `cwd_inode` | the fields of `FileSystem fs` |
| `table` | the inode table's blocks in the image |
| `bitmap` | the bits set in the bitmap block (it is re-read at every use, so memory has no copy) |
| `block` | the data blocks, cut into directory slots |
| `pc`, `arg`, `turn`, `new` | where the running call is, its arguments after path resolution, its loop counter, and the block `alloc_block` has just returned to it |
| `ret` | the last call's return value |

An action is the code from one write that reaches the disk to the next. A call
is a chain of them:

* `fs_create`: `Create` (resolve the parent, take and initialise the first
  unused inode), `InsertEntry`, or `InsertAlloc` then `AttachBlock` (a
  directory's first block is written empty and scanned again; a further block is
  written with the entry in it), then the save; `CreateRefused` and
  `InsertFailed` are its error returns;
* `fs_delete`: `Delete` (clears the first entry of the inode in its parent),
  `FreeBlock` once per block, `FreeDone`, the save; `DeleteRefused`;
* `fs_write`: `Write`, `FreeBlock`..., `FreeDone`, then `WriteAlloc` and
  `WriteBlock` once per block, `WriteDone`, the save; `WriteRefused`,
  `WriteFailed`;
* the save: `save_inode_table` (first write), `FlushTable` (second write and
  return).

`handle_cd` changes memory only. `Restart` is an exit between two commands and
the next start, `Crash` a death inside a call and the next start: both reload
the table that is on disk (`Mount` takes the two apart). `fs_ls`,
`fs_lookup_path` and `fs_read` change nothing; the latter two are operators.

### How `Mount` corresponds to the code

`FileSystem` starts on a formatted disk. `Mount` adds `program` (what the
process is doing: off, inside `mkfs`, running, running with no disk open) and
`length` (the blocks in `disk.dat`, or no file). Its actions are the writes
of `mkfs` in their order (`StartMkfs`, the `fopen` that leaves an empty file;
`ZeroBlock`; `WriteBitmap`; `SaveRoot`, the two writes of the first save) and
the outcomes of `fs_init` (`LoadFails`: `fread` finds less than the table, and
`main` runs on without a disk; `LoadTable`: a table with a root or without one).
`Stop` is an exit, or a death between any two writes, of `mkfs` too. A seek
before each block of zeros makes the stream write out the block before, so the
image grows block by block.

`Run` is a step of a session of `FileSystem`, on *any* disk that loads: `main`
ignores what `fs_init` returns and looks for no root. On a disk without one the
first create takes inode 0, and as `mkfs` died before the bitmap, no block is
reserved: blocks 0, 1, 2 and on are handed out, and a write past the end of a
short image makes it longer. The block a call writes right after its allocation
can then be one of the bitmap or of the inode table (`DATA_BITMAP_BLOCK ..
FIRST_DATA_BLOCK - 1`). `OverwriteMetadata` stands for that write, and there the
model ends: `program` is `overwritten` for good, because what the program reads
after it is bytes of one kind as another. `v_MetadataReserved` is the way there.

### How `VersionControl` corresponds to the code

The code's recursion is a list of jobs, `todo`. A job stands for one call of the
source (`vcs_ensure_exists`, one `fs_write`, `copy_file`, `copy_tree`,
`delete_tree`, `write_meta`, one turn of `vcs_log`'s loop): it starts one call
of `FileSystem`, whose steps then run to the call's end, or it puts further jobs
in its own place. The first job that fails empties the list, as every error
return of the source does: nothing is undone. `command` is the running command
with its commit's number, `typed` counts commands.

All repository state is in the modelled files: HEAD and NEXT hold a text per
number (`IdText`), a meta file is the id and, if there is one, the parent, which
is what log reads of it. The order of things is the source's: a source directory
is resolved before its copy is created and listed after; a file is read before
its copy is created; `vcs_ensure_exists` takes whatever the path resolves to and
ignores what `fs_create` returned; the parent is what HEAD holds when the meta
file is written; checkout looks only for the tree directory; HEAD is written
before NEXT.

Three users drive it. `VcsSession` types any command at any time, with any path
of the instance, relative ones too, and `cd` between. `TreeUserSpec` is a user
who creates, writes and deletes by absolute paths outside `/.vcs` alone
(`TreeFiles`: no `.`, `..` or empty component either), and may `cd` anywhere; and
the program is killed between two calls and started again (`DieAndRestart`),
where memory and disk agree: elsewhere the restart itself loses data, which is
the matter of `life` and `v_MountsPersist`. `CarefulUse` names files in the same
way, runs init first and once, creates no name twice, and does not `cd`. The
code enforces none of this: `v_CommitsKeepTrees` shows what a relative path from
a deleted working directory does, so what is checked and proved of
`TreeUserSpec` is claimed of that user only.

### What is abstracted

* **Sizes.** A block is `ENTRIES_PER_BLOCK` slots; a slot is a directory entry
  or one chunk of text. File sizes count chunks, so every boundary (an empty
  text, a block exactly full, one chunk more) is there with two slots per block.
* **Text read as entries.** Directory scans do not look at the type of the inode
  whose blocks they read, and create may be pointed at a file. A chunk of text
  is then an entry whose name is the chunk, which no user types as a name, and
  whose inode number is `TextInode[chunk]`: two characters of text, in nearly
  all cases no inode's number; 0 when the text ends before them. (A newline as
  the 33rd byte of a slot with the text's end right behind it reads as inode 10;
  the constant covers it, the runs use -1 and 0.) A walk that follows such a
  number leaves the inode array.
* **The cut of a save** is `SPLIT_INODE` and `SPLIT_BLOCKS`: 85 and 3 in the
  program. The theorems hold for every cut; the runs cut in inode 1.
* **The return value of a successful `fs_create`**, which has no `return`
  (`file_system.c:383`), is 0: the register still holds what `save_inode_table`
  returned, as the repository's build without optimisation compiles it.
* **Not modelled:** failing reads and writes of the image; names longer than 31
  characters, paths and texts longer than the buffers they are copied to
  (`InputsAssumption` keeps inputs inside them); the text of listings and
  messages. `fs_cd` duplicates `handle_cd` and nothing calls it.
* **In `VersionControl`:** the message of a commit, the lengths of paths and
  buffers, and the wording of what is printed. Commit numbers end at `MaxId` and
  commands at `MaxCommands`; both are guards of the commands, so the runs stop
  there (`CHECK_DEADLOCK FALSE`).

## 3. Runs

| Run | Instance | What it shows |
|---|---|---|
| `block_operations` | 2 bytes, 11 blocks, 3 reserved | allocation and release on the bytes are those of `BlockAllocator`; bits behind the last block stay clear; -1 means full |
| `session` | 3 inodes, 4 blocks (1 reserved), 2 slots per block, 2 blocks per inode, 5 paths, 3 texts | `LookupsResolve`, `NoSharedBlock`, `EntriesMatchInodes`, refinement of `FileStore`, termination |
| `life` | 3 inodes, 4 blocks (2 reserved), 1 slot per block, 1 block per inode, the save cut at inode 1 | `TypeOK`, `UnsavedOnlyByFailedWrite`, `FormattedForever` from an image that does not exist, with deaths at every write, and sessions on a disk left without a root |
| `snapshots` | 18 inodes, 22 blocks, 2 commit numbers, 6 commands; paths `/a`, `/a/b` | refinement of `SnapshotStore`, every command ends (`CommandsEnd`), commits and checkouts with HEAD at their commit (`CommandsSucceed`) |
| `commits` | 10 inodes, 12 blocks, 2 commit numbers, 6 commands, `cd`s or deaths; path `/a` | for the user of `TreeUserSpec`: `HeadHasTree`, `HeadFollowsCopy`, `TreesKept` whatever fails on the way |
| `v_*` | as above, smaller | see section 5 |

**What the version control properties say.** `ImplementsSnapshotStore`: seen
from outside, a commit takes a picture of the working tree that no later step
changes, its parent is the commit HEAD named, and HEAD moves only to a commit
that equals the working tree. `CommandsSucceed`: with room for all of it, a
commit or a checkout gets as far as HEAD; a commit that copied `.vcs` too would
copy its own copy until the disk is full. `HeadFollowsCopy` is what is left of
the refinement when things fail: when HEAD is set to a commit, every file of the
working tree is in that commit's tree, and after a checkout the two are equal.
`HeadHasTree`: HEAD
names a tree that exists, so checkout of it finds one. `TreesKept`: only a
commit of that number touches a commit's tree, only the user and checkout touch
the working tree. The last three are about the user of `TreeUserSpec`.

**What `FormattedForever` says.** When the first save of `mkfs` has put the root
on the disk (`JustFormatted`), the disk is `Whole` from then on: its length, the
root in memory and on disk, the reserved bits, no metadata block in a file, no
start that refuses it or formats it. It is stated from that save on and not of
every disk with a used inode 0, as a command on a disk without a root can make
one of those too.

**Why these bounds are enough.** In `session`, three inodes are the root and two
others: two files, a directory and a file in it, a file with an entry below it,
and the table full. The five paths are an absolute and a relative name, a name
one level down, an empty last component and `..`. Three free blocks let two
inodes own blocks, let the disk fill in the first and in the second turn of a
write, and let a directory take its second block; two slots per block let a
directory block be partly full and a last block half used. In `life` the disk's
copy of the table is a second table and every state of a call a place to die, so
blocks have one slot and inodes one block: with one free block more than the
root needs, writes fail, directories are full, and a first block is written
before the save and after. One of the two reserved blocks is metadata
(`DATA_BITMAP_BLOCK = 1`) and block 0 is not, as in the program, where blocks 0
and 1 come before the bitmap. The cut at inode 1 puts the root and a file on
different sides. `snapshots` has room for `.vcs`, two full commits of a
directory with a file in it, and the working tree, so nothing fails; six
commands are init, an edit, a commit, an edit, a commit and a checkout or a log,
in every order. In `commits` the second commit runs out of inodes or blocks
somewhere on its way, the disk having room for 9 inodes beside the root: `.vcs`,
`commits`, HEAD, NEXT, one commit with a file (directory, tree, meta, copy), and
the file itself; and a directory of three entries is full, as blocks have three
slots and inodes one block. Six commands are what the known bad histories need
(a failed commit, its checkout, room made, the next commit). Nothing else is
capped: the file system's own state is finite as it is.

**Deadlock** is checked in `block_operations`, `session`, `life` and their
counterexample runs: a state with no successor would be a call that can neither
continue nor fail. The version control runs stop at their bound on commands.

**Fairness.** `FairSession` assumes WF(Step), `CarefulUse` and `FairVcsSession`
WF(Progress), and none of them anything of the commands: the program has one
thread, and once a call or a command has begun it runs on as long as it can.
`CallsReturn` and `CommandsEnd` are about loops that end, and a death of the
program would end any, so they are stated of sessions without one.

## 4. Proofs

All proofs are checked by TLAPS (SMT, Zenon, LS4), for all values of the
constants that satisfy `BlocksAssumption`, `SizesAssumption`, `TextAssumption`
and `InputsAssumption`; of `Mount` also `LayoutAssumption` (the bitmap and the
table are behind block 0), and of version control `IdsAssumption`: the names of
two commits differ and are none of `.vcs`, `.` and `..`, and a meta file's two
lines fit a file.

* `OnlyBlocksEverMarked`, `AllocAlwaysReturns`, `BytesImplementAllocator`: of
  `BlockOperations`, for every number of blocks that fit the bitmap block. What
  the bytes hold is a set of blocks because a mask changes one bit of a byte and
  not its seven neighbours (`SetLemma`, `ClearLemma`, which rest on the eight
  powers of two), and the allocator takes the first free block because the scan
  stops at the first clear bit below `total_bits` (`ScanLemma`). No invariant is
  needed beyond `OnlyBlocksAreMarked`: the bits behind the last block are clear,
  so it is the bound of the scan, and the range check of `bitmap_free`, that keep
  them out of the set.
* `TypeCorrect`: `Spec => []TypeOK`. `TypeOK` alone is not inductive: that a
  block array is never written past its end follows from what the running call
  checked a step earlier. `TypeInv` adds it (`CallOK`): the text fits the array
  (`InputsAssumption`), in `attach` the directory is not full, in `put` the text
  still needs a block, and in both the call has a block in hand.
* `RootAlwaysIntact`: `Spec => []RootIntact`. The invariant (`RootInv`) adds
  that the inode of a running create or delete is not 0: inode 0 is never
  unused, so never handed out, and `fs_delete` refuses it. This holds of both
  tables, so a crash, which copies one to the other, and a save cut in two,
  which mixes them inode by inode, keep it.
* `MetadataAlwaysProtected`: `Spec => []MetadataProtected`. The invariant adds
  that *every* entry of every block array, also behind `block_count`, is 0 or a
  data block: a torn save brings exactly these entries to life. The number of
  block 0 is the reason the property excepts it.
* `BlocksNeverShared`: `Session => []NoSharedBlock`. The invariant
  (`OwnershipInv`) states ownership for the blocks of the array that still count
  while a call empties or refills it (`Held`), and for the block in the call's
  hand (`new`). It is stated of sessions because a crash breaks it (section 5,
  `BlocksHaveOneOwner`).
* `UnsavedOnlyFailedWrites`: `Spec => []UnsavedOnlyByFailedWrite`. What must be
  known is what each place of a call may still give up with: where `fs_create`
  can fail for want of a slot (`insert`), its inode is unused on disk, and its
  directory is as on disk or has a free slot, so that the call does not fail;
  where `fs_write` can fail (`alloc`), its file is empty in memory
  (`UnsavedInv`). A torn save followed by a restart keeps it, as the first write
  of a save changes no inode on which memory and disk agree (`FirstPartAgrees`).
* `SessionsStoreFiles`: `Session => ImplementsFileStore`, under the further
  assumption `TextsAreNoEntries`, that no text reads as an entry of an inode but
  the root (section 5, last item). The invariant (`FilesInv`) says that a file
  that is not losing its blocks is whole: as many blocks as its size needs, and
  text in every slot below it, so that no entry is put or cleared there; and that
  a write has put its chunks into the blocks it has filled so far. A step on one
  file leaves another's slots alone because no block is shared (`OwnershipInv`).
* `SessionsMatchEntries`: `Session => []EntriesMatchInodes`, under the same
  assumption. The invariant (`EntriesInv`) adds what a running call has done of
  its two halves: the inode of a create has no entry until the last step, that
  of a delete none from the first one on, and an inode that is losing its
  blocks names block 0 in their place, which stays empty.
* `SessionsResolvePaths`: `Session => []LookupsResolve`, under the same
  assumption, by induction over the components of a path. A walk from the root
  visits only inodes in use, and parents of those: an entry names an inode in
  use whose parent is the directory that has the entry, so `..` leads back to
  where the walk has been. The library's induction theorems cannot be
  instantiated with an operator; `InductionLemma` states induction over a *set*
  of numbers instead, and follows from the well-foundedness of `<`
  (`LeastElement`), and `RecursionLemma` gives the recursive function of a walk.
* `LifeTypeCorrect`, `LifeUnsavedOnlyFailedWrites`, `FormattedDiskStays`: of
  `MountSpec`, so from before `mkfs`, for a death inside it, and for sessions on
  the disk it leaves then. `MountInv` carries the types through all of that, and
  `UnsavedInv` is kept with it (`StepLifeUnsaved`): both hold on any table that
  loads, with a root or without, and need no reserved block. `MountInv` also says
  what each write of `mkfs` relies on: blank tables until the bitmap is written,
  and a full-length image, reserved metadata and a root in memory when the root
  is saved, so that the first write with inode 0 in it makes the disk whole
  (`JustFormattedWhole`). From there `WholeInv` adds the invariants of
  `RootAlwaysIntact` and `MetadataAlwaysProtected`: a call then never has a block
  of the metadata or past the image in its hand (`NewBlockInside`), so
  `overwritten` is out of reach. A session without a root does reach it.
* `HistoriesAlwaysEnd`: of `SnapshotStore`, for positive ids. That every history
  ends is an invariant over all sets of snapshots: each has a member without a
  parent in the set. A new snapshot is nobody's parent and its own is an older
  one. Through `ImplementsSnapshotStore` this is what careful use of the program
  can count on; `LogEnds` shows what careless use does to it.

* `HeadHasTreeAlways`: `TreeUserSpec => []HeadHasTree`, for a user who creates,
  writes and deletes by absolute paths outside `/.vcs`, wherever `cd` has led,
  whatever fails, and with deaths between two calls, under `TextsAreNoEntries`.
  Without that scope it is false, as `v_CommitsKeepTrees` shows: a relative path
  can reach a commit's directory through a stale `cwd_inode`. No path of that
  user or of version control starts at `cwd_inode`, so `cd` is one more call
  that changes no entry and no text (`Quiet`). The argument has three layers. *The file system:* what one step does to the
  entries of a directory (`ChangeLemma`): none is new but that of a running
  create, none goes but that of a delete. *The repository:* everything version
  control has the file system do (`FsStep`) deletes outside `/.vcs` only, creates
  inside it only names that do not resolve, and writes to HEAD only a text that
  is empty or names a commit with a tree. So no path into `/.vcs` ever stops
  leading where it leads (`ThereStays`), names inside are unique (`OneEntry`),
  and HEAD stays good while a write empties and refills it (`HeadInv`); together
  with `SessionInv` this is `RepositoryInv`. A restart keeps it where the disk
  has all that memory has (`RestoredRepositoryInv`). *The commands:* in every
  list of jobs, the job that sets HEAD to a commit comes after one that ends the
  command unless the commit's tree resolves, or the tree is there already
  (`Guarded`, `JobsInv`); the jobs a job puts in its own place set no HEAD and
  assure what the job assured (`ContinueLemma`). That the copies and deletions
  stay where they should needs the names a directory lists (`ListedNames`): none
  is `.`, `..` or, below the root, `.vcs`.
* `RepositoryStaysWhole`: the same invariant, for `TypeOK`, `NoSharedBlock` and
  `EntriesMatchInodes`, for the same user.

Only model-checked:

* the refinement of `SnapshotStore`, `CommandsSucceed`, `HeadFollowsCopy` and
  `TreesKept`: they compare the contents of whole trees, or count what fits;
* `CallsReturn` and `CommandsEnd`: liveness.

## 5. Where the program departs from what the repository says

Each of these is a run that TLC ends with a counterexample; the shortest traces
in words:

* `LookupAfterDelete` (`testfilesystem.c:86`): create `/a`, create `/a`, delete
  `/a`; `/a` still resolves.
* `MountsPersist` (`README.md:25`): a write over a file that had blocks fails on
  a full disk. It fails only when no block is free, so it has itself taken all
  blocks it freed; exit and restart bring back the file's old size and block
  list, and the blocks hold what the failed write put there.
* `BlocksHaveOneOwner` (`README.md:81`, `file_system.c:515`): delete or rewrite a
  file and die between the release of its blocks and the save; after the restart
  it still lists them, and the next call that needs a block is given one. In the
  run this is the root, which needs a second block of entries; with more room it
  may be another file's write.
* `MetadataReserved` (`file_system.c:89`): die in `mkfs` when the blocks of the
  inode table are zeroed and the bitmap is not written; start again: the table
  loads, and nothing is reserved. Creates and writes get blocks 0, 1, 2, ... and
  with them the bitmap and the table (`README.md:84` wants "Protecting filesystem
  metadata from being overwritten"). In the run there is one block before the
  metadata: a first create takes it and dies before its save, a second one takes
  the next.
* `CommitsKeepTrees` (`README.md:7`): init; create directory `/a`, cd to it,
  delete it; commit. The commit's directory gets the freed inode and is now the
  working directory; `delete tree` deletes the tree of the commit, which no
  checkout can bring back.
* `CommitIsSnapshot` (`commit.c:260`): a commit fails after it has copied a
  file; delete the file and commit again. The number and the tree are the same,
  and the file is in it.
* `LogEnds` (`log.c:59`): a commit fails after it has made its tree directory;
  check it out, so that HEAD has its number; commit again. The new commit's
  parent is itself, and log does not end.

Departures of the same kind that have no run of their own:

* `fs_create` inserts an entry into a file (create file `/a`, create `/a/b`):
  its blocks are read and written as directory blocks. `session` has such
  inputs, and its properties hold with them.
* A write that fails on a full disk keeps the blocks it got: they are owned by
  nobody and never free again.
* A file grows, and the program dies between the two writes of the save: the
  file has block 0 in its list, and deleting it frees block 0.
  `MetadataProtected` says how far this goes: never to the bitmap or the inode
  table.
* `mkfs` killed before the blocks of the inode table are zeroed leaves a file
  that no start can load and none replaces, as `fs_init` formats only when
  `fopen` fails (against `file_system.c:121`, "Loads existing disk or creates new
  one"): `LoadFails`, at every start from then on. Killed a little later, it is
  the beginning of `MetadataReserved`.
* Deleting the working directory leaves `cwd_inode` on a free inode, later on
  whatever gets it, a file too (against `file_system.c:505`, "Must be
  directory"): the beginning of `CommitsKeepTrees`.
* A directory with entries can be deleted; its children stay in use and out of
  reach, with a free inode for a parent.
* `remove_from_dir` (`file_system.c:439`) clears the first slot that reads as an
  entry of the inode, in the text of a file too. A text whose last chunk ends in
  its 33rd byte, a newline, reads as inode 10. Create file `/a` and write such a
  text; create directory `/b`, which has inode 10, cd to it and delete it;
  create `/a/b`, which gets inode 10 again; delete `.`. The text's slot is
  cleared, and the entry remains with a free inode. So `EntriesMatchInodes` and
  `ImplementsFileStore` are checked with texts that read as the root or as no
  inode, and proved under that assumption.

## 6. Not modelled

* Failing reads and writes of the image, and a full host disk.
* What the program does once it has written over its own bitmap or inode table,
  and commands with no disk open, which reach no file: `Mount` shows that the
  program gets there, and stops. Version control on a disk without a root:
  `VersionControl` starts on a formatted one.
* A death of the program inside a call of version control, and a death where
  memory is ahead of the disk: between them `life` covers the file system's part
  and `commits` the deaths between two calls.
* In version control: entries named `.` and `..` (`fs_create` makes them when
  asked), checkout of names that no commit has
  given, and lengths: a copy's path is longer than the original's, and one that
  does not fit 256 characters makes every commit fail.
* The tests, of which `testfilesystem.c` is commented out as a whole, and the
  committed build products.
