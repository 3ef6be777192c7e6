-------------------------------- MODULE Mount --------------------------------
(***************************************************************************)
(* The life of a disk image from before it exists: mkfs and fs_init of     *)
(* filesystem/file_system.c around the sessions of FileSystem.             *)
(*                                                                         *)
(* FileSystem starts on a formatted disk and takes the end of the program  *)
(* and its next start for one step.  Here the image may be missing, too    *)
(* short or without a root directory when the program starts, because mkfs *)
(* writes it block by block and may die anywhere; main ignores what        *)
(* fs_init returns and takes commands on whatever there is.                *)
(***************************************************************************)
EXTENDS FileSystem

CONSTANT DATA_BITMAP_BLOCK  \* the first of the blocks that hold bitmap and table
ASSUME LayoutAssumption == DATA_BITMAP_BLOCK \in 1 .. FIRST_DATA_BLOCK - 1

VARIABLES
  program,  \* "off", formatting ("zeroing", "saving"), "running", running with
            \*   "no disk" open, or with its own metadata "overwritten"
  length    \* blocks in disk.dat, NoFile when there is none

NoFile == -1
mount_vars == <<vars, program, length>>

BlankTable == [i \in Inodes |-> UnusedInode]
RootTable == [BlankTable EXCEPT ![0] = NewInode(DIR_TYPE, 0)]
BlankBlocks == [b \in Blocks |-> EmptyBlock]

MountInit ==
  /\ inode_table = BlankTable /\ cwd_inode = 0
  /\ table = BlankTable /\ bitmap = {} /\ block = BlankBlocks
  /\ pc = "idle" /\ arg = NoArg /\ turn = 0 /\ new = NoBlock /\ ret = 0
  /\ program = "off" /\ length = NoFile

-----------------------------------------------------------------------------
(* mkfs.                                                                   *)

\* fs_init makes a new disk only when it cannot open one; the bad one always.
BadOpensNew == TRUE
OpensNew == length = NoFile

\* fopen "w+b" leaves an empty file.
StartMkfs ==
  /\ program = "off" /\ OpensNew
  /\ program' = "zeroing" /\ length' = 0
  /\ table' = BlankTable /\ bitmap' = {} /\ block' = BlankBlocks
  /\ inode_table' = BlankTable /\ cwd_inode' = 0
  /\ UNCHANGED call

\* The seek to a block writes out the block before.
ZeroBlock ==
  /\ program = "zeroing" /\ length < TOTAL_BLOCKS
  /\ length' = length + 1
  /\ UNCHANGED <<vars, program>>

\* The bitmap is flushed before the root is made in memory and saved.
WriteBitmap ==
  /\ program = "zeroing" /\ length = TOTAL_BLOCKS
  /\ bitmap' = MetadataBits
  /\ inode_table' = RootTable
  /\ pc' = "save" /\ program' = "saving"
  /\ UNCHANGED <<cwd_inode, table, block, arg, turn, new, ret, length>>

SaveRoot ==
  /\ program = "saving"
  /\ save_inode_table \/ FlushTable
  /\ program' = IF pc' = "idle" THEN "running" ELSE "saving"
  /\ UNCHANGED length

-----------------------------------------------------------------------------
(* fs_init of an existing file, a session, the end of the program.         *)

\* fread finds less than the whole table: the program runs on with fs.disk
\* NULL and an empty table, creates nothing and reaches no file.
LoadFails ==
  /\ program = "off" /\ ~OpensNew /\ length < FIRST_DATA_BLOCK
  /\ program' = "no disk"
  /\ UNCHANGED <<vars, length>>

\* Stop has put the saved table in memory already, with a root or without.
LoadTable ==
  /\ program = "off" /\ ~OpensNew /\ length >= FIRST_DATA_BLOCK
  /\ program' = "running"
  /\ UNCHANGED <<vars, length>>

\* The two steps that write a block the call has just allocated: past the end
\* of a short image they make it longer ...
WritesNewBlock == pc \in {"attach", "put"}
Run ==
  /\ program = "running"
  /\ ~(WritesNewBlock /\ new \in DATA_BITMAP_BLOCK .. FIRST_DATA_BLOCK - 1)
  /\ SessionNext
  /\ length' = IF WritesNewBlock /\ new >= length THEN new + 1 ELSE length
  /\ UNCHANGED program

\* ... and where no bit is set for it, the block is the bitmap's or the table's.
\* The program runs on, but what it then reads there is not modelled.
OverwriteMetadata ==
  /\ program = "running" /\ WritesNewBlock
  /\ new \in DATA_BITMAP_BLOCK .. FIRST_DATA_BLOCK - 1
  /\ program' = "overwritten"
  /\ UNCHANGED <<vars, length>>
Overwritten == program = "overwritten" /\ UNCHANGED mount_vars

\* exit, or a death anywhere.
Stop ==
  /\ program \notin {"off", "overwritten"} /\ program' = "off"
  /\ Restart \/ Crash
  /\ UNCHANGED length

MountNext ==
  \/ StartMkfs \/ ZeroBlock \/ WriteBitmap \/ SaveRoot
  \/ LoadFails \/ LoadTable \/ Run \/ OverwriteMetadata \/ Overwritten \/ Stop
MountSpec == MountInit /\ [][MountNext]_mount_vars

-----------------------------------------------------------------------------
(* Properties.                                                             *)

\* The first save of mkfs has put the root on disk, in one write or two.
JustFormatted == program = "saving" /\ table[0].used

\* The image has its length, a root in memory and on disk, and bits for its
\* metadata, which are in no file; whoever starts on it finds that root.
Whole ==
  /\ length = TOTAL_BLOCKS /\ RootIntact /\ MetadataProtected
  /\ program \notin {"no disk", "overwritten"}

\* A disk that mkfs has brought to its root is whole from then on, whatever the
\* program runs, fails at or dies in, and is never formatted again: what mkfs
\* leaves half done (the bitmap without the root, the root without the rest of
\* the table) is never a disk with a root and without its reserved blocks.
FormattedForever == [](JustFormatted => []Whole)

\* file_system.c:89, "Reserve metadata blocks so normal file allocation never
\* overwrites them".
MetadataReserved == program # "overwritten"

=============================================================================
