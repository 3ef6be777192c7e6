----------------------------- MODULE MountProofs -----------------------------
(***************************************************************************)
(* Proofs about Mount: a disk image from before it exists.                 *)
(***************************************************************************)
EXTENDS Mount, DiskProofs

\* Of whatever disk a program runs on: its types, and what each write of mkfs
\* needs from the ones before.
Resting == pc = "idle" /\ arg = NoArg /\ new = NoBlock
Saving ==
  /\ pc \in {"save", "flush"} /\ arg = NoArg /\ new = NoBlock
  /\ IsRoot(inode_table[0]) /\ table[0].parent_inode = 0
  /\ table[0].used => IsRoot(table[0])
  /\ MetadataInv /\ length = TOTAL_BLOCKS
MountInv ==
  /\ TypeInv
  /\ program \in {"off", "zeroing", "saving", "running", "no disk", "overwritten"}
  /\ program \in {"off", "zeroing", "no disk"} => Resting
  /\ program = "off" => inode_table = table
  /\ program = "zeroing" => inode_table = BlankTable /\ table = BlankTable
  /\ program = "saving" => Saving

\* Of a disk that mkfs has given its root.
WholeInv ==
  /\ RootInv /\ MetadataInv /\ length = TOTAL_BLOCKS
  /\ program \in {"off", "saving", "running"}

-----------------------------------------------------------------------------
(* What mkfs leaves in memory and on disk.                                 *)

LEMMA BlankLemma ==
  /\ BlankTable \in [Inodes -> Inode] /\ BlankBlocks \in [Blocks -> [Slots -> DirEntry]]
  /\ Outside(BlankTable) /\ ~BlankTable[0].used /\ BlankTable[0].parent_inode = 0
<1>1. BlankTable \in [Inodes -> Inode]
  BY InodeLemma DEF BlankTable
<1>2. BlankBlocks \in [Blocks -> [Slots -> DirEntry]]
  BY BlockLemma DEF BlankBlocks
<1>3. \A i \in Inodes : BlankTable[i] = UnusedInode
  BY DEF BlankTable
<1>4. \A k \in 1 .. MAX_BLOCKS_PER_INODE : UnusedInode.blocks[k] = 0
  BY DEF UnusedInode
<1>5. Outside(BlankTable)
  BY <1>3, <1>4 DEF Outside, OutsideMetadata, SUPERBLOCK_BLOCK
<1>6. ~UnusedInode.used /\ UnusedInode.parent_inode = 0
  BY DEF UnusedInode
<1>7. QED
  BY <1>1, <1>2, <1>3, <1>5, <1>6, SizesLemma

LEMMA RootTableLemma ==
  RootTable \in [Inodes -> Inode] /\ Outside(RootTable) /\ IsRoot(RootTable[0])
<1>1. \A i \in Inodes : RootTable[i] = IF i = 0 THEN NewInode(DIR_TYPE, 0) ELSE UnusedInode
  BY DEF RootTable, BlankTable
<1>2. RootTable \in [Inodes -> Inode]
  <2>1. NewInode(DIR_TYPE, 0) \in Inode
    BY InodeLemma, SizesLemma
  <2>2. QED
    BY <2>1, InodeLemma DEF RootTable, BlankTable
<1>3. ASSUME NEW i \in Inodes, NEW k \in 1 .. MAX_BLOCKS_PER_INODE
      PROVE  RootTable[i].blocks[k] = 0
  <2>1. UnusedInode.blocks[k] = 0
    BY DEF UnusedInode
  <2>2. NewInode(DIR_TYPE, 0).blocks = UnusedInode.blocks
    BY DEF NewInode, UnusedInode
  <2>3. QED
    BY <1>1, <2>1, <2>2
<1>4. Outside(RootTable)
  BY <1>3 DEF Outside, OutsideMetadata, SUPERBLOCK_BLOCK
<1>5. IsRoot(RootTable[0])
  BY <1>1, SizesLemma DEF IsRoot, NewInode, UnusedInode
<1>6. QED
  BY <1>2, <1>4, <1>5

\* A call at rest keeps its types.
LEMMA RestingCallOK == Resting => CallOK
BY NoArgLemma, CapacityLemma DEF Resting, CallOK

LEMMA MetadataBitsReserved ==
  bitmap' = MetadataBits => Reserved' /\ bitmap' \in SUBSET Blocks
BY SizesLemma DEF Reserved, MetadataBits, OutsideMetadata, Blocks

LEMMA InitMountInv == MountInit => MountInv
<1> SUFFICES ASSUME MountInit PROVE MountInv
  OBVIOUS
<1>1. Resting /\ CallOK
  BY RestingCallOK DEF MountInit, Resting
<1>2. TypeInv
  BY <1>1, BlankLemma, SizesLemma, NoArgLemma DEF MountInit, TypeInv, TypeOK
<1>3. QED
  BY <1>1, <1>2 DEF MountInit, MountInv

-----------------------------------------------------------------------------
(* The steps, on whatever disk.                                            *)

LEMMA StepMountInv == MountInv /\ [MountNext]_mount_vars => MountInv'
<1> SUFFICES ASSUME MountInv, [MountNext]_mount_vars PROVE MountInv'
  OBVIOUS
<1>0. inode_table \in [Inodes -> Inode] /\ table \in [Inodes -> Inode]
  BY TypeFacts DEF MountInv
<1>1. CASE StartMkfs
  <2>1. UNCHANGED <<pc, arg, new, turn, ret>> /\ Resting
    BY <1>1 DEF StartMkfs, MountInv, call
  <2>2. Resting' /\ CallOK'
    BY <2>1, NoArgLemma, CapacityLemma DEF Resting, CallOK
  <2>3. TypeInv'
    BY <1>1, <2>1, <2>2, BlankLemma, SizesLemma DEF StartMkfs, MountInv, TypeInv, TypeOK
  <2>4. QED
    BY <1>1, <2>2, <2>3 DEF StartMkfs, MountInv
<1>2. CASE ZeroBlock
  <2>1. UNCHANGED vars /\ program = "zeroing" /\ program' = "zeroing"
    BY <1>2 DEF ZeroBlock, MountInv, vars
  <2>2. TypeInv'
    BY <2>1, StepTypeInv DEF MountInv
  <2>3. QED
    BY <2>1, <2>2 DEF MountInv, Resting, vars
<1>3. CASE WriteBitmap
  <2>1. Reserved' /\ bitmap' \in SUBSET Blocks
    BY <1>3, MetadataBitsReserved DEF WriteBitmap
  <2>2. CallOK'
    BY <1>3, NoArgLemma, CapacityLemma DEF WriteBitmap, MountInv, Resting, CallOK
  <2>3. TypeInv'
    BY <1>3, <2>1, <2>2, RootTableLemma DEF WriteBitmap, MountInv, TypeInv, TypeOK
  <2>4. table' = BlankTable /\ inode_table' = RootTable /\ new' = NoBlock /\ NoBlock \notin Blocks
    BY <1>3 DEF WriteBitmap, MountInv, Resting, NoBlock, Blocks
  <2>5. MetadataInv'
    BY <2>1, <2>4, BlankLemma, RootTableLemma DEF MetadataInv
  <2>6. Saving'
    BY <1>3, <2>4, <2>5, BlankLemma, RootTableLemma DEF WriteBitmap, MountInv, Resting, Saving
  <2>7. QED
    BY <1>3, <2>3, <2>6 DEF WriteBitmap, MountInv
<1>4. CASE SaveRoot
  <2>0. Saving /\ SPLIT_INODE \in Inodes /\ 0 \in Inodes
    BY <1>4, SizesLemma DEF SaveRoot, MountInv
  <2>1. TypeInv' /\ MetadataInv' /\ length' = TOTAL_BLOCKS
    BY <1>4, <2>0, StepTypeInv, StepMetadataInv DEF SaveRoot, MountInv, Saving, AnyNext, AnySession, Step
  <2>2. IsRoot(table'[0]) /\ IsRoot(inode_table'[0]) /\ arg' = NoArg /\ new' = NoBlock
    <3>1. CASE save_inode_table
      <4>1. IsRoot(FirstPart(0))
        BY <1>0, <2>0, <3>1 DEF Saving, FirstPart, IsRoot, Inode, Inodes
      <4>2. table'[0] = FirstPart(0)
        BY <2>0, <3>1 DEF save_inode_table
      <4>3. QED
        BY <2>0, <3>1, <4>1, <4>2 DEF save_inode_table, Saving
    <3>2. CASE FlushTable
      BY <2>0, <3>2 DEF FlushTable, Return, Saving
    <3>3. QED
      BY <1>4, <3>1, <3>2 DEF SaveRoot
  <2>3. pc' \in {"idle", "flush"} /\ program' = IF pc' = "idle" THEN "running" ELSE "saving"
    BY <1>4 DEF SaveRoot, save_inode_table, FlushTable, Return
  <2>4. program' = "saving" => Saving'
    BY <2>1, <2>2, <2>3 DEF Saving, IsRoot
  <2>5. QED
    BY <2>1, <2>3, <2>4 DEF MountInv
<1>5. CASE LoadFails \/ LoadTable \/ OverwriteMetadata
  <2>1. UNCHANGED vars /\ program' \in {"no disk", "running", "overwritten"}
    BY <1>5 DEF LoadFails, LoadTable, OverwriteMetadata
  <2>2. program' = "no disk" => Resting
    BY <1>5 DEF LoadFails, LoadTable, OverwriteMetadata, MountInv
  <2>3. TypeInv'
    BY <2>1, StepTypeInv DEF MountInv
  <2>4. QED
    BY <2>1, <2>2, <2>3 DEF MountInv, Resting, vars
<1>6. CASE Run
  <2>1. TypeInv'
    BY <1>6, StepTypeInv, AnyLemma DEF Run, MountInv, AnyNext, Next
  <2>2. program' = "running"
    BY <1>6 DEF Run
  <2>3. QED
    BY <2>1, <2>2 DEF MountInv
<1>7. CASE Stop
  <2>1. (Restart \/ Crash) /\ program' = "off"
    BY <1>7 DEF Stop
  <2>2. TypeInv'
    BY <2>1, StepTypeInv DEF MountInv, AnyNext
  <2>3. Return(0) /\ inode_table' = table'
    BY <2>1 DEF Restart, Crash, Mount, disk
  <2>4. Resting'
    BY <2>3 DEF Return, Resting
  <2>5. QED
    BY <2>1, <2>2, <2>3, <2>4 DEF MountInv
<1>8. CASE Overwritten \/ UNCHANGED mount_vars
  <2>1. UNCHANGED <<vars, program, length>>
    BY <1>8 DEF Overwritten, mount_vars
  <2>2. TypeInv' /\ (Saving => Saving')
    BY <2>1, StepTypeInv DEF MountInv, vars, Saving, MetadataInv, Reserved
  <2>3. QED
    BY <2>1, <2>2 DEF MountInv, Resting, vars
<1>9. QED
  BY <1>1, <1>2, <1>3, <1>4, <1>5, <1>6, <1>7, <1>8 DEF MountNext

-----------------------------------------------------------------------------
(* The steps, on a disk that has its root from mkfs.                       *)

LEMMA JustFormattedWhole == MountInv /\ JustFormatted => WholeInv
<1> SUFFICES ASSUME MountInv, JustFormatted PROVE WholeInv
  OBVIOUS
<1>1. Saving /\ IsRoot(table[0]) /\ program = "saving"
  BY DEF MountInv, JustFormatted, Saving
<1>2. RootInv
  BY <1>1, RootFacts DEF MountInv, Saving, RootInv, NoArg
<1>3. QED
  BY <1>1, <1>2 DEF Saving, WholeInv

\* A block in the call's hand is a data block inside the image.
LEMMA NewBlockInside ==
  MountInv /\ WholeInv /\ WritesNewBlock =>
    new < length /\ new \notin DATA_BITMAP_BLOCK .. FIRST_DATA_BLOCK - 1
<1> SUFFICES ASSUME MountInv, WholeInv, WritesNewBlock
             PROVE  new < length /\ new \notin DATA_BITMAP_BLOCK .. FIRST_DATA_BLOCK - 1
  OBVIOUS
<1>1. new \in Blocks
  BY DEF MountInv, TypeInv, CallOK, WritesNewBlock
<1>2. OutsideMetadata(new) /\ length = TOTAL_BLOCKS
  BY <1>1 DEF WholeInv, MetadataInv
<1>3. QED
  BY <1>1, <1>2, SizesLemma, LayoutAssumption
  DEF OutsideMetadata, SUPERBLOCK_BLOCK, Blocks

LEMMA StepWholeInv == MountInv /\ WholeInv /\ [MountNext]_mount_vars => WholeInv'
<1> SUFFICES ASSUME MountInv, WholeInv, [MountNext]_mount_vars PROVE WholeInv'
  OBVIOUS
<1>0. TypeInv /\ RootInv /\ MetadataInv /\ length = TOTAL_BLOCKS
  BY DEF MountInv, WholeInv
<1>1. [AnyNext]_vars => RootInv' /\ MetadataInv'
  BY <1>0, StepRootInv, StepMetadataInv
<1>2. ~StartMkfs /\ ~ZeroBlock /\ ~WriteBitmap /\ ~LoadFails /\ ~OverwriteMetadata /\ ~Overwritten
  <2>1. ~StartMkfs /\ ~LoadFails
    <3>1. length # NoFile /\ ~(length < FIRST_DATA_BLOCK)
      BY <1>0, SizesLemma DEF NoFile
    <3>2. QED
      BY <3>1 DEF StartMkfs, OpensNew, LoadFails
  <2>2. ~ZeroBlock /\ ~WriteBitmap /\ ~Overwritten
    BY DEF WholeInv, ZeroBlock, WriteBitmap, Overwritten
  <2>3. ~OverwriteMetadata
    BY NewBlockInside DEF OverwriteMetadata
  <2>4. QED
    BY <2>1, <2>2, <2>3
<1>3. CASE SaveRoot
  <2>1. AnyNext /\ length' = length /\ program' \in {"running", "saving"}
    BY <1>3 DEF SaveRoot, AnyNext, AnySession, Step
  <2>2. QED
    BY <1>0, <1>1, <2>1 DEF WholeInv
<1>4. CASE LoadTable
  BY <1>0, <1>1, <1>4 DEF LoadTable, WholeInv
<1>5. CASE Run
  <2>1. AnyNext /\ program' = "running"
    BY <1>5, AnyLemma DEF Run, AnyNext, Next
  <2>2. length' = length
    <3>1. CASE WritesNewBlock
      <4>1. new < length
        BY <3>1, NewBlockInside
      <4>2. new \in Blocks
        BY <3>1 DEF MountInv, TypeInv, CallOK, WritesNewBlock
      <4>3. QED
        BY <1>0, <1>5, <4>1, <4>2, SizesLemma DEF Run, Blocks
    <3>2. CASE ~WritesNewBlock
      BY <1>5, <3>2 DEF Run
    <3>3. QED
      BY <3>1, <3>2
  <2>3. QED
    BY <1>0, <1>1, <2>1, <2>2 DEF WholeInv
<1>6. CASE Stop
  <2>1. AnyNext /\ program' = "off" /\ length' = length
    BY <1>6 DEF Stop, AnyNext
  <2>2. QED
    BY <1>0, <1>1, <2>1 DEF WholeInv
<1>7. CASE UNCHANGED mount_vars
  BY <1>0, <1>1, <1>7 DEF mount_vars, WholeInv
<1>8. QED
  BY <1>2, <1>3, <1>4, <1>5, <1>6, <1>7 DEF MountNext

LEMMA WholeInvImplies == MountInv /\ WholeInv => Whole
BY MetadataInvImplies DEF MountInv, WholeInv, RootInv, Whole

-----------------------------------------------------------------------------
(* What memory has and the disk has not.                                   *)

LEMMA StepLifeUnsaved == MountInv /\ UnsavedInv /\ [MountNext]_mount_vars => UnsavedInv'
<1> SUFFICES ASSUME MountInv, UnsavedInv, [MountNext]_mount_vars PROVE UnsavedInv'
  OBVIOUS
<1>1. [AnyNext]_vars => UnsavedInv'
  BY StepUnsavedInv DEF MountInv
<1>2. CASE StartMkfs
  <2>1. pc' = "idle" /\ inode_table' = table'
    BY <1>2 DEF StartMkfs, MountInv, Resting, call
  <2>2. QED
    BY <2>1 DEF UnsavedInv, Clear, Agree
<1>3. CASE WriteBitmap
  <2>1. pc' = "save" /\ arg'.ino = 0
    <3>1. pc' = "save" /\ arg' = NoArg
      BY <1>3 DEF WriteBitmap, MountInv, Resting
    <3>2. QED
      BY <3>1 DEF NoArg
  <2>2. ASSUME NEW i \in Inodes, i # 0 PROVE Clear(i)'
    <3>1. table' = BlankTable /\ inode_table' = RootTable
      BY <1>3 DEF WriteBitmap, MountInv
    <3>2. inode_table'[i] = table'[i]
      BY <2>2, <3>1 DEF RootTable, BlankTable
    <3>3. QED
      BY <3>2 DEF Clear, Agree, Meaning
  <2>3. QED
    BY <2>1, <2>2 DEF UnsavedInv, Touched
<1>4. CASE ZeroBlock \/ LoadFails \/ LoadTable \/ OverwriteMetadata \/ Overwritten
  BY <1>1, <1>4 DEF ZeroBlock, LoadFails, LoadTable, OverwriteMetadata, Overwritten, mount_vars
<1>5. CASE SaveRoot
  BY <1>1, <1>5 DEF SaveRoot, AnyNext, AnySession, Step
<1>6. CASE Run
  BY <1>1, <1>6, AnyLemma DEF Run, AnyNext, Next
<1>7. CASE Stop
  BY <1>1, <1>7 DEF Stop, AnyNext
<1>8. CASE UNCHANGED mount_vars
  BY <1>1, <1>8 DEF mount_vars
<1>9. QED
  BY <1>2, <1>3, <1>4, <1>5, <1>6, <1>7, <1>8 DEF MountNext

-----------------------------------------------------------------------------
(* The theorems.                                                           *)

\* Before the disk is formatted, while it is and ever after, and on a disk left
\* without a root until the program overwrites its own metadata: indices stay
\* inside the inode table, the block arrays and the disk.
THEOREM LifeTypeCorrect == MountSpec => []TypeOK
<1>1. MountInv => TypeOK
  BY DEF MountInv, TypeInv
<1>2. QED
  BY <1>1, InitMountInv, StepMountInv, PTL DEF MountSpec

\* Once mkfs has put the root on the disk, in one write or two, the disk keeps
\* its length, its root and its metadata for ever, and every start finds them.
THEOREM FormattedDiskStays == MountSpec => FormattedForever
<1>1. MountInv /\ JustFormatted => WholeInv
  BY JustFormattedWhole
<1>2. MountInv /\ WholeInv /\ [MountNext]_mount_vars => WholeInv'
  BY StepWholeInv
<1>3. MountInv /\ WholeInv => Whole
  BY WholeInvImplies
<1>4. QED
  BY <1>1, <1>2, <1>3, InitMountInv, StepMountInv, PTL DEF MountSpec, FormattedForever

\* Also through mkfs, deaths inside it and sessions without a root: memory and
\* disk agree but for the files of failed writes and what the running call does.
THEOREM LifeUnsavedOnlyFailedWrites == MountSpec => []UnsavedOnlyByFailedWrite
<1>1. MountInit => UnsavedInv
  BY DEF MountInit, UnsavedInv, Clear, Agree
<1>2. UnsavedInv => UnsavedOnlyByFailedWrite
  BY UnsavedInvImplies
<1>3. QED
  BY <1>1, <1>2, InitMountInv, StepMountInv, StepLifeUnsaved, PTL DEF MountSpec
=============================================================================
