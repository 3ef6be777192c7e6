--------------------------- MODULE BlockAllocator ---------------------------
(***************************************************************************)
(* What the block layer promises to the file system: a set of allocated    *)
(* blocks, from which alloc_block takes the first free one and to which    *)
(* free_block gives one back.  BlockOperations implements it on the bytes  *)
(* of the bitmap block.                                                    *)
(***************************************************************************)
EXTENDS Integers

CONSTANT TOTAL_BLOCKS       \* number of blocks of the disk image
CONSTANT FIRST_DATA_BLOCK   \* blocks below it hold superblock, bitmaps, inode table

ASSUME BlocksAssumption ==
  /\ TOTAL_BLOCKS \in Nat
  /\ FIRST_DATA_BLOCK \in 1 .. TOTAL_BLOCKS

VARIABLE bitmap             \* the set of allocated blocks

Blocks == 0 .. TOTAL_BLOCKS - 1
FreeBlocks == Blocks \ bitmap

IsFirst(x, S) == x \in S /\ \A y \in S : x <= y

\* The bits mkfs sets before any allocation; the bad one stops one block short.
BadMetadataBits == 0 .. FIRST_DATA_BLOCK - 2
MetadataBits == 0 .. FIRST_DATA_BLOCK - 1

\* The first free block is taken and its bit written back; the bad one leaves
\* the bitmap as it was.
BadAlloc(b) == IsFirst(b, FreeBlocks) /\ UNCHANGED bitmap
alloc_block(b) == IsFirst(b, FreeBlocks) /\ bitmap' = bitmap \union {b}
free_block(b) == bitmap' = bitmap \ {b}

AllocatorInit == bitmap = MetadataBits
AllocatorNext == \E b \in Blocks : alloc_block(b) \/ free_block(b)
AllocatorSpec == AllocatorInit /\ [][AllocatorNext]_bitmap
=============================================================================
