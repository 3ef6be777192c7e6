--------------------------- MODULE BlockOperations --------------------------
(***************************************************************************)
(* The block bitmap bit by bit: filestructures/bitmap.c, and the           *)
(* alloc_block and free_block of filestructures/block_operations.c that    *)
(* read the bitmap block, change it and write it back.                     *)
(***************************************************************************)
EXTENDS Integers

CONSTANTS
  TOTAL_BLOCKS,      \* number of bits in use
  FIRST_DATA_BLOCK,  \* the bits mkfs sets
  BLOCK_SIZE         \* bytes of the bitmap block

ASSUME SizeAssumption ==
  /\ TOTAL_BLOCKS \in Nat \ {0} /\ FIRST_DATA_BLOCK \in 1 .. TOTAL_BLOCKS
  /\ BLOCK_SIZE \in Nat /\ TOTAL_BLOCKS <= 8 * BLOCK_SIZE

VARIABLES
  bytes,  \* the bitmap block on disk
  ret     \* the last call's return value

vars == <<bytes, ret>>
Bits == 0 .. 8 * BLOCK_SIZE - 1

Byte(index) == index \div 8
Mask(index) == 2 ^ (index % 8)

bitmap_get(map, index) == IF index < 0 THEN 0 ELSE (map[Byte(index)] \div Mask(index)) % 2

\* |= and &= ~ on one byte; the second forgets that the bit may be clear.
bitmap_set(map, index) ==
  IF index < 0 \/ bitmap_get(map, index) = 1 THEN map
  ELSE [map EXCEPT ![Byte(index)] = @ + Mask(index)]
BadClear(map, index) == [map EXCEPT ![Byte(index)] = (@ - Mask(index)) % 256]
bitmap_clear(map, index) ==
  IF index < 0 \/ bitmap_get(map, index) = 0 THEN map
  ELSE [map EXCEPT ![Byte(index)] = @ - Mask(index)]

\* The scan: the first clear bit below total_bits, or -1.  The bad one runs
\* over every bit of the block.
Free(map, total_bits) == {i \in 0 .. total_bits - 1 : bitmap_get(map, i) = 0}
BadFindFirstFree(map, total_bits) ==
  CHOOSE i \in Free(map, 8 * BLOCK_SIZE) \union {-1} :
    \A j \in Free(map, 8 * BLOCK_SIZE) : 0 <= i /\ i <= j
bitmap_find_first_free(map, total_bits) ==
  IF Free(map, total_bits) = {} THEN -1
  ELSE CHOOSE i \in Free(map, total_bits) : \A j \in Free(map, total_bits) : i <= j

\* bitmap_allocate: the bit it takes, and what it makes of the map.  The bad one
\* returns the bit without setting it.
BadAllocate(map, total_bits) ==
  [index |-> bitmap_find_first_free(map, total_bits), map |-> map]
bitmap_allocate(map, total_bits) ==
  LET i == bitmap_find_first_free(map, total_bits)
  IN  [index |-> i, map |-> bitmap_set(map, i)]

\* bitmap_free refuses an index out of range.
Freeable(index, total_bits) == 0 <= index /\ index < total_bits

\* The bitmap block as mkfs writes it.
Formatted == [n \in 0 .. BLOCK_SIZE - 1 |->
  (2 ^ (IF FIRST_DATA_BLOCK <= 8 * n THEN 0
        ELSE IF FIRST_DATA_BLOCK >= 8 * (n + 1) THEN 8 ELSE FIRST_DATA_BLOCK % 8)) - 1]

Init == bytes = Formatted /\ ret = 0

alloc_block ==
  LET taken == bitmap_allocate(bytes, TOTAL_BLOCKS) IN
  /\ ret' = taken.index
  /\ bytes' = IF taken.index = -1 THEN bytes ELSE taken.map

free_block(block_num) ==
  IF Freeable(block_num, TOTAL_BLOCKS)
  THEN bytes' = bitmap_clear(bytes, block_num) /\ ret' = 0
  ELSE ret' = -1 /\ UNCHANGED bytes

Next == alloc_block \/ \E block_num \in -1 .. TOTAL_BLOCKS : free_block(block_num)
Spec == Init /\ [][Next]_vars

-----------------------------------------------------------------------------

\* The block read back is bytes, and only bits below TOTAL_BLOCKS are set: the
\* scan and the byte arithmetic stay inside the bits in use (bitmap.c:67).
OnlyBlocksAreMarked ==
  /\ bytes \in [0 .. BLOCK_SIZE - 1 -> 0 .. 255]
  /\ \A i \in Bits : i >= TOTAL_BLOCKS => bitmap_get(bytes, i) = 0

\* The bytes implement the allocator the file system is written against: an
\* allocation takes the first free block and sets its bit alone, a release
\* clears one bit alone, also when it was clear already.
Allocator == INSTANCE BlockAllocator WITH
  bitmap <- {i \in Bits : bitmap_get(bytes, i) = 1}
ImplementsAllocator == Allocator!AllocatorSpec

\* A return of -1 from alloc_block is a full disk and nothing else, and a block
\* it returns was free and is marked now (bitmap.c:78-79).
AllocReturns ==
  [][ alloc_block =>
      IF ret' = -1 THEN \A b \in 0 .. TOTAL_BLOCKS - 1 : bitmap_get(bytes, b) = 1
      ELSE bitmap_get(bytes, ret') = 0 /\ bitmap_get(bytes', ret') = 1 ]_vars
=============================================================================
