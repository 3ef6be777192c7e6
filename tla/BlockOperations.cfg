SPECIFICATION Spec
CONSTANTS
  TOTAL_BLOCKS = 11
  FIRST_DATA_BLOCK = 3
  BLOCK_SIZE = 2
INVARIANT OnlyBlocksAreMarked
PROPERTIES ImplementsAllocator AllocReturns
