SPECIFICATION MountSpec
CONSTANTS
  MAX_INODES = 3
  TOTAL_BLOCKS = 4
  FIRST_DATA_BLOCK = 2
  DATA_BITMAP_BLOCK = 1
  MAX_BLOCKS_PER_INODE = 1
  ENTRIES_PER_BLOCK = 1
  Names = {"a", "b"}
  Text = {"t"}
  TextInode <- MCTextInode
  SPLIT_INODE = 1
  SPLIT_BLOCKS = 0
  Paths <- LifePaths
  Contents <- LifeContents
INVARIANTS TypeOK UnsavedOnlyByFailedWrite
PROPERTY FormattedForever
