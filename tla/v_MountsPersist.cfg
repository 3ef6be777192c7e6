SPECIFICATION Sessions
CONSTANTS
  MAX_INODES = 3
  TOTAL_BLOCKS = 3
  FIRST_DATA_BLOCK = 1
  MAX_BLOCKS_PER_INODE = 2
  ENTRIES_PER_BLOCK = 1
  Names = {"a", "b"}
  Text = {"t", "u"}
  TextInode <- MCTextInode
  SPLIT_INODE = 1
  SPLIT_BLOCKS = 1
  Paths <- MCPaths
  Contents <- GrowingContents
PROPERTY MountsPersist
