SPECIFICATION TreeUserSpec
CONSTANTS
  MAX_INODES = 10
  TOTAL_BLOCKS = 12
  FIRST_DATA_BLOCK = 1
  MAX_BLOCKS_PER_INODE = 1
  ENTRIES_PER_BLOCK = 3
  Names <- MCNames
  Text <- MCText
  TextInode <- MCTextInode
  SPLIT_INODE = 1
  SPLIT_BLOCKS = 1
  Paths <- OneFile
  Contents <- MCContents
  MaxId = 2
  MaxCommands = 6
  CommitName <- MCCommitName
  IdText <- MCIdText
INVARIANT HeadHasTree
PROPERTIES HeadFollowsCopy TreesKept
CHECK_DEADLOCK FALSE
