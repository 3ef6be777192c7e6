SPECIFICATION CarefulUse
CONSTANTS
  MAX_INODES = 18
  TOTAL_BLOCKS = 22
  FIRST_DATA_BLOCK = 1
  MAX_BLOCKS_PER_INODE = 1
  ENTRIES_PER_BLOCK = 3
  Names <- MCNames
  Text <- MCText
  TextInode <- MCTextInode
  SPLIT_INODE = 1
  SPLIT_BLOCKS = 1
  Paths <- FileAndDirectory
  Contents <- MCContents
  MaxId = 2
  MaxCommands = 6
  CommitName <- MCCommitName
  IdText <- MCIdText
PROPERTIES ImplementsSnapshotStore CommandsEnd CommandsSucceed
CHECK_DEADLOCK FALSE
