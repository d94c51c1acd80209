SPECIFICATION ReadingSpec
CONSTANTS
  NBlocks = 1
  MaxBlockSize = 2
  Inodes = {1, 2, 3}
  NoInode = 0
  HasFragTbl = TRUE
  DataStart = 1
  DevBlkSz = 4
  HashCompareOnly = FALSE
  Archives <- ZeroArchives
  ReadFaults = {}
INVARIANT ReadableUnlessFaulty
