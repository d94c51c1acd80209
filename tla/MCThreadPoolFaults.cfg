SPECIFICATION FairSpec
CONSTANTS
  NBlocks = 5
  MaxBlockSize = 3
  Inodes <- MCInodes
  NoInode = 0
  HasFragTbl = TRUE
  Inputs <- MCInputs
  Faults = {"thread", "compress", "table", "chunk", "write", "inode"}
  NumWorkers = 2
  MaxBacklog = 2
  IdMod = 64
INVARIANTS
  BacklogExact
  OneOwner
PROPERTIES
  ErrorIsFinal
  CallsReturn
  DestroyEnds
