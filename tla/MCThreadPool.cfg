SPECIFICATION Spec
CONSTANTS
  NBlocks = 5
  MaxBlockSize = 3
  Inodes <- MCInodes
  NoInode = 0
  HasFragTbl = TRUE
  Inputs <- MCInputs
  Faults = {}
  NumWorkers = 2
  MaxBacklog = 3
  IdMod = 64
INVARIANTS
  FilesWrittenInOneRun
  SyncDrains
PROPERTY ImplementsSerial
