SPECIFICATION FairSpec
CONSTANTS
  NBlocks = 5
  MaxBlockSize = 3
  Inodes <- MCInodes
  NoInode = 0
  HasFragTbl = TRUE
  Inputs <- MCInputs
  Faults = {}
  NumWorkers = 2
  MaxBacklog = 2
  IdMod = 4
PROPERTY CallsReturn
