SPECIFICATION PackingSpec
CONSTANTS
  NoInode = 0
  HasFragTbl = TRUE
  Sizes = {0, 1, 3}
  MaxFileSize = 5
  UserFlags = {{}, {"DONT_FRAGMENT"}, {"IS_SPARSE"}, {"MANUAL_SUBMISSION"}}
  SerialInputs <- SomeInputs
  DataStart = 1
  DevBlkSz = 4
  MaxFiles = 4
  ComparedFiles <- DistinctFiles
  HashedFiles <- AllFiles
INVARIANTS
  SplitsFiles
  ReadBack
  NothingLeftBehind
  HeldOrFreed
PROPERTIES
  AppendEnds
  EarlierBytesKept
