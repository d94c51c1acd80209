SPECIFICATION Spec
CONSTANTS
  Files <- UnalignedEnd
  MaxFiles = 3
  DataStart = 1
  DevBlkSz = 4
  HashCompareOnly = FALSE
PROPERTY AlignedStart
CHECK_DEADLOCK FALSE
