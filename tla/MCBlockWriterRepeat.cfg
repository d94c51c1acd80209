SPECIFICATION Spec
CONSTANTS
  Files <- RepeatingFiles
  MaxFiles = 3
  DataStart = 1
  DevBlkSz = 4
  HashCompareOnly = FALSE
INVARIANT ReadBack
CHECK_DEADLOCK FALSE
