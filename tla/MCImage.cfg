SPECIFICATION BothSpec
CONSTANTS
  MetaBlockSize = 6
  DirSizeMax = 8
  FileSizeMax = 6
  BlockSize = 2
  IdCountMax = 4
  SuperCells = 2
  MaxDirEnt = 3
  MaxDiff = 2
  HashMod = 64
  NumBuckets = 2
  LinkCountMod = 65536
  IdMax = 255
  Configs <- SomeConfigs
  FileInodes <- SomeInodes
  FragTables <- SomeFrags
  DataCells = 2
  MaxFaults = 1
INVARIANTS
  AcceptedIsComplete
  StatusSaysImage
  PartsDestroyed
  ReferencesRight
  ListingFollowed
  TreeReady
PROPERTIES
  ForeignFileKept
  FailedAddChangesNothing
  PostProcessEnds
