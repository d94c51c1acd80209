SPECIFICATION ToolsSpec
CONSTANTS
  BufSz = 6
  CodecBlock <- SomeBlocks
  UIntMod = 4096
  WordBytes = 2
  SizeMax = 10000
  Kilo = 4
  R = 4
  NameMax = 6
  LenMax = 60
  IdDigits = 2
  SizeDigits = 2
  DevMod = 4
  Radix = 10
  LinkCountMod = 16
  IdMax = 99
  BlockSize = 2
  Cases <- TarCases
  Capability = Capability
  MaxFaults = 1
  UnpackCases <- RestoreCases
  DiffCases <- CompareCases
  Hosts <- SomeHosts
  Changes <- SomeChanges
  MaxChanges = 2
  BufferSize = 2
  Programs = {"rdsquashfs", "sqfs2tar", "sqfsdiff"}
  MaxOptions = 2
INVARIANTS
  
  TarNoPartialFiles
  
  ForeignKept
  
  
  
