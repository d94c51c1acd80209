SPECIFICATION LibrarySpec
CONSTANTS
  BufSz = 5
  CodecBlock <- SomeBlocks
  Contents <- SomeContents
  Pieces = {2, 3}
  Flags <- SomeFlags
  UIntMod = 128
  WordBytes = 2
  SizeMax = 1023
  Kilo = 4
  FieldSizes = {2, 3}
  Radix = 3
  Small = 600
  Stride = 991
  Chars <- SomeChars
  MaxChars = 4
  IntMod = 1048576
  BlockSizes = {1, 32, 256}
  Numerals = {0, 1, 4, 5, 8, 9, 10, 15, 22}
  Sizes = {1, 2, 3, 5, 32, 48, 256, 512, 1048578}
  MaxOptions = 2
  BlockLen = 4
  Lengths <- SomeLengths
  Keys <- SomeKeys
  Numbers = {1, 2, 3, 4, 5, 6, 7}
  MaxInserts = 7
  MaxFails = 4
  Starts <- SomeStarts
  Buffers <- SomeBuffers
  MaxOffset = 3
  MaxCalls = 3
INVARIANTS
  
  NumbersRight
  
  CompressorsRight
  ContainersRight
  TransfersWhole
  SizeIsTheEnd
PROPERTY
  StreamsEnd
