SPECIFICATION Spec
CONSTANTS
  SomeCapability = SomeCapability
  Capability = SomeCapability
  Cases <- SparseCases
  MaxFaults = 0
INVARIANT
  NoSparseFiles
CHECK_DEADLOCK FALSE
