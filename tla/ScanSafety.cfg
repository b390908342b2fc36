\* One handle at a time, so that the limit, closing and abandoned workers meet.
SPECIFICATION Spec
CONSTANTS
  Capacity = 1
  MaxOperations = 2
  MaxGeneration = 2
  MaxRefines = 1
  Lengths = 1
  MaxLists = 0
INVARIANTS
  TypeOK
  HandlesBelongToTarget
  CompletedScanHasResults
  AbandonedIsTerminated
PROPERTY
  CompletedIsStable
