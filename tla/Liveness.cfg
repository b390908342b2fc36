SPECIFICATION LivenessSpec
CONSTANTS
  Capacity = 1
  MaxOperations = 1
  MaxGeneration = 2
  MaxRefines = 2
  Lengths = 2
  MaxLists = 2
  CePids = {1, 2}
  MaxPipeCalls = 2
INVARIANTS
  ServedListIsLive
  ServedRowsAreRefined
PROPERTIES
  AbandonedWorkerExits
  UncancelledOperationSettles
  ReturnsUnlessCancelMissed
