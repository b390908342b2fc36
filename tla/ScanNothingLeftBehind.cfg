SPECIFICATION Spec
CONSTANTS
  Capacity = 2
  MaxOperations = 2
  MaxGeneration = 1
  MaxRefines = 1
  Lengths = 1
  MaxLists = 2
INVARIANT
  NothingLeftBehind
