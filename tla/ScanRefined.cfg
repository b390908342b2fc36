SPECIFICATION Spec
CONSTANTS
  Capacity = 1
  MaxOperations = 1
  MaxGeneration = 1
  MaxRefines = 1
  MaxLists = 2
  Lengths = 1
INVARIANT
  CompletedMeansRefined
