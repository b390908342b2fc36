SPECIFICATION FairPipeSpec
CONSTANTS
  CePids = {1}
  MaxPipeCalls = 1
PROPERTIES
  DeadlineBoundsCall
