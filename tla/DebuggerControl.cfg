SPECIFICATION Spec
CONSTANTS
  BreakpointSlots = 1
  MaxBreakpoints = 2
  MaxStops = 3
  MaxGeneration = 2
INVARIANTS
  TypeOK
  HookFollowsOwnership
  NoOrphanBreakpoint
  BreakpointsBelongToTarget
  StopGenerationNamesOneStop
PROPERTIES
  AdoptedStaysAsItWas
  OwnedIsReleased
