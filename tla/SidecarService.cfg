SPECIFICATION FairSpec
CONSTANTS
  Pids = {1, 2}
  MaxGeneration = 3
  MaxTimers = 1
  MaxCalls = 2
CHECK_DEADLOCK FALSE
INVARIANTS
  TypeOK
  OneTargetPerGeneration
  ActsOnItsTarget
  EffectIsAudited
  CacheIsCurrentOrOver
  DetachEndsSession
PROPERTIES
  SessionsNeverReturn
  OutcomeIsHonest
  CallReturns
