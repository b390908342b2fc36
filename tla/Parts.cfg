SPECIFICATION PartsSpec
CONSTANTS
  RingSize = 3
  MaxLimit = 2
  MaxEvents = 6
  MaxGeneration = 3
  CePids = {1, 2}
  MaxPipeCalls = 2
  Sidecars = {1, 2}
  CallsOf <- CallsOfSidecars
  MaxArtifacts = 1
  Retention = 0
  Pieces = 2
  MaxIds = 2
  MaxReads = 2
  MaxClock = 1
  MaxMishaps = 1
  Retained = 3
  FileLines = 2
  MaxRecords = 8
  Clients = {1, 2}
  MaxStructures = 2
  MaxDefinitions = 4
  MaxLives = 2
  MaxAsk = 8
  Implied = 4
  Commands = {1, 2}
  HostPids = {1, 2}
  HostImages = {"Cheat Engine.exe", "cheatengine-x86_64.exe"}
  OtherImages = {"other.exe"}
  MaxBorn = 2
  DbvmTargets = {1, 2}
  MaxWatches = 2
  MaxNative = 4
  MaxRenewals = 4
INVARIANTS
  PartsTypeOK
  RingIsConsecutive
  CursorStaysUsable
  EveryEventAccounted
  KeptStreamIsSafe
  ServedIsIntact
  StoreStaysBounded
  LogIsRecentSuffix
  UpdateBuildsOnCurrent
  AdviceMakesProgress
  ControllerAsksItsServer
  OnlyHostsAreClosed
  HostOutcomeIsHonest
  DbvmStaysInReach
CHECK_DEADLOCK FALSE
