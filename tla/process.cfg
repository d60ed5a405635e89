SPECIFICATION ProcessSpec
CONSTANTS
  Roots <- RootForms
  Tails = {"", "?q"}
  Signals <- SignalOrder
  MaxTick = 25
  MaxU32 = 25
  MaxDigests = 0
  ResumeDelay = 1
  Day = 2
  StopLead = 1
  Gap = 2
  Switch = 2
  StaleFor = 1
  FirstClocks = {3, 5, 6}
  LastClock = 20
  Kinds = {"rpc", "bob", "grpc"}
  Poll = 2
  MinAttempt = 2
  MaxAttempt = 14
  Durations = {1, 2, 4, 6, 12}
  MaxLead = 4
INVARIANTS
  SeedIsKept
  EveryFormReachesTheApi
  PlanningStopsAtBoundaries
  HangsLeaveTime
PROPERTIES
  WarmupNotCutShort
  SignalEndsTheRun
