SPECIFICATION AlternationSpec
CONSTANTS
  MaxTick = 23
  MaxU32 = 23
  MaxDigests = 0
  ResumeDelay = 2
  Day = 2
  StopLead = 1
  Gap = 2
  Switch = 2
  StaleFor = 1
  FirstClocks = {3, 5, 6}
  LastClock = 20
  Kinds = {"grpc"}
INVARIANTS
  FallbackIsFirstObserved
