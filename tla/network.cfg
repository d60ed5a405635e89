SPECIFICATION SystemSpec
CONSTANTS
  MaxTick = 60
  LastTick = 33
  FaultTicks = 8
  StatusLag = 2
  Runs = 2
  Recovery = 24
  Streams = {0}
  TaskResults = {"ok", "err"}
  StopWindows = {FALSE, TRUE}
  SignalTicks = {8}
  ResumeDelay = 0
  MaxJump = 40
  MaxRegress = 0
  StatusTicks = {}
  TickInfos <- MCTickInfos
INVARIANTS
  BurnHasCause
  CleanExitLeavesNothing
  HealthyChainKept
  FirstCommitFindsSlotFree
  RecoversInTime
