SPECIFICATION LedgerSpec
CONSTANTS
  MaxTick = 15
  LastTick = 10
  Streams = {0, 1}
  Epochs = {1, 2}
  Reports = {}
  TaskResults = {"ok", "err"}
  StopWindows = {FALSE}
  SignalTicks = {1}
  ResumeDelay = 0
  MaxJump = 3
  MaxRegress = 0
  TickInfos <- MCTickInfos
  StatusTicks <- MCStatusTicks
INVARIANTS
  FailedDrainFailsShutdown
