SPECIFICATION LedgerSpec
CONSTANTS
  MaxTick = 15
  LastTick = 12
  Streams = {0}
  Epochs = {1}
  Reports = {6}
  TaskResults = {"pending", "ok", "err"}
  StopWindows = {FALSE}
  SignalTicks = {4}
  ResumeDelay = 0
  MaxJump = 2
  MaxRegress = 0
  TickInfos <- MCTickInfos
  StatusTicks <- MCStatusTicks
INVARIANTS
  TaskDiscipline
  CleanExitPaysAll
PROPERTIES
  DrainIsFinal
