SPECIFICATION FairSpec
CONSTANTS
  MaxTick = 24
  TickSet = {0, 7, 8, 9, 10, 16, 24}
  Streams = {0}
  Epochs = {1, 2}
  Reports = {6}
  TaskResults = {"ok", "err"}
  StopWindows = {FALSE}
  SignalTicks = {9}
  ResumeDelay = 0
  MaxJump = 8
  MaxRegress = 0
  TickInfos <- MCTickInfos
  StatusTicks <- MCStatusTicks
INVARIANTS
  TypeOK
  NothingCrossesEpochs
PROPERTIES
  ImplementsLedger
  ShutdownEnds
