SPECIFICATION Spec
CONSTANTS
  MaxTick = 27
  LastTick = 14
  Streams = {0}
  Epochs = {1}
  Reports = {6, 9}
  TaskResults = {"ok", "err"}
  StopWindows = {FALSE}
  SignalTicks = {}
  ResumeDelay = 0
  MaxJump = 4
  MaxRegress = 0
  TickInfos <- MCTickInfos
  StatusTicks <- MCStatusTicks
INVARIANTS
  ChainLinks
PROPERTIES
  SignedOnce
  NoCallForgotten
  LossHasOwnCause
  OneFailurePerChain
