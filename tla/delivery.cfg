SPECIFICATION Spec
CONSTANTS
  MaxTick = 27
  LastTick = 8
  Streams = {1, 2}
  Epochs = {1}
  Reports = {}
  TaskResults = {"pending", "ok", "err"}
  StopWindows = {FALSE}
  SignalTicks = {}
  ResumeDelay = 1
  MaxJump = 3
  MaxRegress = 1
  TickInfos <- MCTickInfos
  StatusTicks <- MCStatusTicks
INVARIANTS
  NoTaskPastTarget
PROPERTIES
  DisclosureGate
