SPECIFICATION MonitoredSpec
CONSTANTS
  MaxTick = 17
  LastTick = 10
  Streams = {0}
  Epochs = {1}
  Reports = {6}
  TaskResults = {"ok", "err"}
  StopWindows = {FALSE}
  SignalTicks = {8}
  ResumeDelay = 0
  MaxJump = 1
  MaxRegress = 0
  CheckDelay = 1
  CheckWindow = 1
  AnswerKinds = {"empty", "err"}
  TickInfos <- MCTickInfos
  StatusTicks <- MCStatusTicks
INVARIANTS
  AcceptedRevealsCounted
  OneFailureCounted
