SPECIFICATION MonitorSpec
CONSTANTS
  MaxTick = 6
  CheckDelay = 1
  CheckWindow = 1
  LastTick = 5
  Targets = {2, 3}
  MaxJump = 2
  MaxRegress = 1
  MaxResets = 1
INVARIANTS
  CountersAddUp
  WorstOutcome
  VerifiedOnce
  NoneUnwatched
