SPECIFICATION AnswersSpec
CONSTANTS
  Limit = 5
  MaxBody = 9
  Deadline = 2
  Cut = 4
  WorkTimes = {0, 1, 5}
  MaxClock = 8
  MaxRestarts = 1
  MaxU32 = 7
  MaxDigests = 2
  Checked = {1, 2}
  Others = {"p", "q"}
  Streams = {0, 1}
  Tiers = {0, 9}
  Updates = {5, 6}
  MaxSlots = 4
  MaxTick = 27
  FirstTarget = 6
  LastTarget = 15
  SeenTicks = {4, 5, 6, 9}
  RequestTicks = {6, 8, 10, 11, 12}
  MaxResponses = 4
INVARIANTS
  LimitIsExact
  DataIsFresh
  TimeoutsBlameTheRightOne
  ConclusionsAreTrue
  StatusIsReadOrRefused
  FrozenExactlyOnEvidence
CHECK_DEADLOCK FALSE
