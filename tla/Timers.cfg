CONSTANTS
  NumScripts = 2
  Delays = {0, 1}
  Steps = {0, 1}
  MaxTimers <- TimersOfEach
  MaxClock = 1
SPECIFICATION TimersSpec
INVARIANTS
  EarliestIsEarly
  NextIsExact
PROPERTIES
  IsTimerService
CHECK_DEADLOCK FALSE
