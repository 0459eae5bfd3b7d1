CONSTANTS
  Operations = {"call", "emit", "request", "pump", "load"}
  Timeouts = {0, 2, 7, 8, 12}
  Max = 9
  MaxEntries = 2
  MaxJobs = 1
  MaxTime = 5
  MaxStart = 3
SPECIFICATION FairSpec
INVARIANTS
  StopsExactly
  SeenStopIsReported
PROPERTIES
  DeliveryEnds
CHECK_DEADLOCK FALSE
