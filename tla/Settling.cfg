CONSTANTS
  p1 = p1
  p2 = p2
  p3 = p3
  Promises = {p1, p2, p3}
  MaxEntries = 2
  MaxJobs = 2
  MaxTasks = 2
  Faults = {"catch_overridden"}
SPECIFICATION Spec
SYMMETRY Symmetry
INVARIANTS
  RejectionsReported
  PanicSurfaces
  NothingLeaks
CHECK_DEADLOCK FALSE
