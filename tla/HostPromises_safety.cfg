CONSTANTS
  c1 = c1
  c2 = c2
  c3 = c3
  NumVersions = 2
  Calls <- MCCalls
  VersionOf <- MCVersionOf
  Faults = {"interrupt", "settle_fails", "encoder_panics"}
SPECIFICATION Spec
INVARIANTS
  SafetyInv
PROPERTY
  OneShotSpec
CHECK_DEADLOCK FALSE
