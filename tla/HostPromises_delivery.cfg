CONSTANTS
  c1 = c1
  c2 = c2
  c3 = c3
  NumVersions = 2
  Calls <- MCTwoCalls
  VersionOf <- MCTwoVersionOf
  Faults = {"interrupt"}
SPECIFICATION FairSpec
INVARIANTS
  NoLostWake
  WaitingCanSettle
PROPERTY
  AnswerReachesScript
CHECK_DEADLOCK FALSE
