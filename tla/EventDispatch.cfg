CONSTANTS
  h = h
  k = k
  NumScripts = 4
  GroupOf <- MCGroupOf
  Events = {"e", "f"}
  Handlers = {h, k}
  Listening <- MCListening
  MaxHandlers = 2
  MaxChanges = 2
SPECIFICATION Spec
INVARIANTS
  SnapshotExact
  DeliversAsListed
  CountsServed
CHECK_DEADLOCK FALSE
