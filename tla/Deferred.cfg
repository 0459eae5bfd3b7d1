CONSTANTS
  r1 = r1
  k1 = k1
  NumScripts = 2
  Requests = {r1}
  DeferredCalls = {k1}
  MaxHandlers = 2
  Faults = {"watch_fails"}
SPECIFICATION Spec
INVARIANTS
  ActiveTasksExact
  AnswerIsFinal
  UnfinishedRequestHasTask
PROPERTIES
  RepliesOfLoadedVersions
  RepliesInOrder
CHECK_DEADLOCK FALSE
