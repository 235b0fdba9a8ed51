CONSTANTS
  MaxDagNodes = 4
  a = a
  b = b
  c = c
  d = d
  Node = {a, b, c, d}
  Caller = {"e1"}
  Code = {"transient", "fatal"}
  MaxConcurrentNodes = 2
  MaxDelegateChainDepth = 3
  CallbackMaxRetries = 3
  MaxCancels = 0
  Tasks <- UndoTask
SPECIFICATION Spec
INVARIANTS
  FailureCompensatesCompleted
CHECK_DEADLOCK FALSE
