CONSTANTS
  MaxDagNodes = 4
  a = a
  b = b
  c = c
  d = d
  Node = {a, b, c}
  Caller = {"e1"}
  Code = {"transient", "fatal"}
  MaxConcurrentNodes = 2
  MaxDelegateChainDepth = 3
  CallbackMaxRetries = 3
  MaxCancels = 0
  Tasks <- LivenessTasks
SPECIFICATION FairSpec
PROPERTIES
  ExecuteReturns
  GoroutineEnds
CHECK_DEADLOCK FALSE
