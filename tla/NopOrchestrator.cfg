CONSTANTS
  MaxDagNodes = 4
  a = a
  b = b
  c = c
  d = d
  Node = {a, b, c, d}
  Caller = {"e1", "e2"}
  Code = {"transient", "fatal"}
  MaxConcurrentNodes = 2
  MaxDelegateChainDepth = 3
  CallbackMaxRetries = 3
  MaxCancels = 1
  Tasks <- SafetyTasks
SPECIFICATION Spec
INVARIANTS
  TypeOK
  SingleRunner
  ConcurrencyBound
  LaunchedWithInputs
  NoGoroutineLeft
  ReportsAgree
  Compensated
PROPERTIES
  SubtaskFinal
CHECK_DEADLOCK FALSE
