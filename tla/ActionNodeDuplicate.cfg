SPECIFICATION Spec
CONSTANTS
  Req = {r1, r2}
  Key = {k}
  NoKey = NoKey
  IdempotencyTTL = 1
  TaskRetention = 1
  MaxTime = 0
INVARIANTS
  NoConcurrentExecution
