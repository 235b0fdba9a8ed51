SPECIFICATION FairSpec
CONSTANTS
  Req = {r1, r2}
  Key = {k}
  NoKey = NoKey
  IdempotencyTTL = 1
  TaskRetention = 0
  MaxTime = 1
INVARIANTS
  TypeOK
PROPERTIES
  TaskMovesForward
  CancelIsNoFailure
  
  
CHECK_DEADLOCK FALSE
