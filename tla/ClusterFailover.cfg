CONSTANTS
  Nid = {a, b}
  Anchor = {a, b}
  Client = {d}
  CarefulOwners = TRUE
  MaxEpoch = 2
  MaxTTL = 1
  MaxTime = 1
  MaxDeliveries = 1
  MaxQuorumLoss = 1
SPECIFICATION FairSpec
INVARIANTS
  
  
  CacheIsAClaim
PROPERTIES
  CacheAdvances
  AnswerNotStale
  
CHECK_DEADLOCK FALSE
