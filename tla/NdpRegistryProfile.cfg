CONSTANTS
  Nid = {x}
  Body = {b1, b2}
  MaxSeq = 2
  MaxTTL = 1
  MaxTime = 2
  ClockWindow = 1
SPECIFICATION Spec
INVARIANTS
  TypeOK
  
PROPERTIES
  OneBodyPerSequence
  ReturnNeedsNewer
