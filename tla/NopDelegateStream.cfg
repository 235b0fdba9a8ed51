CONSTANTS
  First = 1
  MaxFrames = 4
  MaxWire = 3
  ValidateSenderNID = TRUE
SPECIFICATION FairSpec
INVARIANTS
  CompletedStreamIsWhole
PROPERTIES
  Answered
CHECK_DEADLOCK FALSE
