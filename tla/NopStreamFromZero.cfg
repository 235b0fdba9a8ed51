CONSTANTS
  First = 0
  MaxFrames = 3
  MaxWire = 2
  ValidateSenderNID = TRUE
SPECIFICATION Spec
INVARIANTS
  CompletedStreamIsWhole
CHECK_DEADLOCK FALSE
