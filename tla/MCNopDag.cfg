CONSTANTS
  MaxDagNodes = 3
  MaxEdges = 3
  a = a
  b = b
  c = c
  d = d
SPECIFICATION Spec
INVARIANTS
  AcceptsExactlyAcyclic
  OrderIsTopological
  ReachIsPath
CHECK_DEADLOCK FALSE
