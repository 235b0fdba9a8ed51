SPECIFICATION Spec
CONSTANTS
  Owner = {alice}
  Ctx = {c1, c2}
  Key = {k1, k2}
  Binding = {b1, b2}
  None = None
  MaxContextsPerPrincipal = 2
  DefaultTTL = 4
  MaxTTL = 3
  TombstoneSeconds = 2
  IdempotencyTTL = 2
  TTLs = {0, 1}
  MaxReservations = 3
  MaxTime = 4
INVARIANTS
  TypeOK
  AllocationBound
  ReservationHoldsContext
  ClaimsAreRunning
  ReceiptsResolve
PROPERTIES
  VersionNamesContent
