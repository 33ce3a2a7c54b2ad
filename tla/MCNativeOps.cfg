SPECIFICATION Spec
CONSTANTS
  Runs = {p1, p2}
  Retention = 2
  MaxFaults = 2
  None = None
INVARIANTS
  TypeOK
  CopiedOffline
  NobodyStranded
CHECK_DEADLOCK FALSE
