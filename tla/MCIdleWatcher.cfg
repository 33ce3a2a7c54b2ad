SPECIFICATION Spec
CONSTANTS
  Timeout = 3
  Grace = 1
  MaxLife = 2
  None = None
INVARIANTS
  TypeOK
  AskedOnce
PROPERTIES
  ShutdownJustified
  EmptyServerStopped
