SPECIFICATION Spec
CONSTANTS
  Snapshots = {a, b}
  MaxRestores = 3
  MaxFaults = 2
  Crashes = TRUE
INVARIANTS
  TypeOK
  NothingDestroyed
  SavedFirst
CHECK_DEADLOCK FALSE
