SPECIFICATION Spec
CONSTANTS
  Snapshots = {a, b}
  MaxRestores = 3
  MaxFaults = 1
  Crashes = FALSE
PROPERTY
  ImplementsAtomic
CHECK_DEADLOCK FALSE
