SPECIFICATION Spec
CONSTANTS
  Runs = {p1, p2}
  Retention = 2
  MaxFaults = 2
  None = None
INVARIANT
  ChosenSurvives
CHECK_DEADLOCK FALSE
