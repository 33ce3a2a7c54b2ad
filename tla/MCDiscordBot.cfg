SPECIFICATION Spec
CONSTANTS
  Users = {u1, u2}
  MaxRuns = 2
  MaxFaults = 2
  None = None
INVARIANTS
  TypeOK
  OutcomeAtRest
PROPERTIES
  NoStaleOutcome
  UpdateAnswered
