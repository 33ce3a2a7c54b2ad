SPECIFICATION Spec
CONSTANTS
  Handlers = {h1}
  Games = {g1, g2}
  None = None
INVARIANTS
  TypeOK
  OperationsExclusive
  OfflineWhileReplacing
  MaintenanceScoped
  NoServerStranded
  ExitsDrained
PROPERTY
  StopCompletes
