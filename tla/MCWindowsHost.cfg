SPECIFICATION Spec
CONSTANTS
  Threads = {t1}
  UpdateTime <- EveryHour
  BackupTime <- Daily
  MinutesPerHour = 2
  HoursPerDay = 2
  MaxTime = 2
  None = None
INVARIANTS
  TypeOK
  FlagScoped
  ColdCopy
  NobodyStranded
  OncePerSlot
PROPERTY MaintenanceEnds
CHECK_DEADLOCK FALSE
