SPECIFICATION Spec
CONSTANTS
  Threads = {t1, t2}
  Names = {"n2"}
  Edits <- AllEdits
  Spelling <- Legacy
  Counts = {"10"}
  Tokens = {"set", "surrogate"}
  Times = {"t1"}
  Passwords = {"", "p1", "reserved", "surrogate"}
  Bases <- AllBases
  MaxFaults = 1
  MaxCrashes = 1
  None = None
SYMMETRY Symmetry
INVARIANTS
  TypeOK
  StaysStartable
  WizardOnce
  CacheCurrent
PROPERTY ImplementsAtomic
CHECK_DEADLOCK FALSE
