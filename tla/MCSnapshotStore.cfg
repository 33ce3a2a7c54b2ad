SPECIFICATION Spec
CONSTANTS
  MaxStamp = 4
  Retention = 2
INVARIANTS
  TypeOK
  PartialIsSuperseded
  ReturnedIsKept
