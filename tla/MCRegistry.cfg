SPECIFICATION RegistrySpec
CONSTANTS
  WorldNames = {n1, n2, n3}
  Default = d
  Base = {1, 11, 5}
  Stride = 10
  MaxPort = 70
  MaxFailures = 2
  MaxRestarts = 3
SYMMETRY Symmetry
INVARIANTS
  RegistryTypeOK
  SelectionListed
  PortsDisjoint
  MadeIsKept
CHECK_DEADLOCK FALSE
