SPECIFICATION Spec
CONSTANTS
  Clients = {a, b, c}
  MaxOps = 4
  MaxFaults = 2
INVARIANTS TypeOK NoHalves UpdatesKept Heals
SYMMETRY Symmetry
CHECK_DEADLOCK FALSE
