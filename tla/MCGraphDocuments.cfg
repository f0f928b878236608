SPECIFICATION Spec
CONSTANTS
  Clients = {a, b}
  Segments = {s, t}
  Entities = {e}
  Copies = {x, y, z}
  MaxOps = 3
  MaxFaults = 1
INVARIANTS TypeOK SourcesExact RemovalComplete
SYMMETRY Symmetry
CHECK_DEADLOCK FALSE
