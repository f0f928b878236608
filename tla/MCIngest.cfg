SPECIFICATION Spec
CONSTANTS
  Uses <- MCUses
  MaxFaults = 2
  BatchSize = 2
  MaxAnswer = 2
INVARIANTS TypeOK StatusTells TextKept Hierarchy
PROPERTIES AddFileEnds
CHECK_DEADLOCK FALSE
