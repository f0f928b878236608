SPECIFICATION Spec
CONSTANTS
  Uses <- MCEmptyUses
  MaxFaults = 0
  BatchSize = 2
  MaxAnswer = 2
INVARIANTS NoEmptyChunk
CHECK_DEADLOCK FALSE
