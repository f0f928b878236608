\* A write lost without any failure: a flush between the two sections of markDirty.
SPECIFICATION Spec
CONSTANTS
  Keys = {k1}
  Writers = {w}
  Readers = {}
  Flushers = {worker}
  Worker = worker
  CacheSize = 1
  MaxOps = 3
  Free = Free
  NoKey = NoKey
INVARIANTS
  EveryWriteKept
CHECK_DEADLOCK FALSE
