\* Liveness: readers take no part in persistence and are left out.
SPECIFICATION FairSpec
CONSTANTS
  Keys = {k1, k2}
  Writers = {w}
  Readers = {}
  Flushers = {worker}
  Worker = worker
  CacheSize = 1
  MaxOps = 3
  Free = Free
  NoKey = NoKey
PROPERTIES
  EventuallyDurable
CHECK_DEADLOCK FALSE
