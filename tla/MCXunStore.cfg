\* Two keys and room for one in the cache; a writer, a reader and the background
\* worker; database calls of a flush may fail.  The system may stop: operations
\* are bounded and the worker may be closed.
SPECIFICATION Spec
CONSTANTS
  Keys = {k1, k2}
  Writers = {w}
  Readers = {r}
  Flushers = {worker}
  Worker = worker
  CacheSize = 1
  MaxOps = 3
  Free = Free
  NoKey = NoKey
SYMMETRY KeySymmetry
INVARIANTS
  TypeOK NothingForgotten CloseDurable
PROPERTIES
  ImplementsWriteBehind
CHECK_DEADLOCK FALSE
