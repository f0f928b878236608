\* A pool of one runner, which the race in create makes two; a Context executes
\* once.  The system may stop: operations are bounded.
SPECIFICATION FairSpec
CONSTANTS
  Callers = {c1, c2}
  Min = 1
  Max = 1
  Ticks = 2
  UintMod = 4
  MaxRunners = 3
  MaxCalls = 1
  MaxExecs = 2
  NoRunner = NoRunner
  NoRequest = NoRequest
  ByStart = ByStart
  ByScaling = ByScaling
  BySelect = BySelect
INVARIANTS
  TypeOK OnePlace OwnResponse NoSelfBlock
PROPERTIES
  ProcessReturns RunnerReturns
CHECK_DEADLOCK FALSE
