SPECIFICATION Spec
CONSTANTS
  Conns = {c1, c2}
  SendCap = 1
  MaxEvents = 4
INVARIANTS TypeOK NoSendOnClosed ResponseIsOwn NoGap
PROPERTIES DeadLeaves StopEndsHub
CHECK_DEADLOCK FALSE
