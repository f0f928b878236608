\* Unique ids, a queue of one, two workers, Stop and interrupts, deadlines.
SPECIFICATION FairSpec
CONSTANTS
  Jobs = {1, 2, 3}
  Workers = {1, 2}
  Ids = {1, 2, 3}
  QueueCap = 1
  HasNextID = TRUE
  HandlerID <- MCHandlerID
  NoJob = NoJob
  NoWorker = NoWorker
  Free = Free
INVARIANTS
  TypeOK RegistryExact JobInOnePlace ReportedOnce ProgressIsOwn
PROPERTIES
  FinishedForGood EveryJobFinishes StopEndsWaiting
CHECK_DEADLOCK FALSE
