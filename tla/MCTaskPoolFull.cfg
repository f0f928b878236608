\* One worker, a queue of one and four jobs: one with the worker, one with the
\* dispatcher, one in the queue and one in Add.
SPECIFICATION FairSpec
CONSTANTS
  Jobs = {1, 2, 3, 4}
  Workers = {1}
  Ids = {1, 2, 3, 4}
  QueueCap = 1
  HasNextID = FALSE
  HandlerID <- MCHandlerID
  NoJob = NoJob
  NoWorker = NoWorker
  Free = Free
PROPERTIES
  AddReturns
CHECK_DEADLOCK FALSE
