SPECIFICATION JSFairSpec
CONSTANTS
  NWorkers = 2
  QUEUE_DEPTH = 2
  RESULT_QUEUE_DEPTH = 2
  MaxJobs = 3
  DropInCallback = FALSE
  Scripts = {"ok", "missing", "throws", "noprocess"}
INVARIANTS
  CallbackOwnedOnce
  DoorbellCounts
  NoUseOfDeletedWorker
PROPERTIES
  JSJobAnswered
  CloseSilences
\* A job given to a worker without a script keeps the loop waiting for ever.
CHECK_DEADLOCK FALSE
