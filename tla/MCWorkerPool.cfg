SPECIFICATION FairSpec
CONSTANTS
  NWorkers = 1
  QUEUE_DEPTH = 2
  RESULT_QUEUE_DEPTH = 3
  MaxJobs = 4
  DropInCallback = FALSE
INVARIANTS
  NoLostResult
  NoUseOfDeletedManager
PROPERTIES
  CloseReturnsWhenRoom
  ProcessEnds
