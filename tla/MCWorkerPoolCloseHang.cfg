SPECIFICATION FairSpec
CONSTANTS
  NWorkers = 1
  QUEUE_DEPTH = 2
  RESULT_QUEUE_DEPTH = 2
  MaxJobs = 3
  DropInCallback = FALSE
PROPERTY
  CloseReturns
