SPECIFICATION InfFairSpec
CONSTANTS
  NWorkers = 2
  QUEUE_DEPTH = 2
  RESULT_QUEUE_DEPTH = 3
  MaxJobs = 3
  DropInCallback = FALSE
  TOKEN_GEN_MAX = 2
INVARIANTS
  StreamOwnedOnce
  StreamsCounted
  ModelsOutliveUse
PROPERTY
  StreamEnds
