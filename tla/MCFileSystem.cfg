SPECIFICATION FairSpec
CONSTANTS
  Threads = 2
  MaxOpens = 2
  MaxReads = 2
  Lens = {1, 2}
INVARIANTS
  LiveRequests
  RightFile
  FdKnown
PROPERTIES
  CloseFinishes
  CallbackCalled
