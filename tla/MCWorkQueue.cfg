SPECIFICATION FairSpec
CONSTANTS
  N = 4
  MaxItems = 5
INVARIANTS
  DequeueFindsItem
  NothingLost
  NoLostWakeup
PROPERTIES
  StopCompletes
