SPECIFICATION Spec
CONSTANTS
  max_connections = 1
  HEADROOM = 2
  MaxPeers = 2
  MaxReads = 3
  MaxWrites = 2
  Left = {FALSE, TRUE}
INVARIANT
  BuffersOutliveWrites
