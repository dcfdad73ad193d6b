SPECIFICATION FairSpec
CONSTANTS
  max_connections = 2
  HEADROOM = 1
  MaxPeers = 3
  MaxReads = 3
  MaxWrites = 2
  Left = {FALSE}
INVARIANTS
  GuardsAccounted
  NoStaleResponse
  OneExchange
  BuffersAccounted
PROPERTIES
  ReleasedQuiet
  SlotReclaimed
