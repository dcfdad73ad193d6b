SPECIFICATION FairSpec
CONSTANTS
  MaxCalls = 5
  MaxTimers = 2
  Delays <- MCDelays
  Ids = {1, 2}
  MaxServers = 2
  MaxRoutes = 2
  Uris = {1}
INVARIANTS
  CallbacksHeld
  ClearStops
  SignalAccounted
  NoLateCall
PROPERTIES
  TimerFires
  InterruptEnds
