SPECIFICATION LiveSpec
CONSTANTS
  Sends = 1
  MaxTimeouts = 2
  MaxFaults = 1
  MaxLoops = 5
  MaxState = 2
  MaxInFlight = 1
INVARIANTS
  TypeOK
  EveryTimeoutAddsALoop
PROPERTIES
  ImplementsFeed
  ViewCatchesUp
