SPECIFICATION Spec
CONSTANTS
  n1 = n1
  n2 = n2
  Nodes <- MCNodes
  Cap <- MCCap
  Reports <- MCLoadReports
  NumLayers = 2
  NoRange = NoRange
  MaxPid = 4
  MaxBatch = 3
  MinNodes = 1
  MaxCrashes = 0
  MaxStalls = 1
  MaxRejoins = 1
  MaxPending = 1
  MaxRequests = 1
SYMMETRY MCSymmetry
CHECK_DEADLOCK FALSE
INVARIANTS
  MappedRegistered
  RegisteredPipelinesServe
PROPERTIES
  LeaveDissolvesPipeline
  NMSpec
