SPECIFICATION Spec
CONSTANTS
  n1 = n1
  n2 = n2
  n3 = n3
  Nodes <- MCNodes
  Cap <- MCCap
  Reports <- MCReports
  NumLayers = 2
  NoRange = NoRange
  MaxPid = 3
  MaxBatch = 2
  MinNodes = 2
  MaxCrashes = 1
  MaxStalls = 1
  MaxRejoins = 0
  MaxRequests = 0
  MaxPending = 1
SYMMETRY MCSymmetry
INVARIANTS
  TypeOK
  RegisteredPipelinesServe
  LayersFollowState
  
  
  
PROPERTIES
  PipelinesOutliveOthers
