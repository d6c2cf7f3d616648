SPECIFICATION Spec
CONSTANTS
  n1 = n1
  n2 = n2
  Nodes <- MCNodes
  Cap <- MCCap
  Reports <- MCReports
  NumLayers = 2
  NoRange = NoRange
  MaxPid = 4
  MaxBatch = 2
  MinNodes = 2
  MaxCrashes = 1
  MaxStalls = 0
  MaxRejoins = 0
  MaxPending = 1
  MaxRequests = 1
SYMMETRY MCSymmetry
INVARIANTS
  DispatcherSurvives
