SPECIFICATION Spec
CONSTANTS
  w = w
  a = a
  b = b
  c = c
  d = d
  e = e
  f = f
  Nodes <- MCNodes
  Cap <- MCCap
  Reports <- MCReports
  NumLayers = 2
  NoRange = NoRange
  MaxPid = 6
  MaxBatch = 3
  MinNodes = 6
  MaxCrashes = 2
  MaxStalls = 0
  MaxRejoins = 0
  MaxRequests = 0
  MaxPending = 0
CONSTRAINT Scene
INVARIANTS OnePipelinePerNode
