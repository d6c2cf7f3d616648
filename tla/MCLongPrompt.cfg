\* A prompt longer than the prefix cache.
CONSTANTS
  r1 = r1
  r2 = r2
  r3 = r3
  Requests <- MCRequests
  Prompt <- MCLong
  BlockSize = 1
  NumBlocks = 5
  MaxCached = 2
  PrefixCache = TRUE
  NumSlots = 2
  Hybrid = TRUE
  MaxBatch = 2
  MaxLength = 4
SPECIFICATION BCSpec
INVARIANTS InUseNotFree
CHECK_DEADLOCK FALSE
