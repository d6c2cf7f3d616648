\* A small prefix cache: shared and nested prefixes, eviction, and blocks displaced by
\* others with the same first token.
CONSTANTS
  r1 = r1
  r2 = r2
  r3 = r3
  Requests <- MCRequests
  Prompt <- MCPrompts
  BlockSize = 2
  NumBlocks = 4
  MaxCached = 2
  PrefixCache = TRUE
  NumSlots = 2
  Hybrid = TRUE
  MaxBatch = 2
  MaxLength = 5
SPECIFICATION BCSpec
INVARIANTS BCTypeOK ReadsOwnKV NothingLeaks HitsAreOwnPrefix
CHECK_DEADLOCK FALSE
