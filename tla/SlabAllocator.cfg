\* malloc mode: 64 bytes of limit for pages of 16 bytes.
CONSTANTS
  power_largest <- MClargest
  size <- MCsize
  perslab <- MCperslab
  item_size_max = 16
  mem_limit = 64
  preallocate = FALSE
  ArraySeed = 1
  HeapFails = {TRUE, FALSE}
  NULL = NULL
  Requests <- MCRequests
  AllSettings <- MCAllSettings
  initial_malloc = 16
SPECIFICATION Spec
INVARIANTS TypeOK EndPageExact ChunksPartitioned ArraysInBounds MemoryBounded RequestedExact ClassesFit
