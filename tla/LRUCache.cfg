\* Two clients, three keys, and three chunks of which the search from the tail
\* looks at two; a table that expands; references held as long as the premise allows.
CONSTANTS
  power_largest = 1
  size <- MCsize
  perslab <- MCperslab
  item_size_max = 24
  mem_limit = 24
  preallocate = FALSE
  ArraySeed = 1
  HeapFails = {FALSE}
  Keys = {k1, k2, k3}
  Hash <- MCHash
  SameBytes <- MCSameBytes
  InitHashpower = 0
  CounterMod = 16
  CallocFails = {FALSE}
  ThreadFails = {FALSE}
  NULL = NULL
  TAIL_REPAIR_TIME = 2
  ITEM_UPDATE_INTERVAL = 1
  SEARCH_ITEMS = 2
  RefMod = 8
  Clients = {t1, t2}
  Vals = {v1}
  ItemBytes = {8, 9}
  MaxHold = 1
  StartTime = 1
  MaxTime = 4
SYMMETRY MCSymmetry
VIEW MCView
SPECIFICATION Spec
INVARIANTS AssertsHold LinkedEverywhere RefcountExact NoChunkLeaked HeldIntact
  LeastRecentAtTail TimeLagBounded AllocFailsOnlyIfHeld
PROPERTIES EvictsOldestUnused
