\* Two threads, two chunks, four calls; leaked references are repaired.
CONSTANTS
  power_largest = 1
  size <- MCsize
  perslab <- MCperslab
  item_size_max = 16
  mem_limit = 16
  preallocate = FALSE
  ArraySeed = 1
  HeapFails = {FALSE}
  Keys <- MCKeys
  Hash <- MCHash
  SameBytes <- MCSameBytes
  InitHashpower = 0
  CounterMod = 16
  CallocFails = {FALSE}
  ThreadFails = {FALSE}
  NULL = NULL
  TAIL_REPAIR_TIME = 2
  ITEM_UPDATE_INTERVAL = 1
  SEARCH_ITEMS = 2
  RefMod = 65536
  Threads = {t1, t2}
  Vals = {v1, v2}
  ItemBytes = {8}
  MaxHold = 1
  StartTime = 1
  MaxTime = 4
  MaxCalls = 4
SYMMETRY MCThreads
CHECK_DEADLOCK FALSE
SPECIFICATION Spec
INVARIANTS AssertsHold UsedItemsAreNotFree UsedItemsAreLocked
PROPERTIES ImplementsLossyMap
