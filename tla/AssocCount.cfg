\* hash_items starts with what the memory held.
CONSTANTS
  Keys <- MCKeys
  Hash <- MCHash
  SameBytes <- MCSameBytes
  InitHashpower = 0
  CounterMod = 8
  CallocFails = {FALSE}
  ThreadFails = {FALSE}
  NULL = NULL
  Items <- MCItems
  InitHashItems = {0, 3}
SPECIFICATION Spec
INVARIANT HashItemsExact
