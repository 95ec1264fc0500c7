\* Two expansions, failures of calloc and pthread_create, hash_items off by 3 or right.
CONSTANTS
  Keys <- MCKeys
  Hash <- MCHash
  SameBytes <- MCSameBytes
  InitHashpower = 0
  CounterMod = 8
  CallocFails = {TRUE, FALSE}
  ThreadFails = {TRUE, FALSE}
  NULL = NULL
  Items <- MCItems
  InitHashItems = {0, 3}
SPECIFICATION Spec
INVARIANTS FindExact OnePlaceEach OneMigrator
PROPERTIES ExpansionEnds ImplementsMap
