\* A key that is a prefix of another key with the same hash.
CONSTANTS
  Keys <- MCKeys
  Hash <- MCHash
  SameBytes <- MCPrefix
  InitHashpower = 0
  CounterMod = 8
  CallocFails = {FALSE}
  ThreadFails = {FALSE}
  NULL = NULL
  Items <- MCItems
  InitHashItems = {0}
SPECIFICATION Spec
INVARIANT FindExact
