\* Two workers, two clients, four requests; the sleeper comes at any time.
CONSTANTS
  Workers = {w1, w2}
  Clients = {c1, c2}
  QUEUE_SIZE = 2
  Jobs <- MCJobs
  NullJobs = {}
  NULL = NULL
  MaxCalls = 4
CHECK_DEADLOCK FALSE
SYMMETRY MCThreads
SPECIFICATION LocalSpec
INVARIANTS PrintedIsFinal CountedOnce
