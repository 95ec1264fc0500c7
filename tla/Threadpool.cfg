\* Two workers, three clients, fewer slots than clients, a job with no routine.
CONSTANTS
  Workers = {w1, w2}
  Clients = {c1, c2, c3}
  QUEUE_SIZE = 2
  Jobs = {j1, j2}
  NullJobs = {j2}
  NULL = NULL
CHECK_DEADLOCK FALSE
SPECIFICATION Spec
INVARIANTS NoSlotTwice OnlyNullJobsLost NoSleepBesideWork
PROPERTIES ImplementsExecutor TasksAreStarted WaitersAreWoken WorkersAreJoined
