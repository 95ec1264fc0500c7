\* Two workers, two clients of the repository and one that is not.
CONSTANTS
  nworkerthreads = 2
  nvirtualclient = 2
  Others = {o}
  STOPPER = STOPPER
  Requesters <- MCRequesters
  ChG = ChG
  ChM = ChM
  key <- MCkey
  value <- MCvalue
  Keys <- MCKeys
  Vals <- MCVals
  ProxyInTime = TRUE
  NUL = NUL
  NULL = NULL
CHECK_DEADLOCK FALSE
SPECIFICATION Spec
INVARIANTS OwnSockets
PROPERTIES StartsEnd RequestsAreAnswered ImplementsService
