\* One client: its worker may signal before it waits.
CONSTANTS
  Workers = {w1, w2}
  Clients = {c1}
  QUEUE_SIZE = 2
  Jobs <- MCJobs
  NullJobs = {}
  NULL = NULL
  MaxCalls = 2
CHECK_DEADLOCK FALSE

SPECIFICATION LocalSpec
PROPERTY ClientsAnswered
