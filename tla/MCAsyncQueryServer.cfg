\* Two jobs, one polled by two callers and one by nobody; a worker with two loops;
\* one restart.
\* The system stops when every job is answered or gone and no restart is left.
SPECIFICATION ServerSpec
CONSTANTS
  j1 = j1
  c1 = c1
  c2 = c2
  Jobs = {j1, j2}
  Loops = {l1, l2}
  Concurrency = 2
  NoJob = NoJob
  Clients = {c1, c2}
  JobOf <- MCJobOf
  MaxRestarts = 1
INVARIANTS
  ServerTypeOK
  NoJobForgotten
  RetrievedStaysGone
  NotFoundIsExcused
PROPERTIES
  ImplementsLifecycle
  PollingIsAnswered
  ExpiredIsRemoved
CHECK_DEADLOCK FALSE
