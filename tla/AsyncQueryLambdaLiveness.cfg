\* Two jobs in batches of up to two, one executor, one trouble: what is too slow
\* to check with two executors.
\* The system stops when every job is answered or given up.
SPECIFICATION Spec
CONSTANTS
  Jobs = {j1, j2}
  Execs = {e1}
  BatchSize = 2
  SharedCache = TRUE
  MaxTroubles = 1
PROPERTIES
  AcceptedIsSettled
  AnswerReachesClient
CHECK_DEADLOCK FALSE
