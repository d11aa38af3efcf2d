\* The SAM template: the API function has no ASYNC_QUERY_RESULT_TTL; BatchSize is 1.
\* The system stops when every job is answered or given up.
SPECIFICATION Spec
CONSTANTS
  Jobs = {j1}
  Execs = {e1}
  BatchSize = 1
  SharedCache = FALSE
  MaxTroubles = 0
PROPERTIES
  AnswerReachesClient
CHECK_DEADLOCK FALSE
