\* One job, one executor, nothing goes wrong.
\* The system stops when every job is answered or given up.
SPECIFICATION Spec
CONSTANTS
  Jobs = {j1}
  Execs = {e1}
  BatchSize = 1
  SharedCache = TRUE
  MaxTroubles = 0
PROPERTIES
  ExpiredIsRemoved
CHECK_DEADLOCK FALSE
