\* One job, one executor, one failed call.
\* The system stops when every job is answered or given up.
SPECIFICATION SafetySpec
CONSTANTS
  Jobs = {j1}
  Execs = {e1}
  BatchSize = 1
  SharedCache = TRUE
  MaxTroubles = 1
INVARIANTS
  FailedIsDeliveredAgain
CHECK_DEADLOCK FALSE
