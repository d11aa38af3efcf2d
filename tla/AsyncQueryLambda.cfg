\* Two jobs in batches of up to two, two executors; one invocation cut short, or
\* one failed call or one duplicate delivery, at any point.
\* The system stops when every job is answered or given up.
SPECIFICATION SafetySpec
CONSTANTS
  Jobs = {j1, j2}
  Execs = {e1, e2}
  BatchSize = 2
  SharedCache = TRUE
  MaxTroubles = 1
INVARIANTS
  TypeOK
  AcceptedIsNotLost
  RetrievedStaysGone
CHECK_DEADLOCK FALSE
