SPECIFICATION Spec
CONSTANTS
    Requests = {q1, q2}
    Boot = Boot
    NoConfig = NoConfig
    MaxEdits = 2
    MaxErrors = 1
    MaxCallbacks = 2
INVARIANTS
    TypeOK
    OneLoad
    ServedHasConfig
    ServedIsRecent
    ServicesFollowWorkloads
PROPERTY
    EventuallyCurrent
CHECK_DEADLOCK FALSE
