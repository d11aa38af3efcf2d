SPECIFICATION Spec
CONSTANTS
    Readers = {r1, r2}
    NoReader = NoReader
    NoItem = NoItem
    DayLength = 2
    ItemTtl = 1
    TokenLife = 1
    MaxNow = 3
    MaxRequests = 3
    MaxFaults = 1
INVARIANTS
    TypeOK
    PermanentDayIsComplete
    OneSharedQuery
    CopiesAreBounded
    RefreshTokenIsKept
PROPERTY
    Answered
CHECK_DEADLOCK FALSE
