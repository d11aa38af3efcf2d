SPECIFICATION Spec
CONSTANTS
    NumThings = 2
    PageSize = 1
    MaxCommits = 1
    DayLength = 2
    TodayTtl = 1
    MaxNow = 4
    MaxQueries = 2
    MaxFailures = 1
INVARIANTS
    TypeOK
    SettledIsReported
    CountedOnce
    FailuresShow
PROPERTY
    Answered
CHECK_DEADLOCK FALSE
