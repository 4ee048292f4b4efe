\* Nothing is ever late: a query is answered while the program sleeps, and the
\* answer is stale when it wakes.
SPECIFICATION FairSpec
CONSTANTS
    Period = 3
    MaxAge = 2
    QueryWait = 4
    StartupWait = 4
    MaxStale = 3
    Phases <- MCPhases
    LogQueries <- MCLogQueries
    MotorCount = 2
    MaxLate = 0
    MaxAnswers = 1
INVARIANT QueryAnswersUsable
CHECK_DEADLOCK FALSE
