SPECIFICATION FairSpec
CONSTANTS
    Period = 3
    MaxAge = 2
    QueryWait = 3
    StartupWait = 3
    MaxStale = 3
    Phases <- MCPhases
    LogQueries <- MCLogQueries
    MotorCount = 2
    MaxLate = 3
    MaxAnswers = 1
INVARIANTS
    TypeOK
    SilenceBound
    MovesLimited
    LeftAsFound
PROPERTIES
    Finishes
\* The program ends.
CHECK_DEADLOCK FALSE
