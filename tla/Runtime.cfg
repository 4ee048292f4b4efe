SPECIFICATION FairSpec
CONSTANTS
    Client = {c1, c2}
    DriverCount = 2
    FixedPort = {1}
    MaxRuntime = 3
INVARIANTS
    TypeOK
    NothingUsedAfterFree
    CommandsReachRunning
    NoneLeaked
PROPERTIES
    ReplacedIsFreed
\* Clients stop when MaxRuntime runtimes were made and none is left.
CHECK_DEADLOCK FALSE
