SPECIFICATION ProbeSpec
CONSTANTS
    Config <- MCConfig
    KnownModel = {"EC-A2806-P2-36", "EC-A4310-P2-36", "EC-A10020-P1-12/6"}
    EmptyName = ""
    MaxCanId = 2047
    MaxSlots = 8388607
    Parsable = {"127.0.0.1"}
    Unavailable = {8000}
    NaN = NaN
    Calling <- MCCalling
    MaxCalls = 2
    MaxInFlight = 1
    MaxFaults = 2
    Factory <- MCFactory
    Physical <- MCPhysical
    Noise <- MCNoise
    Probing <- MCProbing
    Queries <- MCQueries
    MaxRounds = 2
INVARIANTS
    RoutesAgree
    AcceptsWellFormed
    CommandsUnderstood
    SamplesTrue
    ConfigComesBack
    TimeoutOnlyWhileProbed
\* init ends in "rejected", callers stop calling, the program ends.
CHECK_DEADLOCK FALSE
