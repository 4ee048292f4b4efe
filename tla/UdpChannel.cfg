SPECIFICATION MCSpec
CONSTANTS
    Value <- MCSlot
    Default = 0
    Capacity = 2
    Sender = {s1, s2}
    MaxSends = 2
    MaxArrivals = 1
INVARIANTS
    SentInOrder
    FlushedIsSent
PROPERTIES
    ImplementsFifo
    StopReturns
\* The channel is stopped and nobody calls it any more, or it has crashed.
CHECK_DEADLOCK FALSE
