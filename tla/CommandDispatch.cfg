SPECIFICATION FairSpec
CONSTANTS
    c1 = c1
    c2 = c2
    Client = {c1, c2}
    DriverCount = 2
    Device = {1, 2, 3}
    DriverOf <- MCDriverOf
    Call <- MCCall
    MaxFrames = 2
    SlotCount = 1
    MaxCalls <- MCMaxCalls
INVARIANTS
    ResultIsTrue
    PacketsOfOneCall
    InCallOrder
PROPERTIES
    CallReturns
\* The system stops when every client has made its calls.
CHECK_DEADLOCK FALSE
