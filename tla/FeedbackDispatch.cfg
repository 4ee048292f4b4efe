SPECIFICATION Spec
CONSTANTS
    m1 = m1
    m2 = m2
    Motor = {m1, m2}
    NoMotor = NoMotor
    Port = {0, 1}
    CanId = {1, 2047}
    BroadcastId = 2047
    AddressOf <- MCAddressOf
    Packet <- MCPacket
    MaxFrames = 3
    MaxTime = 2
INVARIANTS
    TypeOK
    LatestWins
    SnapshotIsOneStatus
    TimesFollowNumbers
PROPERTIES
    SamplesAdvance
