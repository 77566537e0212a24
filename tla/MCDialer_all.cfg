\* Faults and Close at any moment.
SPECIFICATION FairSpec
CONSTANTS
    NStreams = 2
    Sessions <- ThreeSessions
    Base = 1
    Max = 5
    MaxFaults = 3
    MayClose = TRUE
INVARIANTS
    ClientIsRegistered
PROPERTIES
    EventuallyServed
    CloseEndsSession
CHECK_DEADLOCK FALSE
