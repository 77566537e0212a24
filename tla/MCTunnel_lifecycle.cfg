\* One connection under every event.
SPECIFICATION FairSpec
CONSTANTS
    Conns <- OneConn
    StreamIDs <- FirstConn
    MaxUp <- UpTo3
    MaxDown <- UpTo1
    Win = 2
    Batch = 1
    QCap = 1
    SinkCap = 1
    LinkCap = 2
    Events <- AllEvents
    Slow <- NoConns
INVARIANTS
    CreditConserved
    ServerIsTold
PROPERTIES
    ImplementsPipe
    HandlerEnds
CHECK_DEADLOCK FALSE
