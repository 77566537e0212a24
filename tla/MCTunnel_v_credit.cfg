\* An answer larger than the window.
SPECIFICATION FairSpec
CONSTANTS
    Conns <- OneConn
    StreamIDs <- FirstConn
    MaxUp <- Nothing
    MaxDown <- UpTo3
    Win = 2
    Batch = 1
    QCap = 1
    SinkCap = 1
    LinkCap = 1
    Events <- NoEvents
    Slow <- NoConns
PROPERTIES
    DownDelivered
CHECK_DEADLOCK FALSE
