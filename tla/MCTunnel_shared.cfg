\* A slow and a fast connection on a session that may break; a window's worth
\* of chunks fits the queue.
SPECIFICATION FairSpec
CONSTANTS
    Conns <- TwoConns
    StreamIDs <- FirstConn
    MaxUp <- TwoAndOne
    MaxDown <- FastAnswers
    Win = 1
    Batch = 1
    QCap = 1
    SinkCap = 1
    LinkCap = 1
    Events <- OnlyDrop
    Slow <- FirstConn
PROPERTIES
    UpDelivered
    DownDelivered
    DisconnectCleansUp
CHECK_DEADLOCK FALSE
