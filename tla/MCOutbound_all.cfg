\* The pools, the h2 stream and both WebSocket connections.
SPECIFICATION OutFairSpec
CONSTANTS
    Dialers = {p1, p2}
    Addrs = {a1}
    Sessions = {s1, s2, s3}
    Kinds <- BothKinds
    ReadQueue = 1
    MaxDown = 2
    MaxUp = 1
    WsKinds <- BothWs
    Writers = {w1}
    Closers = {c1, c2}
    Scripts <- TwoScripts
    MaxFrames = 2
    MaxWrites = 1
    WireCap = 1
    Transports <- AllTransports
INVARIANTS
    Shared
    NoLostSession
    EofIsTrue
    FramesWhole
PROPERTIES
    DialReturns
    ReadUnblocks
    CloseReturns
CHECK_DEADLOCK FALSE
