\* Connections of two sessions, closed by either side, late and early.
SPECIFICATION Spec
CONSTANTS
    Sessions = {s1, s2}
    Names <- TwoNames
    Services <- TwoServices
    Passwords <- TwoPasswords
    AdminPasswords <- Root
    Proxy <- Proxies
    Initial <- OneProxy
    StreamKey <- Slashed
    MaxStreams = 2
    MaxConns = 2
    MaxProxies = 2
SYMMETRY Symmetry
INVARIANTS
    TableConsistent
    NoStreamOfEndedSession
    NoForeignClose
CHECK_DEADLOCK FALSE
