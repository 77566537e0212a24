\* A kcp session dies while it is pooled.
SPECIFICATION Spec
CONSTANTS
    Dialers = {p1, p2}
    Addrs = {a1}
    Sessions = {s1, s2, s3}
    Kinds <- Kcp
INVARIANTS
    DeadIsRebuilt
CHECK_DEADLOCK FALSE
