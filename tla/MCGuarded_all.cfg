\* The send window; credentials, zones, connect rules and the router.
SPECIFICATION GuardedSpec
CONSTANTS
    c1 = c1
    c2 = c2
    Callers <- TwoCallers
    Limit = 3
    Sizes <- MixedSizes
    MaxCalls = 2
    MaxSurplus = 1
    MayCancel = TRUE
    MayClose = TRUE
    Reqs <- One3
    NCtrls = 2
    Creds <- TwoCreds
    Sessions = {s1}
    Values <- TwoValues
    Normal <- LowerCase
    Inodes <- One3
    Puts <- One2
    Targets = {t1, t2, t3}
    Picks <- One1
    Rules <- ThreeRules
    Metas <- TwoMetas
    Parts <- AllParts
INVARIANTS
    InFlightBound
    NoLostWakeup
    RevokedIsOut
    NeverTorn
    Persisted
    PickFinds
PROPERTIES
    AcquireReturns
    CloseUnblocks
    WatchReports
    RoundRobin
CHECK_DEADLOCK FALSE
