\* Every kind of configuration, edits between the two reads of the file.
SPECIFICATION FairSpec
CONSTANTS
    a1 = a1
    a2 = a2
    Addrs <- TwoAddrs
    Configs <- AllConfigs
    Plugins <- CompiledIn
    Transports <- Registered
    MaxEdits = 2
    MaxSignals = 2
    ListenMayFail = TRUE
    AcceptMayFail = TRUE
INVARIANTS
    OneGeneration
    IdleServes
    StoppedReleases
PROPERTIES
    TermExits
CHECK_DEADLOCK FALSE
