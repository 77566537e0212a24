\* A configuration that loads and cannot be started.
SPECIFICATION Spec
CONSTANTS
    a1 = a1
    a2 = a2
    Addrs <- TwoAddrs
    Configs <- StartConfigs
    Plugins <- CompiledIn
    Transports <- Registered
    MaxEdits = 1
    MaxSignals = 1
    ListenMayFail = FALSE
    AcceptMayFail = FALSE
INVARIANTS
    ReloadKeeps
CHECK_DEADLOCK FALSE
