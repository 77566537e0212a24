\* Every listener.
SPECIFICATION FairSpec
CONSTANTS
    Kinds <- AllKinds
    Conns <- TwoConns
    Session <- OneSession
    Cap = 1
    Contents <- SomeContents
    Configs <- SomeConfigs
INVARIANTS
    Routed
PROPERTIES
    ConnSettles
    
CHECK_DEADLOCK FALSE
