\* Resets, refusals, late answers, drain timers and a broken session.
SPECIFICATION FairSpec
CONSTANTS
    LinkCap = 1
    Scenarios <- ThreeScenarios
PROPERTIES
    ImplementsPipe
    EndsTogether
    LoopsGoOn
CHECK_DEADLOCK FALSE
