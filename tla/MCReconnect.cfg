SPECIFICATION FairReconnectSpec
CONSTANTS
    Enders = {e1, e2}
    MaxLoops = 2
    SightingDriven = TRUE
INVARIANTS
    OneLoop
PROPERTIES
    UnpairStopsLoop
    FoundAgain
CHECK_DEADLOCK FALSE
