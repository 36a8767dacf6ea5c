SPECIFICATION FairSpec
CONSTANTS
    MaxClock = 3
    MaxTransitions = 2
    MaxBurst = 2
    MaxPulls = 2
    MaxKills = 1
    MaxWrites = 1
    None = None
INVARIANTS
    LaterTransitionWins
    Inv
PROPERTIES
    Follows
CHECK_DEADLOCK FALSE
