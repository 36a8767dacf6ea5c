SPECIFICATION Spec
CONSTANTS
    MaxClock = 2
    MaxTransitions = 1
    MaxBurst = 2
    MaxPulls = 0
    MaxKills = 1
    MaxWrites = 0
    None = None
INVARIANTS
    SyncsOnConnect
CHECK_DEADLOCK FALSE
