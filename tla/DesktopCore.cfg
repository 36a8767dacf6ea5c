SPECIFICATION FairSpec
CONSTANTS
    MaxCores = 5
    Restarts = {r1, r2}
    MaxRestarts = 2
    MaxCrashes = 2
    MaxRetries = 1
    Accept = accept
    None = None
INVARIANTS
    OneCore
    Reachable
    NotMistaken
    Inv
PROPERTIES
    Respawns
CHECK_DEADLOCK FALSE
