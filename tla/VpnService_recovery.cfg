SPECIFICATION FairSpec
CONSTANTS
    Instances = {i1, i2}
    Ops = {o1, o2, o3}
    Events = {"appStart", "tileStart", "alwaysOn", "kill", "awake"}
    MaxEvents = 4
    None = None
INVARIANTS
    RecoveryInv
    HubAndFlagTruthful
PROPERTIES
    RecoveryResolves
CHECK_DEADLOCK FALSE
