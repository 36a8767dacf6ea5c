SPECIFICATION Spec
CONSTANTS
    Instances = {i1, i2}
    Ops = {o1, o2, o3}
    Events = {"appStart", "appStop", "tileStart", "tileStop", "notificationStop", "alwaysOn", "kill", "revoke", "awake", "startFails", "denied"}
    MaxEvents = 4
    None = None
SYMMETRY Symmetry
INVARIANTS
    Inv
    TunnelMatchesRunTime
    WakeLockFollowsTunnel
    Settled
CHECK_DEADLOCK FALSE
