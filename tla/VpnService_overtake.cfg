SPECIFICATION Spec
CONSTANTS
    Instances = {i1, i2}
    Ops = {o1, o2, o3}
    Events = {"tileStart", "appStop", "notificationStop", "overtake"}
    MaxEvents = 3
    None = None
SYMMETRY Symmetry
INVARIANTS
    NoOrphanTunnel
CHECK_DEADLOCK FALSE
