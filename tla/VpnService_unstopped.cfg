SPECIFICATION Spec
CONSTANTS
    Instances = {i1, i2}
    Ops = {o1, o2, o3}
    Events = {"appStart", "appStop", "stopFails"}
    MaxEvents = 2
    None = None
SYMMETRY Symmetry
INVARIANTS
    NoOrphanTunnel
CHECK_DEADLOCK FALSE
