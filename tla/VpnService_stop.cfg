SPECIFICATION Spec
CONSTANTS
    Instances = {i1, i2}
    Ops = {o1, o2, o3}
    Events = {"appStart", "notificationStop"}
    MaxEvents = 3
    None = None
SYMMETRY Symmetry
INVARIANTS
    StoppedMeansStopped
CHECK_DEADLOCK FALSE
