SPECIFICATION Spec
CONSTANTS
    Instances = {i1, i2}
    Ops = {o1, o2, o3}
    Events = {"appStart", "appStop", "revoke"}
    MaxEvents = 4
    None = None
SYMMETRY Symmetry
INVARIANTS
    RunningMeansRunning
CHECK_DEADLOCK FALSE
