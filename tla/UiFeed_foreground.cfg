SPECIFICATION Spec
CONSTANTS
    Listeners = {l1, l2}
    Passes = {p1}
    MaxDelay = 1
    Events = {"coldStart", "init"}
    None = None
SYMMETRY Symmetry
INVARIANTS
    UiActiveReflectsForeground
CHECK_DEADLOCK FALSE
