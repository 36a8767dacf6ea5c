SPECIFICATION Spec
CONSTANTS
    Listeners = {l1, l2, l3}
    Passes = {p1}
    MaxDelay = 1
    Events = {"pause", "detach", "die"}
    None = None
SYMMETRY Symmetry
INVARIANTS
    Inv
    StaysRegistered
    OnlyListenerHeld
PROPERTIES
    ImplementsJniRefs
CHECK_DEADLOCK FALSE
