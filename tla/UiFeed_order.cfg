SPECIFICATION FairSpec
CONSTANTS
    Listeners = {l1}
    Passes = {p1}
    MaxDelay = 2
    Events = {}
    None = None
PROPERTIES
    DelaysInOrder
CHECK_DEADLOCK FALSE
