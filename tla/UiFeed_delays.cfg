SPECIFICATION FairSpec
CONSTANTS
    Listeners = {l1}
    Passes = {p1,p2}
    MaxDelay = 2
    Events = {"coldStart","reset","init"}
    None = None
INVARIANTS
    NothingWithheld
PROPERTIES
    LatestDelayArrives
CHECK_DEADLOCK FALSE
