SPECIFICATION FairSpec
CONSTANTS
    Sessions = {s1, s2}
    Procs = {p1, p2}
    Calls = {c1, c2}
    Limit = 1
    None = None
INVARIANTS
    NoUseAfterRelease
    OneTunnel
    FlagMeansTunnel
    FdClosedOnce
    NothingLeaks
PROPERTIES
    ImplementsJniRefs
    StartAndStopEnd
