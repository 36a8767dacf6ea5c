SPECIFICATION Spec
CONSTANTS
    Procs = {p1, p2}
    Chans = {c1, c2}
    RequestChans = {d1}
    Ports = {0}
    TunFlags = {FALSE}
    None = None
    Android = FALSE
    Methods = {"initClash", "startListener", "stopListener", "setupConfig", "setUiActive"}
    WarmTicks = 0
SYMMETRY Symmetry
INVARIANT
    NeverPollsInStandby
