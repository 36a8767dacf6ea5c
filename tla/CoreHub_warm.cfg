SPECIFICATION FairSpec
CONSTANTS
    Procs = {p1}
    Chans = {c1, c2}
    RequestChans = {d1}
    Ports = {0}
    TunFlags = {FALSE}
    None = None
    Android = TRUE
    Methods = {"shutdown", "setupConfig", "setUiActive", "startTUN", "stopTun", "setScreenActive"}
    WarmTicks = 1
PROPERTIES
    ClosedForwardersExit
    ProvidersKeptWarm
