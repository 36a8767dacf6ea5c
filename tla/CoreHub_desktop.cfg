SPECIFICATION Spec
CONSTANTS
    Procs = {p1, p2}
    Chans = {c1, c2}
    RequestChans = {d1, d2}
    Ports = {0, 1}
    TunFlags = {TRUE, FALSE}
    None = None
    Android = FALSE
    Methods = {"initClash", "startListener", "stopListener", "startLog", "stopLog", "shutdown", "setupConfig", "updateConfig", "setUiActive"}
    WarmTicks = 0
SYMMETRY Symmetry
INVARIANTS
    NoLeakedForwarder
    HealthForwarderFollowsConfig
    JournalNeedsListener
    TunMatchesIntent
    PortsMatchConfig
    NoLeakedLogPump
    LockDiscipline
