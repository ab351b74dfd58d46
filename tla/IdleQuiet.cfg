CONSTANTS
    g1 = g1
    g2 = g2
    l1 = l1
    l2 = l2
    Gpu = {g1, g2}
    LeaseId = {l1, l2}
    None = None
    Priority = {1}
    Ttl = {1}
    WaitTimeout = {1}
    Horizon = 4
    LastCall = 2
    ClockSteps = FALSE
    PromptTicker = TRUE
    LogFaults = TRUE
    Mine = {l2}
    Window = 2
    Second = 1
    CallLimit = 1
    HistoryEnabled = TRUE
    Lossy = TRUE
SPECIFICATION IdleSpec
SYMMETRY Symmetry
CHECK_DEADLOCK FALSE
INVARIANTS
    LogTruthful
PROPERTIES
    IdleIsQuiet
