CONSTANTS
    g1 = g1
    l1 = l1
    l2 = l2
    l3 = l3
    Gpu = {g1}
    LeaseId = {l1, l2, l3}
    None = None
    Priority = {1}
    Ttl = {2}
    WaitTimeout = {2}
    Horizon = 4
    LastCall = 4
    ClockSteps = FALSE
    PromptTicker = TRUE
    Mine = {l3}
    Window = 2
    Second = 1
    LogFaults = FALSE
    CallLimit = 1
    HistoryEnabled = TRUE
    Lossy = TRUE
SPECIFICATION IdleSpec
CHECK_DEADLOCK FALSE
PROPERTIES
    FailsClosed
