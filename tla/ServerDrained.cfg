CONSTANTS
    l1 = l1
    l2 = l2
    l3 = l3
    Gpu = {0, 1}
    LeaseId = {l1, l2, l3}
    None = None
    AutoGpu = AutoGpu
    Wanted = {AutoGpu}
    Priority = {1}
    Ttl = {2}
    WaitTimeout = {1}
    Horizon = 2
    LastCall = 1
    ClockSteps = TRUE
    PromptTicker = FALSE
    Persistent = TRUE
    DiskFaults = FALSE
    Strangers = FALSE
    HostDrains = TRUE
    ZeroDrain = TRUE
SPECIFICATION ServerSpec
SYMMETRY Symmetry
CHECK_DEADLOCK FALSE
INVARIANTS
    RefusedIsGone
PROPERTIES
    AutoFindsIdle
