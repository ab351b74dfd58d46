CONSTANTS
    l1 = l1
    l2 = l2
    l3 = l3
    Gpu = {0}
    LeaseId = {l1, l2, l3}
    None = None
    AutoGpu = AutoGpu
    Wanted = {0}
    Priority = {1}
    Ttl = {2}
    WaitTimeout = {1}
    Horizon = 2
    LastCall = 1
    ClockSteps = FALSE
    PromptTicker = FALSE
    Persistent = TRUE
    DiskFaults = FALSE
    Strangers = TRUE
    HostDrains = FALSE
    ZeroDrain = FALSE
SPECIFICATION ServerSpec
CHECK_DEADLOCK FALSE
INVARIANTS
    NoTwoRely
