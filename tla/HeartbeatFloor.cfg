CONSTANTS
    l1 = l1
    l2 = l2
    Gpu = {0}
    LeaseId = {l1, l2}
    None = None
    AutoGpu = AutoGpu
    Wanted = {0}
    Priority = {1}
    Ttl = {1}
    WaitTimeout = {1}
    Horizon = 3
    LastCall = 3
    ClockSteps = FALSE
    PromptTicker = TRUE
    Persistent = TRUE
    DiskFaults = FALSE
    Strangers = FALSE
    HostDrains = FALSE
    ZeroDrain = FALSE
    Floor = 1
    Ceiling = 30
    HttpDelay = 0
    PromptClients = TRUE
    MaxMissed = 2
    MaxLate = 1
SPECIFICATION SystemSpec
CHECK_DEADLOCK FALSE
INVARIANTS
    HeartbeatsSuffice
