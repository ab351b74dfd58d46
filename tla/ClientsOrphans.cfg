CONSTANTS
    l1 = l1
    l2 = l2
    Gpu = {0}
    LeaseId = {l1, l2}
    None = None
    AutoGpu = AutoGpu
    Wanted = {0}
    Priority = {1}
    Ttl = {1}
    WaitTimeout = {1}
    Horizon = 3
    LastCall = 1
    ClockSteps = FALSE
    PromptTicker = TRUE
    Persistent = TRUE
    DiskFaults = FALSE
    Strangers = FALSE
    HostDrains = FALSE
    ZeroDrain = FALSE
    Floor = 1
    Ceiling = 30
    HttpDelay = 1
    PromptClients = FALSE
    MaxMissed = 0
    MaxLate = 2
SPECIFICATION SystemFairSpec
CHECK_DEADLOCK FALSE
PROPERTIES
    OrphansLeave
    HoldersExpire
