CONSTANTS
    l1 = l1
    l2 = l2
    Gpu = {0}
    LeaseId = {l1, l2}
    None = None
    AutoGpu = AutoGpu
    Wanted = {0}
    Priority = {1}
    Ttl = {10}
    WaitTimeout = {1}
    Horizon = 10
    LastCall = 9
    ClockSteps = FALSE
    PromptTicker = TRUE
    Persistent = TRUE
    DiskFaults = FALSE
    Strangers = FALSE
    HostDrains = TRUE
    ZeroDrain = FALSE
    Floor = 1
    Ceiling = 30
    HttpDelay = 1
    PromptClients = TRUE
    MaxMissed = 2
    MaxLate = 2
SPECIFICATION SystemSpec
SYMMETRY Symmetry
CHECK_DEADLOCK FALSE
INVARIANTS
    ClientTypeOK
    HeartbeatsSuffice
    NoTwoWork
    AnsweredInTime
