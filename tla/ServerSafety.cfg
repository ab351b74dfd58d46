CONSTANTS
    l1 = l1
    l2 = l2
    l3 = l3
    Gpu = {0, 1}
    LeaseId = {l1, l2, l3}
    None = None
    AutoGpu = AutoGpu
    Wanted = {0, 1}
    Priority = {1}
    Ttl = {1, 2}
    WaitTimeout = {1}
    Horizon = 2
    LastCall = 1
    ClockSteps = FALSE
    PromptTicker = FALSE
    Persistent = TRUE
    DiskFaults = FALSE
    Strangers = FALSE
    HostDrains = FALSE
    ZeroDrain = FALSE
SPECIFICATION ServerSpec
SYMMETRY Symmetry
CHECK_DEADLOCK FALSE
INVARIANTS
    ServerTypeOK
    NoTwoRely
    LeaseHonoured
    NobodyStranded
    StopSavesHolders
    NothingToLose
PROPERTIES
    FileImplementsMutex
