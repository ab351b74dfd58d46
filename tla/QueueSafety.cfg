CONSTANTS
    g1 = g1
    l1 = l1
    l2 = l2
    l3 = l3
    l4 = l4
    Gpu = {g1}
    LeaseId = {l1, l2, l3, l4}
    None = None
    Priority = {1, 2}
    Ttl = {2}
    WaitTimeout = {1}
    Horizon = 2
    LastCall = 1
    ClockSteps = TRUE
    PromptTicker = FALSE
SPECIFICATION Spec
SYMMETRY Symmetry
CHECK_DEADLOCK FALSE
INVARIANTS
    TypeOK
    OnePlace
    SlotsTruthful
    NobodyStranded
    QueueOrdered
    JoinsByInsertion
PROPERTIES
    NoOvertaking
    OnePassSuffices
    ImplementsMutex
