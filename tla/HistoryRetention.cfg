CONSTANTS
    o1 = o1
    Owner = {o1}
    Never = Never
    Second = 3
    RotateSec = 3
    RetentionSec = 6
    Horizon = 13
    MaxEvents = 5
    MaxRestarts = 1
SPECIFICATION Spec
CHECK_DEADLOCK FALSE
INVARIANTS
    RetentionKept
