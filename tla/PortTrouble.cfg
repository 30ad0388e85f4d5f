SPECIFICATION FairSpec
CONSTANTS
    p1 = p1
    p2 = p2
    Ports = {p1}
    MaxAttach = 2
    PowerCycleEvery = 2
    MaxDebounce = 1
    MaxExpired = 0
    Budgets <- AnyTrouble
INVARIANTS
    TypeOK
PROPERTIES
    Retried
    StatusEnds
    Forgotten
    LockFreed
CHECK_DEADLOCK FALSE
