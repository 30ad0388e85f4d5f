SPECIFICATION Spec
CONSTANTS
    p1 = p1
    p2 = p2
    Ports <- MCPorts
    MaxAttach = 2
    PowerCycleEvery = 2
    MaxDebounce = 1
    MaxExpired = 0
    Budgets <- FlakyHub
INVARIANTS
    OneAtZero
CHECK_DEADLOCK FALSE
