SPECIFICATION Spec
CONSTANTS
    p1 = p1
    p2 = p2
    Ports <- MCPorts
    MaxAttach = 2
    PowerCycleEvery = 2
    MaxDebounce = 1
    MaxExpired = 0
    Budgets <- FlakyDevices
INVARIANTS
    OneAtZero
    ZeroIsCovered
    LockAgrees
    DeviceKept
CHECK_DEADLOCK FALSE
