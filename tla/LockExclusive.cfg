\* The lock when every sleep ends with a wakeup.
SPECIFICATION Spec
CONSTANTS
    t1 = t1
    t2 = t2
    t3 = t3
    t4 = t4
    Threads <- MCFourThreads
    MaxExpired = 0
    CanPowerDown = TRUE
INVARIANTS
    Exclusive
    PipeZeroStaysOpen
PROPERTY PromiseKept
