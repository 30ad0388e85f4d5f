\* The lock with sleeps that expire and a controller that powers down.
SPECIFICATION FairSpec
CONSTANTS
    t1 = t1
    t2 = t2
    t3 = t3
    t4 = t4
    Threads <- MCThreads
    MaxExpired = 2
    CanPowerDown = TRUE
INVARIANTS
    HoldersBounded
    NoLostWakeup
PROPERTY LockHandedOver
