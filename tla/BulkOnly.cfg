SPECIFICATION Spec
CONSTANTS
    r = r
    w = w
    n = n
    NoTask = NoTask
    Tasks = {r, w, n}
    Direction <- ReadWriteTest
    UseUSBReset = FALSE
    MaxResets = 1
    Resumes = 1
    Events = 2
INVARIANTS
    TypeOK
    OneInCharge
    InStep
    CompletedOnce
    WaitIsForATask
    ClosedIsQuiet
PROPERTIES
    EveryTaskEnds
    TerminationEnds
CHECK_DEADLOCK FALSE
