SPECIFICATION Spec
CONSTANTS
    r = r
    w = w
    n = n
    NoTask = NoTask
    Tasks = {r}
    Direction <- Read
    UseUSBReset = FALSE
    MaxResets = 1
    Resumes = 0
    Events = 1
PROPERTIES
    NeverStuck
CHECK_DEADLOCK FALSE
