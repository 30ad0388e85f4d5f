SPECIFICATION Spec
CONSTANTS
    p1 = p1
    i1 = i1
    c1 = c1
    Ports = {p1}
    Inits = {i1}
    Callers = {c1}
    Limit <- SomeEvents
    Total = 3
INVARIANTS
    TypeOK
    Balanced
    Listening
    ClosedInTheEnd
CHECK_DEADLOCK FALSE
