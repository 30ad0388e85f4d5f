SPECIFICATION Spec
CONSTANTS
    c = c
    b = b
    d = d
    one = one
    two = two
    p = p
    q = q
    u = u
    Endpoints = {c, b, d}
    Order <- OrderTest
    Addresses = {one, two}
    Address <- AddressTest
    Control = {c}
    Requests = {p, q, u}
    Target <- TargetTest
    HasData = {p}
    Slots = 2
    MaxSubmits = 3
    MaxEvents = 2
INVARIANTS
    TypeOK
    Conserved
    OneList
    HardwareReaches
    HonestStatus
PROPERTIES
    InOrder
    
CHECK_DEADLOCK FALSE
