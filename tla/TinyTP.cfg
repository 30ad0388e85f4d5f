SPECIFICATION Spec
CONSTANTS
    a = a
    b = b
    Ends = {a, b}
    Credit = 2
    Cap = 30
    MaxPacket = 2
    Block = 3
    Loads <- LoadsTest
INVARIANTS
    TypeOK
    CreditConserved
    CreditIsRoom
PROPERTIES
    InOrder
    Drains
CHECK_DEADLOCK FALSE
