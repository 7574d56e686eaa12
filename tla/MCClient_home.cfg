SPECIFICATION Spec
CONSTANTS
    Peer = {a, b}
    Proc = {p, q}
    MaxMail = 3
    MaxCommands = 3
CHECK_DEADLOCK FALSE
SYMMETRY Symmetry
INVARIANTS
    TypeOK
    NothingPassedOver
    NothingHeldBack

    
