SPECIFICATION Spec
CONSTANTS
    Proc = {p1, p2}
    Pair = {k1, k2}
    Proposal = {q}
    None = None
    Life = 1
    MaxClock = 1
    MaxCommands = 4
    MaxOthers = 1
CONSTRAINT LongOnlyWhenQuiet
SYMMETRY Symmetric
INVARIANTS
    TypeOK
    HomeOwnsName
    ReceiptIsFinal
    AgentStops
CHECK_DEADLOCK FALSE
