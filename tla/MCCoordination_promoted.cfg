SPECIFICATION Spec
CONSTANTS
    Agent = {a, b}
    Other = Other
    Ttl = {3}
    Retention = 3
    MaxMsgs = 2
    MaxClock = 4
    MaxGiveUps = 0
SYMMETRY Interchangeable
PROPERTY NeverPromoted
