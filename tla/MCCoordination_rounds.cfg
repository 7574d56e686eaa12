SPECIFICATION Spec
CONSTANTS
    Agent = {a, b}
    Other = Other
    Ttl = {2}
    Retention = 0
    MaxMsgs = 4
    MaxClock = 4
    MaxGiveUps = 0
SYMMETRY Interchangeable
PROPERTY RoundsGoForward
