SPECIFICATION Spec
CONSTANTS
    Agent = {a, b}
    Other = Other
    Ttl = {2}
    Retention = 2
    MaxMsgs = 4
    MaxClock = 3
    MaxGiveUps = 1
SYMMETRY Interchangeable
INVARIANTS
    TypeOK
    Exclusive
    ReleaseIsFinal
PROPERTIES
    FreshClaimWins
    ImplementsLease
CONSTRAINT FewAfterGiveUp
