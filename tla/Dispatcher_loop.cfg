SPECIFICATION FairSpec
CONSTANTS
    Requests = 2
    Sealed = {2}
    MaxAttempts = 2
    PassLimit = 1
    MaxFaults = 2
INVARIANTS
    TypeOK
    OneOfEach
    NoneForgotten
    EndsAreAnswered
    EffortIsBounded
PROPERTIES
    NoRunAfterNotice
    ImplementsService
    EverySettles
