SPECIFICATION FairSpec
CONSTANTS
    Env = {e1, e2, e3}
    Batch = 2
    MaxGseq = 3
    MaxFaults = 1
CHECK_DEADLOCK FALSE
INVARIANTS
    TypeOK
    NothingIsLost
    RepeatsAreFaults
PROPERTIES
    FirstTriesInOrder
    EveryReportArrives
