SPECIFICATION Spec
CONSTANTS
    Requests = 1
    Sealed = {}
    MaxAttempts = 2
    PassLimit = 1
    MaxFaults = 0
INVARIANT NeverSilent
