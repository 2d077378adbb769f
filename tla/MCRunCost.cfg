SPECIFICATION Spec
CONSTANTS
    Trials = {1, 2}
    Concurrency = 1
    RunLimit = 1
    MaxRequests = 1
    MaxSessions = 2
INVARIANTS FullRunLimitHeld
CHECK_DEADLOCK FALSE
