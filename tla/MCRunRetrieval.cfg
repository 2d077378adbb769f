SPECIFICATION Spec
CONSTANTS
    Trials = {1, 2}
    Concurrency = 1
    RunLimit = 1
    MaxRequests = 1
    MaxSessions = 2
PROPERTIES FlushedIsUploaded
CHECK_DEADLOCK FALSE
