SPECIFICATION FairSpec
CONSTANTS
    Trials = {1, 2}
    Concurrency = 2
    RunLimit = 1
    MaxRequests = 1
    MaxSessions = 2
INVARIANTS ResultsAreBacked NothingForgotten
PROPERTIES NeverRunTwice SessionEnds
CHECK_DEADLOCK FALSE
