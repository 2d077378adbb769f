SPECIFICATION FairSpec
CONSTANTS
    Trials = {t1}
    Requests = {r1, r2}
    Reservations = {1}
    Overrun = 1
    AttemptLimit = 2
    RunLimit = 2
    CallLimit = 2
    HttpAttempts = 2
    ErrorScope = "run"
    PriorExposures <- WithPrior
INVARIANTS ExposureCovers LimitsHeld
PROPERTIES StopIsFinal CallsReturn
CHECK_DEADLOCK FALSE
