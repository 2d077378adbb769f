SPECIFICATION Spec
CONSTANTS
    Items = {1, 2}
    MaximumAttempts = 2
    MaxSessions = 2
    MaxFaults = 2
INVARIANTS StoreMatchesRecord BilledAsServed NothingDropped
PROPERTIES KeepsPromise
CHECK_DEADLOCK FALSE
