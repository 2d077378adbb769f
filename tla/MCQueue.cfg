SPECIFICATION FairSpec
CONSTANTS
    p1 = p1
    p2 = p2
    w1 = w1
    w2 = w2
    w3 = w3
    w4 = w4
    Processes = {p1, p2}
    Workers = {w1, w2, w3}
    Owner <- OwnerOfThree
    Rpm = 2
    Tpm = 2
    Window = 2
    Estimates = {1, 3}
    Deadlines = {2}
    Cooldowns = {1, 2}
    LastAsk = 0
    MaxClock = 3
    MaxBack = 1
INVARIANTS WindowRespected
PROPERTIES CooldownHonoured WaitEnds
CHECK_DEADLOCK FALSE
