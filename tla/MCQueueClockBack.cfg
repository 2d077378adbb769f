SPECIFICATION Spec
CONSTANTS
    p1 = p1
    p2 = p2
    w1 = w1
    w2 = w2
    w3 = w3
    w4 = w4
    Processes = {p1, p2}
    Workers = {w1, w2, w3}
    Owner <- OwnerOfThree
    Rpm = 3
    Tpm = 3
    Window = 2
    Estimates = {1}
    Deadlines = {9}
    Cooldowns = {}
    LastAsk = 4
    MaxClock = 4
    MaxBack = 1
INVARIANTS FileStaysInOrder
CHECK_DEADLOCK FALSE
