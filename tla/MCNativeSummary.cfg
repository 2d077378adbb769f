SPECIFICATION Spec
CONSTANTS
    Tasks = {1, 2, 3}
    Interim = 2
    Minimum = 4
    Maximum = 6
    InterimMaxWidth = 1
    Concurrency = 2
    RewardTables <- MCRewardTables
    BaselineRows <- MCBaselineRows
    MaxOpen = 1
    MaxFaults = 1
INVARIANTS SummaryIncludesEveryTrial
CHECK_DEADLOCK FALSE
