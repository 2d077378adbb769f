SPECIFICATION FairSpec
CONSTANTS
    Tasks <- MCTwoTasks
    Repetitions = 1
    PassesRequired = 1
    FailureStop = 1
    PlanIndex <- MCPlan2x1
    QualityFailures = {"wrong_answer"}
    PreparationErrors = {"setup_error"}
    TechnicalErrors = {"timeout"}
    Runtimes <- MCTwoRuntimes
    RequestIds = {"request-1"}
    Positions = {1}
    ClaimSizes = {1}
INVARIANTS RetriesAreSafe
PROPERTIES EventuallyDecided
CHECK_DEADLOCK FALSE
