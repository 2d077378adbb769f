SPECIFICATION PartsSpec
CONSTANTS
    Tasks <- MCTwoTasks
    Repetitions = 2
    PassesRequired = 2
    FailureStop = 2
    PlanIndex <- MCPlan2x2
    QualityFailures = {"wrong_answer"}
    PreparationErrors = {"setup_error"}
    TechnicalErrors = {"timeout"}
    Runtimes <- MCOneRuntime
    RequestIds = {}
    Positions = {}
    ClaimSizes = {1, 2}
    VmAttempts = {a1, a2, a3}
    VmConcurrency = 2
    VmSecond = 2
    VmLastTime = 2
    CnTrials = {t1, t2}
    CnRuns = 3
    CnAttempts = 3
    CnVersions = {1, 4}
    CnLimit <- MCLimit
    CnFaults = 1
INVARIANTS OneOpenTrialPerTask TablesAgree NothingStranded CountersMatchTrials VerdictJustified VmPaidOnce CnCarriedOnce
PROPERTIES HistoryIsKept ImplementsGate
CHECK_DEADLOCK FALSE
