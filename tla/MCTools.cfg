SPECIFICATION Spec
CONSTANTS
    Workers = {w1, w2}
    Calls = {1, 2, 3}
    PoolFaults = 2
    RecHandles = {h1, h2}
    BridgeHandle = h1
    RecOriginal <- MCOriginal
    RecLabels = {l1}
    RecPeers = {p1}
    RecNonces = {n1, n2}
    RecTtl = 1
    RecRetention = 2
    RecMaxResponse = 2
    RecMaxTotal = 4
    RecMaxCalls = 2
    RecTrialCalls = 3
    RecTrialBytes = 4
    CapTtl = 1
    CapCalls = 1
    CapBytes = 4
    RecLastTime = 1
    RecFaults = 1
    ClnFiles = {f1, f2}
    ClnDirectory = d
    ClnChanges = 2
    CcProcesses = {p1, p2}
    CcChecks = {c1}
    CcConditions <- MCConditions
    CcTasks = {t1}
    CcRequests = 2
    CcFaults = 1
    RvImagePaths = {i1}
    RvOtherPaths = {o1}
    RvResults = {"pass", "fail"}
    RvCommands = 3
    RvFaults = 1
    CsTasks = {"big", "small"}
    CsThreshold = 3
    CsNamespace = 1
    CsScreenings <- MCScreenings
    CsChecks = {"prefix", "isolation"}
    CsPrices <- MCPrices
    CsBundles <- MCBundles
    CsTarget = 2
    AeAttempts = 2
    AeEstimate = 1
    AeFailures = {"budget_stopped", "ClientDisconnectedAfterDispatch", "provider_failure"}
    AeJudgements <- MCJudgements
    AeFaults = 2
    Guards = {g1, g2}
    GivenRequests <- MCGivenRequests
    Texts <- MCTexts
    SentLimit = 2
    TextsLimit = 2
    StManifest <- MCManifest
    StExpected = 6
    AnCommands = {c1, c2}
    NoCommand = NoCommand
    Stages <- MCStages
    Handlers = {n1, n2}
    Repetitions = 2
    MaxCalls = 2
    MaxAttempts = 2
    Rewards = {0, 1}
    RewardBounds = {1}
    FeRequests <- MCFeRequests
    FeRuns = 2
    FeConditions = {"none", "squeez"}
    FeInventory <- MCInventory
    FeEvidence <- MCFeEvidence
    Carriers = {carrier1}
    Admissions = {admission1}
    CrPrepared <- MCPrepared
    CrLast = 2
    CrReplaced = 1
    CrWall = 2
    CrReserve = 1
INVARIANTS PoolServes RecWhatWasGranted ClnAllOrNothing CcOneStory RvReplayIsGenuine CsOneConclusion AeScoreIsBacked ApprovedEditsOnly AnVerdictIsEarned LrSummaryIsTrue FeRecordsAreTrue CrReadyIsEarned
CHECK_DEADLOCK FALSE
