SPECIFICATION MeasuredSpec
CHECK_DEADLOCK FALSE
CONSTANTS
    Regimes <- MCRegimes
    Reachable <- ReachableRegimes
    Before <- MCBefore
    Qids <- MCQids
    QuestionAt <- MCQuestionAt
    ConfirmQids <- MCConfirm
    FloorGroups = {}
    DraftsOf <- MCDraftsOf
    Possible <- MCPossible
    MaxDiscards = 2
    MaxIterations = 2
    Faults = {"author", "compile", "eval", "confirm"}
    DictSeams = {"dict"}
    Turns <- MCTurns
    Session <- MCSession
    Place <- MCPlace
    Token = {"x", "y"}
    Idf <- MCIdf
    MinSessions = 2
    MaxDf = 2
    Budget = 6
    Query = "query"
    Writes <- MCWrites
    Returns <- MCReturns
    WellRankedK = 2
    Proposed <- MCProposed
    Setups <- MCSetups
    Proposals <- MCProposals
    RawLabel = {"yes", "no"}
    Truthy = {"yes"}
    Authored <- MCAuthored
    NProbes = 2
INVARIANTS
    TypeOK
    PromotedStayInstalled
    RetiredOnOwnFailures
    ContextIsPacked
    RejectionsStayLocal
    VerdictsAreOwn
    FailuresDiagnosed
    SeamHonoursSandbox
PROPERTIES
    Termination
