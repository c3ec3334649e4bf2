SPECIFICATION Spec
CHECK_DEADLOCK FALSE
CONSTANTS
    Regimes <- MCRegimes
    Reachable <- MCReachable
    Before <- MCBefore
    Qids <- MCQids
    ConfirmQids = {}
    FloorGroups = {}
    DraftsOf <- MCDraftsPartial
    Possible <- MCFakeReader
    MaxDiscards = 2
    MaxIterations = 5
    Faults = {}
    DictSeams = {"dict"}
INVARIANTS NextRunUsesPromoted
