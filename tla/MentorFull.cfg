SPECIFICATION Spec
CHECK_DEADLOCK FALSE
CONSTANTS
    Regimes <- MCRegimes
    Reachable <- MCReachable
    Before <- MCBefore
    Qids <- MCQids
    ConfirmQids <- MCConfirmQids
    FloorGroups <- MCFloorGroups
    DraftsOf <- MCDraftsFull
    Possible <- MCFakeReader
    MaxDiscards = 2
    MaxIterations = 5
    Faults = {"author", "compile", "eval"}
    DictSeams = {"dict"}
INVARIANTS
    InstalledWerePromoted
    ResultsAreCurrent
PROPERTIES
    KeepsPromise
