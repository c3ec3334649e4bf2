SPECIFICATION AgentsSpec
CONSTANTS
    c1 = c1
    c2 = c2
    c3 = c3
    kb = kb
    p = p
    i1 = i1
    i2 = i2
    Calls = {c1, c2, c3}
    KbIds = {kb}
    Paths = {p}
    RequestIds = {i1, i2}
    Bundles = {tidy, messy}
    Clean = {tidy}
    LiveReaders = {model}
    Answers = {"yes", "no"}
    Requests <- MCRequests
    Width = 2
    MaxEdits = 1
    None = None
    NoKb = NoKb
    NoReader = NoReader
    Unreadable = Unreadable
    Schema = Schema
    SqlInstances <- MCInstances
    TopK = 2
    Scorings <- MCScorings
    Drafts <- MCDrafts
    Found <- MCRows
    SqlPipelines <- MCPipelines
    Rewrites <- MCRewrites
    Scribbles <- MCScribbles
INVARIANTS
    ReadersGoWithTheirCalls
    OwnReader
    TrailMatchesAnswer
    PromptGrounded
    ReplayIsFaithful
    MeasuredFollowsTheQuery
SYMMETRY Symmetric
CHECK_DEADLOCK FALSE
