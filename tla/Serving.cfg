SPECIFICATION Spec
CONSTANTS
    NumBlocks = 4
    BlockSize = 2
    Seqs = {a, b, c}
    Tokens = {0, 1, 2, 3, 4, 5, 6, 21, 22, 23, 24, 25, 26, 27}
    Prompts <- MCBranches
    MaxLen = 7
    MaxNumSeqs = 2
    MaxBatchedTokens = 8
    Eos = 0
    IgnoreEos = {a}
    MaxTokens = 3
    Samples <- Branching
INVARIANTS
    ArrivalOrder
    KVMatches
PROPERTIES
    UsesManager
    Served
CHECK_DEADLOCK FALSE
