SPECIFICATION Spec
CONSTANTS
    NumBlocks = 3
    BlockSize = 2
    Seqs = {a, b, c}
    Tokens = {0, 1}
    Prompts <- MCPrompts
    MaxLen = 8
    MaxNumSeqs = 2
    MaxBatchedTokens = 6
    Eos = 1
    IgnoreEos = {}
    MaxTokens = 3
    Samples <- AnyToken
INVARIANTS
    WorkersGetTheirTokens
CHECK_DEADLOCK FALSE
