SPECIFICATION Spec
CONSTANTS
    NumBlocks = 3
    BlockSize = 2
    Seqs = {a, b, c}
    Tokens = {0, 1, 2, 3}
    Prompts <- MCSameTail
    MaxLen = 8
    MaxNumSeqs = 2
    MaxBatchedTokens = 10
    Eos = 0
    IgnoreEos = {}
    MaxTokens = 1
    Samples <- EndAtOnce
INVARIANTS
    KVMatches
CHECK_DEADLOCK FALSE
