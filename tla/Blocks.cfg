SPECIFICATION Spec
CONSTANTS
    NumBlocks = 3
    BlockSize = 2
    Seqs = {a, b, c}
    Tokens = {0, 1}
    Prompts <- MCPrompts
    MaxLen = 4
INVARIANTS
    RefCountsExact
    NoLeak
    NeverRaises
    HeldTokensMatch
SYMMETRY Symmetry
CHECK_DEADLOCK FALSE
