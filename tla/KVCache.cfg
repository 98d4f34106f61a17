CONSTANTS
    NumGpuBlocks = 4
    BlockSize = 2
    EnableCaching = TRUE
    r1 = r1
    r2 = r2
    Request = {r1, r2}
    Token = {1, 2}
    Prompts <- MCPrompts
    MaxModelLen = 4
    NumLookahead = 0
    NumSpeculative = 1
    UseEagle = FALSE
    PromptLogprobs = {}
SYMMETRY RequestSymmetry
SPECIFICATION Spec
INVARIANTS TypeOK NoFailure RefCountExact KVMatchesTokens PrefixClosedCache
PROPERTY CachedBlockImmutable

