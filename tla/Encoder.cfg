SPECIFICATION FairSpec
CONSTANTS
    r1 = r1
    r2 = r2
    r3 = r3
    a = a
    b = b
    c = c
    Hash <- ThreeHashes
    NumTokens <- MCNumTokens
    CacheSize = 5
    Request = {r1, r2, r3}
    PromptLen <- MCPromptLen
    Items <- MCItems
    TokenBudget = 5
    ComputeBudget = 5
    KVCapacity = 10
    PrefixHits = {0, 2, 3}
    BatchQueueSize = 2
    NoChunkedInput = FALSE
    UseEagle = FALSE
    MayAbort = {r1, r2, r3}
INVARIANTS EncoderTypeOK SlotsExact NoAssertionFails WorkersMirrorManager
PROPERTIES EveryRequestEnds
