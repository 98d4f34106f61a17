SPECIFICATION FairSpec
CONSTANTS
    Request = {"r1", "r2", "r3"}
    NumCPUBlocks = 4
    NumGPUBlocks = 4
    MaxScheduled = 2
    MayAbort = {"r1"}
    AbortLoading = TRUE
    StreamsOrdered = TRUE
    Hash = {"a", "b", "c", "d", "e"}
    Prompt <- MCPrompt
INVARIANT ConnectorTypeOK
INVARIANT CPUBlocksExact
INVARIANT TransfersProtected
INVARIANT RefCountsExact
INVARIANT LateFreeFindsRequest
INVARIANT BlockIdsTracked
PROPERTY EveryRequestEnds
