SPECIFICATION Spec
CONSTANTS
    Request = {"r1", "r2", "r3"}
    NumCPUBlocks = 2
    NumGPUBlocks = 6
    MaxScheduled = 1
    MayAbort = {"r1", "r2"}
    AbortLoading = FALSE
    StreamsOrdered = TRUE
    Hash = {"a", "b", "c", "d", "e"}
    Prompt <- MCPrompt
 
 
INVARIANT FreeBlocksIdle
