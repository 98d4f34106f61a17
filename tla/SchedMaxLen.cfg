CONSTANTS
    NumGpuBlocks = 4
    BlockSize = 2
    EnableCaching = TRUE
    r1 = r1
    r2 = r2
    t1 = t1
    t2 = t2
    Request = {r1, r2}
    Token = {t1}
    Prompts <- MaxLenPrompts
    MaxModelLen = 4
    NumLookahead = 0
    NumSpeculative = 0
    UseEagle = FALSE
    PromptLogprobs = {}
    MaxNumRunningReqs = 2
    MaxNumScheduledTokens = 3
    LongPrefillTokenThreshold = 0
    BatchQueueSize = 1
    Policy = "fcfs"
    Priority <- MCPriority
    Abortable = {r1, r2}
SPECIFICATION SchedulerSpec
INVARIANTS RunningMakesProgress
