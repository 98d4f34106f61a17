CONSTANTS
    NumGpuBlocks = 4
    BlockSize = 2
    EnableCaching = TRUE
    r1 = r1
    r2 = r2
    t1 = t1
    t2 = t2
    Request = {r1, r2}
    Token = {t1, t2}
    Prompts <- CompetingPrompts
    MaxModelLen = 4
    NumLookahead = 0
    NumSpeculative = 0
    UseEagle = FALSE
    PromptLogprobs = {}
    MaxNumRunningReqs = 2
    MaxNumScheduledTokens = 3
    LongPrefillTokenThreshold = 0
    BatchQueueSize = 2
    Policy = "fcfs"
    Priority <- MCPriority
    Abortable = {r1}
SPECIFICATION SchedulerSpec
INVARIANTS QueuesExact SampledInOrder
PROPERTIES ReadsOwnKV
