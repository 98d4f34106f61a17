CONSTANTS
    NumGpuBlocks = 5
    BlockSize = 2
    EnableCaching = TRUE
    r1 = r1
    r2 = r2
    t1 = t1
    t2 = t2
    Request = {r1, r2}
    Token = {t1, t2}
    Prompts <- SamePrompt
    MaxModelLen = 6
    NumLookahead = 1
    NumSpeculative = 1
    UseEagle = TRUE
    PromptLogprobs = {r2}
    MaxNumRunningReqs = 2
    MaxNumScheduledTokens = 2
    LongPrefillTokenThreshold = 0
    BatchQueueSize = 1
    Policy = "fcfs"
    Priority <- MCPriority
    Abortable = {}
SPECIFICATION FairSpec
INVARIANTS BatchWithinBudget SchedulerTypeOK
  
