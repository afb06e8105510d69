SPECIFICATION KernelsSpec
CONSTANTS
    SCHED_MAX_TASKS = 2
    Priority = {1, 2}
    TicksPerSlice = 2
    TickMs = 5
    SleepMs = {10}
    MayPreempt = TRUE
    MayOverflow = FALSE
    RELOAD = 5
    MaxCost = 2
    MaxCalls = 1
INVARIANT ContextsIntact
PROPERTIES SleeperWakes NoStarvation EachTaskRuns
