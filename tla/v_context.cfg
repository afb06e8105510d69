SPECIFICATION Spec
CONSTANTS
    SCHED_MAX_TASKS = 2
    Priority = {1}
    TicksPerSlice = 1
    TickMs = 5
    SleepMs = {}
    MayPreempt = TRUE
    MayOverflow = FALSE
INVARIANT OwnContext
