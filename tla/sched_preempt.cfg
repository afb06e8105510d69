SPECIFICATION Spec
CONSTANTS
    SCHED_MAX_TASKS = 3
    Priority = {1, 2}
    TicksPerSlice = 2
    TickMs = 5
    SleepMs = {12}
    MayPreempt = TRUE
    MayOverflow = TRUE
INVARIANTS OneRunning PickStillReady PreemptionsUnwind OutrankedOneSlice 
PROPERTIES  ImplementsKernel
