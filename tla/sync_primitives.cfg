SPECIFICATION Spec
CONSTANTS
    Task = {1, 2, 3}
    Priority = {1, 2, 3}
    Workload <- QueueAndMutex
    Mutex = {"m"}
    Capacity = 2
    Item = {a, b}
    Inheritance = TRUE
INVARIANTS MutualExclusion NoLostWakeup OwnerInherits BoostEnds
PROPERTIES RespectsKernel ImplementsQueue
