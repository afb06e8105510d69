SPECIFICATION PreemptiveSpec
CONSTANTS
    Task = {1, 2}
    Priority = {1}
    Workload <- OneSender
    Mutex = {}
    Capacity = 1
    Item = {a}
    Inheritance = TRUE
INVARIANTS NoLostWakeup
