SPECIFICATION Spec
CONSTANTS
    Task = {1, 2}
    Priority = {1, 2}
    Workload <- TwoLockers
    Mutex = {"m1", "m2"}
    Capacity = 1
    Item = {a}
    Inheritance = TRUE
INVARIANTS OwnerInherits
