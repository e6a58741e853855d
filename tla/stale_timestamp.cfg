CONSTANTS
    AlgorithmConfigs = {"sliding_window"}
    Limit = 2
    Window = 3
    BurstConfig = 0
    MaxTime = 5
    MaxCalls = 5
    MaxLatency = 1
    StoreErrors = FALSE
    Absent = Absent
    c1 = c1
    c2 = c2
    Callers <- MCCallers
SYMMETRY MCSymmetry
SPECIFICATION Spec
INVARIANTS
    SlidingWindowBudget
