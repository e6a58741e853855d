CONSTANTS
    AlgorithmConfigs = {"sliding_window", "fixed_window", "token_bucket", "leaky"}
    Limit = 2
    Window = 3
    BurstConfig = 0
    MaxTime = 5
    MaxCalls = 6
    MaxLatency = 1
    StoreErrors = TRUE
    Absent = Absent
    c1 = c1
    c2 = c2
    Callers <- MCCallers
SYMMETRY MCSymmetry
SPECIFICATION Spec
INVARIANTS
    TypeOK
    SlidingLatencyBudget
    FixedWindowBurst
    TokenBucketBudget
