CONSTANTS
    AlgorithmConfigs = {"token_bucket"}
    Limit = 1
    Window = 2
    BurstConfig = 3
    MaxTime = 5
    MaxCalls = 6
    MaxLatency = 0
    StoreErrors = FALSE
    Absent = Absent
    c1 = c1
    c2 = c2
    Callers <- MCCallers
SYMMETRY MCSymmetry
SPECIFICATION Spec
INVARIANT
    TokenBucketBudget
