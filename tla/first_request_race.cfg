\* Concurrent first requests with one key on a healthy database, no crashes,
\* no lease expiry.
CONSTANTS
    w1 = w1  w2 = w2  w3 = w3  u1 = u1  u2 = u2  k1 = k1
    NoKey = NoKey  NoRecord = NoRecord  NoResponse = NoResponse
    Requesters <- MCWorkers
    Users <- MCUsers
    WalletUsers <- MCWalletUsers
    Keys <- MCKeys
    InitBalance <- MCInitBalance
    Responses <- MCResponses
    Amounts = {0, 1, 3}
    LockTTL = 2
    MaxTime = 1
    DBErrors = FALSE
    Crashes = FALSE
SPECIFICATION Spec
SYMMETRY MCSymmetry
INVARIANT AcquireDecides
