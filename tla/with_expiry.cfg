\* Leases expire within the clock bound: a request can be reacquired while
\* its first holder is slow or has crashed; the database does not fail.
CONSTANTS
    w1 = w1  w2 = w2  w3 = w3  u1 = u1  u2 = u2  k1 = k1
    NoKey = NoKey  NoRecord = NoRecord  NoResponse = NoResponse
    Requesters <- MCWorkers
    Users <- MCUsers
    WalletUsers <- MCWalletUsers
    Keys <- MCKeys
    InitBalance <- MCInitBalance
    Responses <- MCResponses
    Amounts = {0, 1, 3}
    LockTTL = 1
    MaxTime = 2
    DBErrors = FALSE
    Crashes = TRUE
SPECIFICATION Spec
SYMMETRY MCSymmetry
INVARIANTS NoOverdraft LedgerReconciles LeaseExclusion ReplayFaithful
