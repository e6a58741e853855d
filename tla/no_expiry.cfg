\* Leases never expire within the clock bound: retries and races of one key
\* with crashes and database failures.
CONSTANTS
    w1 = w1  w2 = w2  w3 = w3  u1 = u1  u2 = u2  k1 = k1
    NoKey = NoKey  NoRecord = NoRecord  NoResponse = NoResponse
    Requesters <- MCWorkers
    Users <- MCUsers
    WalletUsers <- MCWalletUsers
    Keys <- MCKeys
    InitBalance <- MCInitBalance
    Responses <- MCResponses
    Amounts = {0, 1, 3}
    LockTTL = 2
    MaxTime = 1
    DBErrors = TRUE
    Crashes = TRUE
SPECIFICATION Spec
SYMMETRY MCSymmetry
INVARIANTS TypeOK NoOverdraft LedgerReconciles LeaseExclusion ReplayFaithful ExactlyOnceDebit
PROPERTIES CompletedStable ImplementsService
