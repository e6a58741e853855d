\* Start, serve and stop one process: start failures, listener errors,
\* a close error and the stop deadline are all possible.  The process
\* exits or fails to start, so it stops for good: no deadlock check.
CONSTANTS
    c1 = c1  c2 = c2  u1 = u1  u2 = u2
    Requesters <- MCConns
    Users <- MCUsers
    WalletUsers <- MCWalletUsers
    InitBalance <- MCInitBalance
    ConfigPresent <- MCConfigPresent
    Bins = {"inqury", "withdraw", ""}
    Amounts = {0, 1}
    DBErrors = TRUE
    StartFailures = TRUE
    CloseErrors = TRUE
    ServeErrors = TRUE
SPECIFICATION Spec
CHECK_DEADLOCK FALSE
INVARIANTS TypeOK ClosedAfterDrain StopReleasesHandles
PROPERTY StopCompletes
