SPECIFICATION FairSpec
CONSTANTS
    Transfers = {t1}
    k1 = k1
    k2 = k2
    NoKey = NoKey
    Keys = {k1, k2, NoKey}
    NULL = NULL
    Requests <- SomeRequests
    MaxFaults = 1
    MaxExits = 2
CHECK_DEADLOCK FALSE
INVARIANT NoForgottenTransfer
INVARIANT OneReport
INVARIANT NoUpgradeLoop
PROPERTY EventuallyReported
