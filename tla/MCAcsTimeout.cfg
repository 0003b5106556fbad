SPECIFICATION Spec
CONSTANTS
    Transfers = {t1}
    k1 = k1
    k2 = k2
    NoKey = NoKey
    Keys = {k1, k2, NoKey}
    NULL = NULL
    Requests <- SomeRequests
    MaxFaults = 0
    MaxExits = 0
CHECK_DEADLOCK FALSE
PROPERTY FaultlessReportIsFinished
