SPECIFICATION FairSpec
CONSTANTS
    Requests = {r1, r2, r3}
    NULL = NULL
    MaxFaults = 2
CHECK_DEADLOCK FALSE
INVARIANT DoneIsOnItsWay
INVARIANT ReportHasResult
PROPERTY Implements
PROPERTY DoneIsAcknowledged
