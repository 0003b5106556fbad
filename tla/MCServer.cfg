SPECIFICATION FairSpec
CONSTANTS
    Hosts = {wan}
    DEFAULT_CRH = DEFAULT_CRH
    Ports = {7547, 50805}
    Paths = {stored, other}
    NULL = NULL
    MaxConnectionRequest = 1
    FreqConnectionRequest = 0
    Defaults <- LowDefaults
    MaxChanges = 3
    MaxFaults = 1
    MaxRequests = 4
    MaxTime = 1
CHECK_DEADLOCK FALSE
INVARIANT ServerFollowsDm
INVARIANT RateLimited
PROPERTY NoSessionWhenDisabled
PROPERTY ServerComesUp
