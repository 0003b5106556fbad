SPECIFICATION FairSpec
CONSTANTS
    V4 = {a4}
    V6 = {a6}
    DEFAULT_CRH = DEFAULT_CRH
    OtherHosts = {stun}
    Ports = {7547}
    NULL = NULL
    IPv6WaitTime = 30
    Bounds <- LifeBounds
CHECK_DEADLOCK FALSE
INVARIANT NoStartBeforeInit
INVARIANT LocalIPFollowsWan
PROPERTY CwmpdComesBack
