SPECIFICATION Spec
CONSTANTS
    V4 = {a4}
    V6 = {a6}
    DEFAULT_CRH = DEFAULT_CRH
    OtherHosts = {stun}
    Ports = {50805, 7547}
    NULL = NULL
    IPv6WaitTime = 0
    Bounds <- CrashBounds
CHECK_DEADLOCK FALSE
INVARIANT PortClosedWithoutCwmpd
