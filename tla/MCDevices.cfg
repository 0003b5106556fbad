SPECIFICATION DevicesFairSpec
CONSTANTS
    Keys = {"k1", "k2", "k3"}
    Identity <- IdentityOf
    Hosts = {h1, h2}
    NONE = NONE
    MaxFlips = 4
    MaxFailures = 2
CHECK_DEADLOCK FALSE
INVARIANT OnlyMatching
INVARIANT HostIsListedOrComing
PROPERTY DeviceIsListed
