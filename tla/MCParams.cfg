SPECIFICATION Spec
CONSTANTS
    Parameters = {"a", "b", "c"}
    Object <- ObjectOf
    Domain <- DomainOf
    Default <- DefaultOf
    Writable = {"a", "c"}
    IpParameters = {"c"}
    EMPTY = ""
    NULL = NULL
    MaxModes = 3
    MaxChanges = 1
    MaxSets = 1
    MaxFaults = 1
    MaxList = 2
CHECK_DEADLOCK FALSE
INVARIANT BusMatchesList
INVARIANT AcsInformed
INVARIANT SubscriptionsStored
