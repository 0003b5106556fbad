SPECIFICATION FairSpec
CONSTANTS
    Names = {n1, n2}
    Addrs = {ip1}
    EmptyHost = EmptyHost
    NoHost = NoHost
    ResolverIds = {r1, r2}
    NoResolver = NoResolver
    MaxUrlChanges = 2
    MaxFaults = 1
INVARIANT ResolversEnd
INVARIANT ResolutionAlive
INVARIANT OneLiveQuery
INVARIANT NoSpuriousBootstrap
PROPERTY StaleResultIgnored
PROPERTY BootstrapUnlessBusFails
PROPERTY KeepsResolving
