SPECIFICATION Spec
CONSTANTS
    U64Max = 1000
    Interval <- Intervals
    UnreachableAfter = 1
    DeadAfter = 2
    Policies <- Immediate
    Never = Never
    Peers = {p1, p2, p3}
    Conns = {c1, c2, c3}
    MaxPeers = 2
    MaxConnections = 2
    Failures = {"TransportClosed"}
    MaxTime = 2
INVARIANTS
    PermitsExact
    ConnectionsOwned
    VerdictsAreTold
SYMMETRY Symmetry
