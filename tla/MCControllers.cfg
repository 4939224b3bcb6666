SPECIFICATION MCSpec
CONSTANTS
    U64Max = 1000000
    Interval <- Intervals
    UnreachableAfter = 7
    DeadAfter = 9
    Policies <- AllPolicies
    Never = Never
    Epoch = 999986
    TickGap = 2
    LastTick = 999999
    MaxStepped = 1
    Failures = {"TransportClosed", "PairingRevoked", "Cancelled"}
    Samples = {0, 400, 2000}
    LastFault = 3
    MaxTime = 12
    MaxBack = 1
    ReplayOf <- Classes
    MaxPendingRequests = 2
    Transports <- Candidates
    FallbackPolicies <- Fallbacks
    ResumeOffers <- SomeOffers
    MaxOutages = 2
    MaxRecorded = 3
    LastHour = 1
    Nothing = Nothing
INVARIANTS
    DeathIsDetected
    ProbedBeforeUnreachable
    AttemptsWithinPolicy
    ComesBackSafely
PROPERTIES
    OutageEnds
