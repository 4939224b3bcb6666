SPECIFICATION FairSpec
CONSTANTS
    Definitions <- Proposals
    Results = {1, 2}
    Modes = {"Datagram", "ReliableLatestOnly"}
    MaxLinks = 2
    MaxCalls = 4
    MaxPendingControl = 1
    ControlRoom = 1
    FrameRoom = 2
    MaxReconfigure = 1
    MaxBurst = 1
    MaxSustained = 2
    MaxDrain = 2
    MaxViolations = 1
    Cadence = 0
    None = None
INVARIANTS
    SubscriberLeads
    CommandsReachTheirSession
    
PROPERTIES
    ActivationCompletes
CHECK_DEADLOCK FALSE
