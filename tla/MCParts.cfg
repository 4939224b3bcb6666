SPECIFICATION MCSpec
CONSTANTS
    MaxCeremonies = 2
    MaxOffers = 2
    Lifetime = 1
    MaxTime = 1
    None = None
    Peers = {p1, p2}
    Challenges = {c1, c2, c3}
    MaxAttempts = 2
    MaxFailures = 1
    MaxPeers = 1
    AttemptsWindow = 2
    GuardCapacity = 2
    LastInstant = 4
    MaxRequests = 5
    Devices = {d1, d2, d3}
    MaxRecords = 2
    MaxFileCalls = 6
    Absent = Absent
    Flows = {frames, other}
    FrameFlow = frames
    PriorityOf <- MCPriorityOf
    PathLimits = {3, 4}
    FrameLen = 5
    MaxFlows = 1
    MaxGroup = 2
    MaxGroupBytes = 6
    MaxPerPoll = 2
    DatagramQueueCapacity = 1
    SequenceModulus = 8
    TimeToSend = 1
    MaxFrames = 2
    MaxSends = 3
    LastTime = 1
    NoCall = NoCall
    Protocols = {p, q}
    QueueCapacity = 1
    DatagramCapacity = 1
    MaxMessages = 2
    Free = Free
    Ids = {1, 2, 3}
    Sources = {s1}
    SourceAttempts = 2
    SourceWindow = 1
    MaxSources = 1
    MaxCandidates = 2
    ResultsPerPoll = 1
    Ttls = {1, 2}
    MaxAdds = 3
    MaxStarts = 3
    LastMoment = 3
    Descriptors <- MCDescriptors
    MaxProtocolsOf <- MCMaxProtocolsOf
    MaxChannelsEach = 2
    MaxTotalChannels = 3
    Capacities = {1, 2}
    SessionChannels = {1}
    Unbounded = Unbounded
INVARIANTS
    
    AdmissionIsBounded
    TrustIsDurable
    FramesAreWhole
    
    
    CandidatesAreTracked
    CatalogsAgree
PROPERTIES
    NoResurrection
CHECK_DEADLOCK FALSE
