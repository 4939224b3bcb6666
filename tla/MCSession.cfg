SPECIFICATION FairSession
CONSTANTS
    ChannelIds = {1, 2}
    Protocols = {"p", "q"}
    ProtocolChannels = {0, 1, 2}
    AllowedProtocols = {"p"}
    SessionId = "s"
    MaxFrameBytes = 1
    MaxNestingDepth = 0
    MaxChannels = 2
    ControlQueueCapacity = 1
    MaxTotalPending = 2
    Configs <- SmallConfigs
    Envelopes <- SmallEnvelopes
    ControlLengths = {1}
    NoLimit = NoLimit
    MaxFrames = 2
    ValidatedChannels <- SmallValidated
    MaxMappings = 2
    MaxSubscribers = 1
    Capacities = {0, 1, 2}
    FailReasons = {"Graceful", "TransportFailure"}
    MaxSubscriptions = 2
    MaxReports = 1
INVARIANTS
    TerminalIsClean
    EventsAccountedFor
    ChannelMapExact
PROPERTIES
    DrainFinishes
CHECK_DEADLOCK FALSE
