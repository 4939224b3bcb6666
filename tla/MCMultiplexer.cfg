SPECIFICATION MCSpec
CONSTANTS
    ChannelIds = {1, 2, 3}
    Protocols = {"p", "q"}
    ProtocolChannels = {1, 2}
    AllowedProtocols = {"p"}
    SessionId = "s"
    MaxFrameBytes = 2
    MaxNestingDepth = 0
    MaxChannels = 2
    ControlQueueCapacity = 1
    MaxTotalPending = 3
    Configs <- Configurations
    Envelopes <- MixedEnvelopes
    ControlLengths = {0, 3}
    NoLimit = NoLimit
    MaxFrames = 8
    MaxMixedFrames = 6
INVARIANTS
    TypeOK
    PendingExact
    ReadyIndexExact
    FramesAccountedFor
    SchedulerBounds
    BoundedBypass
PROPERTIES
    ImplementsQueues
CHECK_DEADLOCK FALSE
