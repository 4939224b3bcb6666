SPECIFICATION Spec
CONSTANTS
    Ends = {"a", "b"}
    Offers <- OversizedOffers
    AcceptsBig = {"a"}
    ControlCapacity = 1
    DataCapacity = 1
    ReceiveCapacity = 1
    StreamCapacity = 1
    IdleTimeout = TRUE
    Receivers = {"b"}
    Aborters = {"a", "b"}
    Resets = TRUE
    MaxSent <- TwoFromA
INVARIANTS
    LanesReliable
CHECK_DEADLOCK FALSE
