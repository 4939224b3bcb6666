SPECIFICATION FairSpec
CONSTANTS
    Ends = {"a", "b"}
    Offers <- CrossedOffers
    AcceptsBig = {"a"}
    ControlCapacity = 1
    DataCapacity = 1
    ReceiveCapacity = 1
    StreamCapacity = 1
    IdleTimeout = FALSE
    Receivers = {"b"}
    Aborters = {}
    Resets = FALSE
    MaxSent <- ThreeFromA
INVARIANTS
    ControlNotDelayed
PROPERTIES
    ControlArrives
    HalfCloseIsSeen
CHECK_DEADLOCK FALSE
