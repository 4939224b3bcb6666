SPECIFICATION Spec
CONSTANTS
    Ends = {"a", "b"}
    Offers <- PlainOffers
    AcceptsBig = {"a"}
    ControlCapacity = 1
    DataCapacity = 1
    ReceiveCapacity = 1
    StreamCapacity = 1
    IdleTimeout = FALSE
    Receivers = {"b"}
    Aborters = {}
    Resets = FALSE
    MaxSent <- TwoFromA
INVARIANTS
    EndMeansReceived
CHECK_DEADLOCK FALSE
