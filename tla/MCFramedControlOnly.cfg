SPECIFICATION ControlPolledSpec
CONSTANTS
    Ends = {"a", "b"}
    Offers <- PlainOffers
    AcceptsBig = {"a"}
    ControlCapacity = 1
    DataCapacity = 1
    ReceiveCapacity = 1
    StreamCapacity = 1
    IdleTimeout = FALSE
    Receivers = {"b"}
    Aborters = {}
    Resets = FALSE
    MaxSent <- ThreeFromA
PROPERTIES
    ControlArrives
CHECK_DEADLOCK FALSE
