------------------------ MODULE MCFramedConnection ------------------------
(***************************************************************************)
(* Small instances of FramedConnection: one busy direction and a quiet one *)
(* back, queues of one frame.                                              *)
(***************************************************************************)
EXTENDS FramedConnection

Message(lane, kind, big) == [lane |-> lane, kind |-> kind, big |-> big]

\* A control and a data message as ControlStream and the data plane send them.
PlainOffers == { Message("control", "control", FALSE), Message("data", "data", FALSE) }

\* Also a message whose first bytes do not match the lane it is sent on.
CrossedOffers == PlainOffers \cup { Message("data", "control", FALSE) }

\* Also a message over the peer's frame limit.
OversizedOffers == PlainOffers \cup { Message("data", "data", TRUE) }

ThreeFromA == [e \in Ends |-> IF e = "a" THEN 3 ELSE 0]

TwoFromA == [e \in Ends |-> IF e = "a" THEN 2 ELSE 0]
=============================================================================
