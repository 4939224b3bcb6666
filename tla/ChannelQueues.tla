--------------------------- MODULE ChannelQueues ---------------------------
(***************************************************************************)
(* What the multiplexer promises its users, without its scheduler, its     *)
(* cached counter or its indexes: FIFO channels that are opened once, may  *)
(* be cancelled and are closed for good; control frames that overtake all  *)
(* data; admission limited by the number of frames really queued; and a    *)
(* next frame whenever one is queued.                                      *)
(***************************************************************************)
EXTENDS Integers, Sequences, FiniteSets

CONSTANTS ChannelIds, MaxChannels, ControlQueueCapacity, MaxTotalPending,
          Lengths   \* the payload lengths offered

VARIABLES
    backlog,    \* open channel id -> queued payload lengths, oldest first
    cancelled,  \* open channels that accept nothing any more
    retired,    \* closed channels
    control     \* queued control payloads

queueVars == <<backlog, cancelled, retired, control>>

\* Every queued frame, control frames as those of channel zero.
QueuedFrames ==
    ({0} \X (1 .. Len(control)))
        \cup UNION {{c} \X (1 .. Len(backlog[c])) : c \in DOMAIN backlog}

Init ==
    /\ backlog = [c \in {} |-> <<>>]
    /\ cancelled = {}
    /\ retired = {}
    /\ control = <<>>

Open(c) ==
    /\ c \notin DOMAIN backlog \cup retired
    /\ Cardinality(DOMAIN backlog \cup retired) < MaxChannels
    /\ backlog' = [d \in DOMAIN backlog \cup {c} |-> IF d = c THEN <<>> ELSE backlog[d]]
    /\ UNCHANGED <<cancelled, retired, control>>

AcceptControl ==
    /\ Len(control) < ControlQueueCapacity
    /\ \E length \in Lengths : control' = Append(control, length)
    /\ UNCHANGED <<backlog, cancelled, retired>>

Accept(c) ==
    /\ c \in DOMAIN backlog \ cancelled
    /\ Cardinality(QueuedFrames) < MaxTotalPending
    /\ \E length \in Lengths : backlog' = [backlog EXCEPT ![c] = Append(@, length)]
    /\ UNCHANGED <<cancelled, retired, control>>

DeliverControl ==
    /\ control # <<>>
    /\ control' = Tail(control)
    /\ UNCHANGED <<backlog, cancelled, retired>>

Deliver(c) ==
    /\ control = <<>>
    /\ c \in DOMAIN backlog
    /\ backlog[c] # <<>>
    /\ backlog' = [backlog EXCEPT ![c] = Tail(@)]
    /\ UNCHANGED <<cancelled, retired, control>>

Cancel(c) ==
    /\ c \in DOMAIN backlog
    /\ cancelled' = cancelled \cup {c}
    /\ backlog' = [backlog EXCEPT ![c] = <<>>]
    /\ UNCHANGED <<retired, control>>

Close(c) ==
    /\ c \in DOMAIN backlog
    /\ backlog' = [d \in DOMAIN backlog \ {c} |-> backlog[d]]
    /\ cancelled' = cancelled \ {c}
    /\ retired' = retired \cup {c}
    /\ UNCHANGED control

DiscardAll ==
    /\ backlog' = [c \in DOMAIN backlog |-> <<>>]
    /\ control' = <<>>
    /\ UNCHANGED <<cancelled, retired>>

DeliverNext == DeliverControl \/ \E c \in ChannelIds : Deliver(c)

Next ==
    \/ AcceptControl
    \/ DeliverNext
    \/ DiscardAll
    \/ \E c \in ChannelIds : Open(c) \/ Accept(c) \/ Cancel(c) \/ Close(c)

SafeSpec == Init /\ [][Next]_queueVars

Spec == SafeSpec /\ WF_queueVars(DeliverNext)
=============================================================================
