--------------------------- MODULE MemoryTransport ---------------------------
(***************************************************************************)
(* The in-memory connection (mutsuki-link-core transport.rs): two sides,   *)
(* each with three queues of messages for its owner and three flags, each  *)
(* behind its own mutex.  An operation takes the local lock, releases it,  *)
(* and takes the remote one, so a thread may be anywhere between the two.  *)
(* Control messages carry the protocol of the ControlStream that wrote     *)
(* them.  A message over the size limit, or an operation whose             *)
(* OperationContext is cancelled or late, is refused before it begins.     *)
(***************************************************************************)
EXTENDS Naturals, Sequences

CONSTANTS
    Protocols,          \* protocols a control stream may be bound to
    QueueCapacity,      \* MemoryTransportConfig::queue_capacity
    DatagramCapacity,   \* MemoryTransportConfig::datagram_capacity, 0: no datagrams
    MaxMessages,        \* model bound: messages sent
    Free                \* no operation in progress

ASSUME MemoryAssumption == QueueCapacity \in Nat \ {0} /\ DatagramCapacity \in Nat

VARIABLES
    sides,      \* the two sides (MemorySide)
    working,    \* side -> the operation its thread is inside, or Free
    written,    \* messages sent so far: the next message's number
    ends,       \* history: <<side, lane>> whose end was reported by a receive begun after it
    handed      \* history: <<side, lane, stream, message>> handed to a caller

memoryVars == <<sides, working, written, ends, handed>>

MemorySides == {"left", "right"}
MemoryLanes == {"control", "reliable", "datagram"}
Opposite(s) == IF s = "left" THEN "right" ELSE "left"

CapacityOf(lane) == IF lane = "datagram" THEN DatagramCapacity ELSE QueueCapacity

\* memory_transport_pair
MemoryInit ==
    /\ sides = [s \in MemorySides |-> [ queue |-> [lane \in MemoryLanes |-> <<>>],
                                       write_closed |-> FALSE, read_closed |-> FALSE,
                                       aborted |-> FALSE ]]
    /\ working = [s \in MemorySides |-> Free]
    /\ written = 0 /\ ends = {} /\ handed = {}

\* Fault: a send looks only at the other side.
MayStartSendUnchecked(s) == TRUE

\* The first lock of send_to_remote.
MayStartSend(s) == ~sides[s].write_closed

\* try_send, try_send_control through a ControlStream, try_send_datagram.
StartSend(s, lane, protocol) ==
    /\ working[s] = Free /\ written < MaxMessages
    /\ CapacityOf(lane) > 0 /\ MayStartSend(s)
    /\ written' = written + 1
    /\ working' = [working EXCEPT ![s] = [ op |-> "send", lane |-> lane,
                     message |-> [number |-> written', protocol |-> protocol] ]]
    /\ UNCHANGED <<sides, ends, handed>>

\* The second: the message is queued unless the other side aborted, closed or is full.
FinishSend(s) ==
    LET w == working[s]
        r == sides[Opposite(s)]
    IN  /\ w # Free /\ w.op = "send"
        /\ working' = [working EXCEPT ![s] = Free]
        /\ sides' = IF r.aborted \/ r.read_closed \/ Len(r.queue[w.lane]) >= CapacityOf(w.lane)
                    THEN sides
                    ELSE [sides EXCEPT ![Opposite(s)].queue[w.lane] = Append(@, w.message)]
        /\ UNCHANGED <<written, ends, handed>>

\* Fault: the stream returns whatever is next on the control lane.
AcceptsAny(lane, stream, message) == TRUE

\* ControlStream::try_receive refuses a frame of another protocol, which is gone by then.
Accepts(lane, stream, message) == lane # "control" \/ message.protocol = stream

\* The first lock of receive_local: an error, a message, or on to the other side's flag.
TakeMessage(s, lane, stream) ==
    LET l == sides[s]
    IN  /\ working[s] = Free /\ CapacityOf(lane) > 0
        /\ ~l.aborted /\ ~l.read_closed
        /\ IF l.queue[lane] # <<>>
           THEN LET m == Head(l.queue[lane])
                IN  /\ sides' = [sides EXCEPT ![s].queue[lane] = Tail(@)]
                    /\ handed' = IF Accepts(lane, stream, m)
                                 THEN handed \cup {<<s, lane, stream, m>>} ELSE handed
                    /\ UNCHANGED working
           ELSE /\ working' = [working EXCEPT ![s] = [ op |-> "receive", lane |-> lane,
                                 begun_closed |-> sides[Opposite(s)].write_closed ]]
                /\ UNCHANGED <<sides, handed>>
        /\ UNCHANGED <<written, ends>>

\* The second: Ok(None) when the other side closed its writing, WouldBlock otherwise.
FinishReceive(s) ==
    LET w == working[s]
    IN  /\ w # Free /\ w.op = "receive"
        /\ working' = [working EXCEPT ![s] = Free]
        /\ ends' = IF sides[Opposite(s)].write_closed /\ w.begun_closed
                   THEN ends \cup {<<s, w.lane>>} ELSE ends
        /\ UNCHANGED <<sides, written, handed>>

\* close_write, close_read, abort: each sets one flag of the local side.
SetFlag(s, flag) ==
    /\ working[s] = Free /\ ~sides[s][flag]
    /\ sides' = [sides EXCEPT ![s][flag] = TRUE]
    /\ UNCHANGED <<working, written, ends, handed>>

MemoryNext ==
    \E s \in MemorySides :
        \/ \E lane \in MemoryLanes \ {"control"} : StartSend(s, lane, Free)
        \/ \E protocol \in Protocols : StartSend(s, "control", protocol)
        \/ FinishSend(s)
        \/ \E lane \in MemoryLanes \ {"control"} : TakeMessage(s, lane, Free)
        \/ \E protocol \in Protocols : TakeMessage(s, "control", protocol)
        \/ FinishReceive(s)
        \/ \E flag \in {"write_closed", "read_closed", "aborted"} : SetFlag(s, flag)

MemorySpec == MemoryInit /\ [][MemoryNext]_memoryVars

-----------------------------------------------------------------------------
(* Properties *)

\* receive_local looks at its queue and at the other side's flag under two locks, so Ok(None)
\* may be early by the messages sent in between.  A receive that begins after the writer
\* closed is not: once it reports the end of a lane, nothing is left there and nothing follows.
EndIsFinal ==
    \A e \in ends : /\ sides[e[1]].queue[e[2]] = <<>>
                    /\ working[Opposite(e[1])] # Free => working[Opposite(e[1])].op # "send"

\* Every message a caller was handed was sent on that lane, once, and for that stream's
\* protocol: control streams of two protocols share a lane but never each other's frames.
StreamsAreSeparate ==
    \A h \in handed :
        /\ h[2] = "control" => h[4].protocol = h[3]
        /\ \A g \in handed : g[4].number = h[4].number => g = h
        /\ \A s \in MemorySides, lane \in MemoryLanes : \A i \in DOMAIN sides[s].queue[lane] :
             sides[s].queue[lane][i].number # h[4].number

\* What a user of the in-memory connection relies on (send_to_remote, receive_local and
\* ControlStream): an end that holds, and no message lost to another stream or given twice.
MemoryLanesReliable == EndIsFinal /\ StreamsAreSeparate
=============================================================================
