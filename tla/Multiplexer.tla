---------------------------- MODULE Multiplexer ----------------------------
(***************************************************************************)
(* The per-session frame multiplexer of mutsuki-link-core (mux.rs): a      *)
(* reserved control queue, one bounded queue per open data channel, and a  *)
(* start-time weighted-fair scheduler that picks the next data frame.      *)
(*                                                                         *)
(* A payload is abstracted to its length: no decision of the multiplexer   *)
(* looks at anything else.  An operation that returns an error changes     *)
(* nothing, so a rejected call is a stuttering step and has no action.     *)
(***************************************************************************)
EXTENDS Integers, Sequences, FiniteSets, SequencesExt

CONSTANTS
    ChannelIds,            \* the non-zero u32 channel numbers in use
    Protocols,             \* (ProtocolStableId, ProtocolVersion) pairs
    ProtocolChannels,      \* ProtocolChannelId: channel numbers within a protocol
    AllowedProtocols,      \* the restriction; Protocols when unrestricted
    SessionId,             \* the session this multiplexer belongs to
    MaxFrameBytes,         \* MultiplexerLimits.max_frame_bytes
    MaxNestingDepth,       \* MultiplexerLimits.max_nesting_depth
    MaxChannels,           \* MultiplexerLimits.max_channels
    ControlQueueCapacity,  \* MultiplexerLimits.control_queue_capacity
    MaxTotalPending,       \* MultiplexerLimits.max_total_pending_frames
    Configs,               \* the ChannelConfigs a caller may ask for
    Envelopes,             \* the Envelopes a caller may offer
    ControlLengths,        \* payload lengths offered on the control queue
    NoLimit,               \* Option::None of ChannelConfig.max_stream_bytes
    MaxFrames              \* model bound: frames accepted in one behaviour

CONTROL_CHANNEL_ID == 0

Modes == {"RequestResponse", "Event", "Stream"}

ChannelConfig ==
    [ key              : Protocols \X ProtocolChannels,
      id               : ChannelIds \cup {CONTROL_CHANNEL_ID},
      generation       : Nat,
      mode             : Modes,
      priority_hint    : 0..255,
      capacity         : Nat,
      max_frame_bytes  : Nat,
      max_stream_bytes : Nat \cup {NoLimit},
      discardable      : BOOLEAN ]

\* MultiplexerLimits are positive: Multiplexer::new refuses anything else.
ASSUME LimitsAssumption ==
    /\ ChannelIds \subseteq Nat \ {CONTROL_CHANNEL_ID}
    /\ IsFiniteSet(ChannelIds)
    /\ AllowedProtocols \subseteq Protocols
    /\ MaxFrameBytes \in Nat \ {0}
    /\ MaxNestingDepth \in Nat
    /\ MaxChannels \in Nat \ {0}
    /\ ControlQueueCapacity \in Nat \ {0}
    /\ MaxTotalPending \in Nat \ {0}
    /\ MaxFrames \in Nat

ASSUME InputsAssumption ==
    /\ NoLimit \notin Nat
    /\ Configs \subseteq ChannelConfig
    /\ ControlLengths \subseteq Nat
    /\ \A e \in Envelopes : /\ e.generation \in Nat
                            /\ e.nesting_depth \in Nat
                            /\ e.length \in Nat

VARIABLES
    channels,       \* open channel id -> ChannelState
    keys,           \* ChannelKey -> ids of its open channels
    retired,        \* retired_channels: ids closed in this session
    control,        \* queued control payloads
    ready,          \* ids of the channels the scheduler considers
    virtual_time,   \* scheduler clock (u128; cannot reach 2^128 in practice)
    total_pending,  \* cached number of queued frames, control included
    (* History, not state of the code: *)
    accepted,       \* frames accepted by an enqueue
    delivered,      \* frames returned by next_outbound
    reported,       \* frames callers were told had been discarded
    bypass          \* c -> d -> frames of d sent while c's head frame waited

codeVars == <<channels, keys, retired, control, ready, virtual_time, total_pending>>
history  == <<accepted, delivered, reported, bypass>>
muxVars  == <<codeVars, history>>

ChannelState ==
    [ config         : ChannelConfig,
      queue          : Seq(Nat),
      cancelled      : BOOLEAN,
      stream_bytes   : Nat,
      virtual_finish : Nat ]

Open == DOMAIN channels

MaxOf(a, b) == IF a >= b THEN a ELSE b

NoBypass == [d \in ChannelIds |-> 0]

\* ready.retain(|r| r != id).  An id is in ready at most once (ReadyIndexExact,
\* proved), so retain removes one position or none.
Without(s, e) ==
    IF \E i \in DOMAIN s : s[i] = e
    THEN RemoveAt(s, CHOOSE i \in DOMAIN s : s[i] = e)
    ELSE s

-----------------------------------------------------------------------------
(* Scheduling cost: bytes over weight, in eight priority bands. *)

PriorityBands == 8

BandWidth == (255 + PriorityBands - 1) \div PriorityBands

SchedulingCost(length, hint) ==
    LET weight == hint \div BandWidth + 1
    IN  (MaxOf(length, 1) * PriorityBands + weight - 1) \div weight

-----------------------------------------------------------------------------
Init ==
    /\ channels = [c \in {} |-> 0]
    /\ keys = [k \in {} |-> {}]
    /\ retired = {}
    /\ control = <<>>
    /\ ready = <<>>
    /\ virtual_time = 0
    /\ total_pending = 0
    /\ accepted = 0
    /\ delivered = 0
    /\ reported = 0
    /\ bypass = [c \in ChannelIds |-> NoBypass]

-----------------------------------------------------------------------------
(* open_channel *)

ValidConfig(config) ==
    /\ config.id # CONTROL_CHANNEL_ID
    /\ config.generation # 0
    /\ config.capacity # 0
    /\ config.max_frame_bytes # 0
    /\ config.discardable => config.mode = "Event"
    /\ config.mode = "Stream" <=> config.max_stream_bytes # NoLimit

OpenAdmitted(config) ==
    /\ ValidConfig(config)
    /\ config.key[1] \in AllowedProtocols
    /\ Cardinality(Open) + Cardinality(retired) < MaxChannels
    /\ config.id \notin retired
    /\ config.id \notin Open

FreshChannel(config) ==
    [ config         |-> config,
      queue          |-> <<>>,
      cancelled      |-> FALSE,
      stream_bytes   |-> 0,
      virtual_finish |-> virtual_time ]

KeyIds(key) == IF key \in DOMAIN keys THEN keys[key] ELSE {}

OpenChannel(config) ==
    /\ OpenAdmitted(config)
    /\ keys' = [k \in DOMAIN keys \cup {config.key} |->
                  IF k = config.key THEN KeyIds(k) \cup {config.id} ELSE keys[k]]
    /\ channels' = [c \in Open \cup {config.id} |->
                      IF c = config.id THEN FreshChannel(config) ELSE channels[c]]
    /\ UNCHANGED <<retired, control, ready, virtual_time, total_pending, history>>

-----------------------------------------------------------------------------
(* enqueue_control: its own bound; the total limit is not consulted, so     *)
(* saturated data channels cannot keep close, drain or heartbeat out.       *)

\* Fault: the reserved queue is left out of the cached count.
EnqueueControlUncounted(length) ==
    /\ accepted < MaxFrames
    /\ length <= MaxFrameBytes
    /\ Len(control) < ControlQueueCapacity
    /\ control' = Append(control, length)
    /\ accepted' = accepted + 1
    /\ UNCHANGED <<channels, keys, retired, ready, virtual_time, total_pending,
                   delivered, reported, bypass>>

EnqueueControl(length) ==
    /\ accepted < MaxFrames
    /\ length <= MaxFrameBytes
    /\ Len(control) < ControlQueueCapacity
    /\ control' = Append(control, length)
    /\ total_pending' = total_pending + 1
    /\ accepted' = accepted + 1
    /\ UNCHANGED <<channels, keys, retired, ready, virtual_time,
                   delivered, reported, bypass>>

-----------------------------------------------------------------------------
(* enqueue and enqueue_discardable *)

ValidEnvelopeIdentity(e) ==
    /\ e.session_id = SessionId
    /\ e.channel_id # CONTROL_CHANNEL_ID
    /\ e.channel_id \notin retired
    /\ e.length <= MaxFrameBytes
    /\ e.nesting_depth <= MaxNestingDepth

ChannelAdmits(e) ==
    /\ e.channel_id \in Open
    /\ LET state == channels[e.channel_id]
       IN  /\ state.config.generation = e.generation
           /\ e.length <= state.config.max_frame_bytes
           /\ ~ state.cancelled

RoomFor(e) ==
    /\ total_pending < MaxTotalPending
    /\ Len(channels[e.channel_id].queue) < channels[e.channel_id].config.capacity

\* A stream channel's byte quota covers its whole life: bytes are never refunded.
WithinStreamQuota(e) ==
    LET state == channels[e.channel_id]
    IN  state.config.max_stream_bytes # NoLimit =>
            state.stream_bytes + e.length <= state.config.max_stream_bytes

StreamBytesAfter(e) ==
    LET state == channels[e.channel_id]
    IN  IF state.config.max_stream_bytes = NoLimit
        THEN state.stream_bytes
        ELSE state.stream_bytes + e.length

\* Fault: an idle channel keeps its old finish time as credit.
FinishOnArrivalWithCredit(c) == channels[c].virtual_finish

\* A channel that was idle rejoins the scheduler no earlier than the clock.
FinishOnArrival(c) ==
    IF channels[c].queue = <<>>
    THEN MaxOf(channels[c].virtual_finish, virtual_time)
    ELSE channels[c].virtual_finish

\* Fault: the id is pushed for every frame.
ReadyOnArrivalAlways(c) == Append(ready, c)

ReadyOnArrival(c) ==
    IF channels[c].queue = <<>> THEN Append(ready, c) ELSE ready

Pushed(state, length, stream_bytes, finish) ==
    [state EXCEPT !.queue = Append(@, length),
                  !.stream_bytes = stream_bytes,
                  !.virtual_finish = finish]

PushFrame(e, stream_bytes) ==
    LET c == e.channel_id
    IN  /\ channels' = [channels EXCEPT ![c] =
                          Pushed(@, e.length, stream_bytes, FinishOnArrival(c))]
        /\ ready' = ReadyOnArrival(c)
        /\ total_pending' = total_pending + 1
        /\ accepted' = accepted + 1
        /\ bypass' = IF channels[c].queue = <<>>
                     THEN [bypass EXCEPT ![c] = NoBypass]
                     ELSE bypass
        /\ UNCHANGED <<keys, retired, control, virtual_time, delivered, reported>>

Enqueue(e) ==
    /\ accepted < MaxFrames
    /\ ValidEnvelopeIdentity(e)
    /\ ChannelAdmits(e)
    /\ RoomFor(e)
    /\ WithinStreamQuota(e)
    /\ PushFrame(e, StreamBytesAfter(e))

\* Under pressure (no RoomFor) the frame is dropped: Ok(DroppedDiscardable)
\* leaves every variable unchanged, like an error.
EnqueueDiscardable(e) ==
    /\ accepted < MaxFrames
    /\ ValidEnvelopeIdentity(e)
    /\ ChannelAdmits(e)
    /\ channels[e.channel_id].config.mode = "Event"
    /\ channels[e.channel_id].config.discardable
    /\ RoomFor(e)
    /\ PushFrame(e, channels[e.channel_id].stream_bytes)

-----------------------------------------------------------------------------
(* next_outbound *)

\* Positions of ready whose channel is open and has a frame.
Candidates ==
    {i \in DOMAIN ready : ready[i] \in Open /\ channels[ready[i]].queue # <<>>}

Finish(i) == channels[ready[i]].virtual_finish

\* Fault: ties go to the channel that became ready last.
SelectedLatest(i) ==
    /\ i \in Candidates
    /\ \A j \in Candidates : \/ Finish(i) < Finish(j)
                             \/ Finish(i) = Finish(j) /\ i >= j

\* min_by_key over (virtual_finish, index).
Selected(i) ==
    /\ i \in Candidates
    /\ \A j \in Candidates : \/ Finish(i) < Finish(j)
                             \/ Finish(i) = Finish(j) /\ i <= j

NextControl ==
    /\ control # <<>>
    /\ control' = Tail(control)
    /\ total_pending' = total_pending - 1
    /\ delivered' = delivered + 1
    /\ UNCHANGED <<channels, keys, retired, ready, virtual_time,
                   accepted, reported, bypass>>

\* Fault: a channel with more frames is not put back.
ReadyAfterPopForgetting(i) == RemoveAt(ready, i)

ReadyAfterPop(i) ==
    IF Len(channels[ready[i]].queue) > 1
    THEN Append(RemoveAt(ready, i), ready[i])
    ELSE RemoveAt(ready, i)

CountBypass(c) ==
    [w \in ChannelIds |->
        CASE w = c -> NoBypass
          [] w # c /\ w \in Open /\ channels[w].queue # <<>> ->
                [bypass[w] EXCEPT ![c] = @ + 1]
          [] OTHER -> bypass[w]]

Popped(state, finish) == [state EXCEPT !.queue = Tail(@), !.virtual_finish = finish]

NextData(i) ==
    /\ control = <<>>
    /\ Selected(i)
    /\ LET c     == ready[i]
           state == channels[c]
           start == MaxOf(state.virtual_finish, virtual_time)
           cost  == SchedulingCost(Head(state.queue), state.config.priority_hint)
       IN  /\ virtual_time' = start
           /\ channels' = [channels EXCEPT ![c] = Popped(@, start + cost)]
           /\ bypass' = CountBypass(c)
    /\ ready' = ReadyAfterPop(i)
    /\ total_pending' = total_pending - 1
    /\ delivered' = delivered + 1
    /\ UNCHANGED <<keys, retired, control, accepted, reported>>

\* No candidate: next_outbound clears ready and returns None.
NextNone ==
    /\ control = <<>>
    /\ Candidates = {}
    /\ ready' = <<>>
    /\ UNCHANGED <<channels, keys, retired, control, virtual_time, total_pending, history>>

NextOutbound ==
    \/ NextControl
    \/ \E i \in DOMAIN ready : NextData(i)
    \/ NextNone

-----------------------------------------------------------------------------
(* cancel_channel, close_channel, discard_all *)

Emptied(state) == [state EXCEPT !.queue = <<>>]

Cancelled(state) == [state EXCEPT !.cancelled = TRUE, !.queue = <<>>]

\* Fault: the cancelled frames stay in the cached count.
CancelChannelUncounted(c) ==
    /\ c \in Open
    /\ channels' = [channels EXCEPT ![c] = Cancelled(@)]
    /\ ready' = Without(ready, c)
    /\ reported' = reported + Len(channels[c].queue)
    /\ UNCHANGED <<keys, retired, control, virtual_time, total_pending,
                   accepted, delivered, bypass>>

CancelChannel(c) ==
    /\ c \in Open
    /\ channels' = [channels EXCEPT ![c] = Cancelled(@)]
    /\ ready' = Without(ready, c)
    /\ total_pending' = total_pending - Len(channels[c].queue)
    /\ reported' = reported + Len(channels[c].queue)
    /\ UNCHANGED <<keys, retired, control, virtual_time,
                   accepted, delivered, bypass>>

\* The ids left under the key; the entry goes when none is left.
KeysWithout(c) ==
    LET key  == channels[c].config.key
        left == KeyIds(key) \ {c}
    IN  [k \in {k \in DOMAIN keys : k # key \/ left # {}} |->
            IF k = key THEN left ELSE keys[k]]

CloseChannel(c) ==
    /\ c \in Open
    /\ channels' = [d \in Open \ {c} |-> channels[d]]
    /\ ready' = Without(ready, c)
    /\ total_pending' = MaxOf(0, total_pending - Len(channels[c].queue))
    /\ keys' = KeysWithout(c)
    /\ retired' = retired \cup {c}
    /\ reported' = reported + Len(channels[c].queue)
    /\ UNCHANGED <<control, virtual_time, accepted, delivered, bypass>>

\* Fault: the data queues keep their frames while the count is reset.
DiscardAllKeepingData ==
    /\ control' = <<>>
    /\ reported' = reported + total_pending
    /\ total_pending' = 0
    /\ UNCHANGED <<channels, ready, keys, retired, virtual_time,
                   accepted, delivered, bypass>>

DiscardAll ==
    /\ control' = <<>>
    /\ ready' = <<>>
    /\ channels' = [c \in Open |-> Emptied(channels[c])]
    /\ reported' = reported + total_pending
    /\ total_pending' = 0
    /\ UNCHANGED <<keys, retired, virtual_time, accepted, delivered, bypass>>

-----------------------------------------------------------------------------
Next ==
    \/ \E config \in Configs : OpenChannel(config)
    \/ \E length \in ControlLengths : EnqueueControl(length)
    \/ \E e \in Envelopes : Enqueue(e)
    \/ \E e \in Envelopes : EnqueueDiscardable(e)
    \/ NextOutbound
    \/ \E c \in ChannelIds : CancelChannel(c)
    \/ \E c \in ChannelIds : CloseChannel(c)
    \/ DiscardAll

Spec == Init /\ [][Next]_muxVars

\* The host's send loop keeps asking for the next frame.
FairSpec == Spec /\ WF_muxVars(NextOutbound)

-----------------------------------------------------------------------------
(* Properties *)

\* The control queue counts as channel zero.
QueueLengths ==
    [c \in Open \cup {CONTROL_CHANNEL_ID} |->
        IF c = CONTROL_CHANNEL_ID THEN Len(control) ELSE Len(channels[c].queue)]

\* One slot <<c, i>> for every frame really queued.
Slots(lengths) == UNION {{c} \X (1 .. lengths[c]) : c \in DOMAIN lengths}

PendingSlots == Slots(QueueLengths)

\* The largest charge one frame of channel c can add to its virtual_finish.
CostBound(c) ==
    SchedulingCost(channels[c].config.max_frame_bytes, channels[c].config.priority_hint)

ShapeOK ==
    /\ Open \subseteq ChannelIds
    /\ channels \in [Open -> ChannelState]
    /\ \A c \in Open : channels[c].config.id = c
    /\ DOMAIN keys \subseteq Protocols \X ProtocolChannels
    /\ keys \in [DOMAIN keys -> SUBSET ChannelIds]
    /\ retired \subseteq ChannelIds
    /\ control \in Seq(Nat)
    /\ ready \in Seq(ChannelIds)
    /\ virtual_time \in Nat
    /\ total_pending \in Int
    /\ accepted \in Nat
    /\ delivered \in Nat
    /\ reported \in Int
    /\ bypass \in [ChannelIds -> [ChannelIds -> Nat]]

\* Types, and the usize total_pending never underflows in the subtractions of
\* next_outbound and cancel_channel.
TypeOK == ShapeOK /\ total_pending \in Nat

\* total_pending, which admission control and discard_all's report rely on, is
\* the number of frames in the queues after any mix of enqueue, send, cancel,
\* close and discard (so close_channel's saturating_sub never saturates).
PendingExact == total_pending = Cardinality(PendingSlots)

\* The scheduler's ready list names exactly the channels with a frame, each
\* once: next_outbound never returns None while a frame waits, and no channel
\* is served twice per turn.
ReadyIndexExact ==
    /\ IsInjective(ready)
    /\ ToSet(ready) = {c \in Open : channels[c].queue # <<>>}

\* A waiting channel is never behind the scheduler clock (it cannot claim
\* bandwidth for the time it was idle), and no channel is charged ahead of the
\* clock by more than one of its largest frames.
SchedulerBounds ==
    \A c \in Open :
        /\ channels[c].queue # <<>> => virtual_time <= channels[c].virtual_finish
        /\ channels[c].virtual_finish <= virtual_time + CostBound(c)

\* No starvation, quantified: while one frame of c waits at the head of its
\* queue, another channel is served at most CostBound(c) times, whatever its
\* priority and however fast it refills.  (Ties in virtual_finish go to the
\* earlier position of ready; taking the later one would allow one more.)
BoundedBypass ==
    \A c \in Open : channels[c].queue # <<>> =>
        \A d \in ChannelIds : bypass[c][d] <= CostBound(c)

\* Every accepted frame was sent, was reported as discarded to the caller that
\* discarded it, or is still queued.
FramesAccountedFor == accepted = delivered + reported + Cardinality(PendingSlots)

FrameLengths == ControlLengths \cup {e.length : e \in Envelopes}

Queues == INSTANCE ChannelQueues WITH
    Lengths   <- FrameLengths,
    backlog   <- [c \in Open |-> channels[c].queue],
    cancelled <- {c \in Open : channels[c].cancelled}

\* The multiplexer implements ChannelQueues: the cached counter, the ready
\* list and virtual time never admit, refuse, reorder or withhold a frame that
\* plain FIFO queues with a true count would not; in particular next_outbound
\* yields a frame whenever one is queued.
ImplementsQueues == Queues!Spec

=============================================================================
