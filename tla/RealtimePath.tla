---------------------------- MODULE RealtimePath ----------------------------
(***************************************************************************)
(* A realtime frame on its way: send_fragmented of the NTP binding cuts it *)
(* to the path's payload limit, RealtimeSendQueue keeps the newest frame   *)
(* of each flow, QuicConnection::poll_realtime hands datagrams to Quinn,   *)
(* the network loses and reorders them, the receiving connection keeps the *)
(* newest of them, and the Reassembler puts a frame together.              *)
(*                                                                         *)
(* Quinn runs beside the sender, so the path limit and the buffer space    *)
(* change between any two steps of a call; a call is therefore the steps   *)
(* of its loops.  Generation and sequence are compared one after the other *)
(* everywhere and stand here as one number.                                *)
(***************************************************************************)
EXTENDS Integers, Sequences, SequencesExt, FiniteSets

CONSTANTS
    Flows,              \* flow ids; FrameFlow carries frames, the others single datagrams
    FrameFlow,
    PriorityOf,         \* flow -> priority code, 0 most urgent
    PathLimits,         \* payload limits the path may have
    FrameLen,           \* bytes of a frame
    MaxFlows,           \* RealtimeQueueConfig::max_flows
    MaxGroup,           \* RealtimeQueueConfig::max_datagrams_per_group
    MaxGroupBytes,      \* RealtimeQueueConfig::max_group_bytes
    MaxPerPoll,         \* MAX_REALTIME_DATAGRAMS_PER_POLL
    DatagramQueueCapacity,    \* DatagramReceiveState::capacity
    SequenceModulus,    \* 2 to the width of a sequence (u64 in the code)
    TimeToSend,         \* time from a send call to the deadline it sets
    MaxFrames,          \* model bound: frames sent
    MaxSends,           \* model bound: send calls, retries and other flows included
    LastTime,           \* model bound: last instant
    NoCall              \* no call in progress, no reassembly

Disposable == 3

ASSUME RealtimeAssumption ==
    /\ FrameFlow \in Flows /\ PriorityOf \in [Flows -> 0..Disposable]
    /\ PathLimits \subseteq Nat \ {0}
    /\ {FrameLen, MaxFlows, MaxGroup, MaxGroupBytes, MaxPerPoll, DatagramQueueCapacity} \subseteq Nat \ {0}
    /\ MaxFrames \in Nat /\ TimeToSend \in Nat /\ MaxFrames < SequenceModulus \div 2

VARIABLES
    groups,         \* RealtimeSendQueue::groups, in insertion order
    maxPayload,     \* RealtimeSendQueue::max_payload
    pathLimit,      \* what Quinn allows now, less the header
    owed,           \* datagrams offered to the queue less those the telemetry accounts for
    call,           \* the send or poll call in progress, or NoCall
    time,
    lastSeq, sends, \* last frame sequence used; send calls so far
    inflight,       \* datagrams the network holds
    delivered,       \* DatagramReceiveState::queue
    assembly,       \* Reassembler::state, or NoCall
    lastCompleted,  \* Reassembler::last_completed
    completed       \* history: frames handed to the subscriber, <<sequence, bytes written>>

realtimeVars == <<groups, maxPayload, pathLimit, owed, call, time, lastSeq, sends,
                  inflight, delivered, assembly, lastCompleted, completed>>

RealtimeInit ==
    /\ groups = <<>> /\ pathLimit \in PathLimits /\ maxPayload = pathLimit
    /\ owed = 0 /\ call = NoCall /\ time = 0 /\ lastSeq = 0 /\ sends = 0
    /\ inflight = {} /\ delivered = <<>>
    /\ assembly = NoCall /\ lastCompleted = 0 /\ completed = <<>>

receiverVars == <<delivered, assembly, lastCompleted, completed>>

-----------------------------------------------------------------------------
(* RealtimeSendQueue *)

SumLen(datagrams) == FoldSeq(LAMBDA d, n : d.len + n, 0, datagrams)

\* Datagrams pending in all groups.
CountIn(queue) ==
    LET count[i \in 0 .. Len(queue)] ==
            IF i = 0 THEN 0 ELSE count[i - 1] + Len(queue[i].datagrams)
    IN  count[Len(queue)]

\* retain
Without(queue, Drops(_)) ==
    LET kept[i \in 0 .. Len(queue)] ==
            IF i = 0 THEN <<>>
            ELSE IF ~Drops(queue[i]) THEN Append(kept[i - 1], queue[i])
            ELSE kept[i - 1]
    IN  kept[Len(queue)]

Expired(queue, now) == Without(queue, LAMBDA g : g.deadline <= now)

IsNewer(candidate, current) ==
    LET difference == (candidate - current) % SequenceModulus
    IN  difference # 0 /\ difference < SequenceModulus \div 2

\* Fault: a smaller limit leaves the groups as they are.
FitLimitKept(queue, limit) == queue

\* set_max_payload: a smaller limit drops every group that holds a larger datagram.
FitLimit(queue, limit) ==
    Without(queue, LAMBDA g : \E i \in DOMAIN g.datagrams : g.datagrams[i].len > limit)

\* evict_lower_priority: the least urgent group below `priority`, the oldest of those.
Evict(queue, priority) ==
    LET lower   == {i \in DOMAIN queue : PriorityOf[queue[i].flow] > priority}
        victim  == CHOOSE i \in lower : \A j \in lower :
                     \/ PriorityOf[queue[i].flow] > PriorityOf[queue[j].flow]
                     \/ PriorityOf[queue[i].flow] = PriorityOf[queue[j].flow] /\ i <= j
    IN  IF lower = {} THEN queue ELSE RemoveAt(queue, victim)

\* enqueue on a queue without expired groups: the queue after it, what became of the datagram,
\* how many datagrams the telemetry counted as dropped or replaced, the one offered included.
Outcome(queue, result, counted) == [queue |-> queue, result |-> result, counted |-> counted]

NewGroup(queue, d, deadline) ==
    Append(queue, [flow |-> d.flow, seq |-> d.seq, deadline |-> deadline, datagrams |-> <<d>>])

\* Fault: a group that overflows is dropped without counting the datagram that overflowed it.
AppendToGroupUncounted(queue, i, d, deadline) ==
    IF Len(queue[i].datagrams) >= MaxGroup \/ SumLen(queue[i].datagrams) + d.len > MaxGroupBytes
    THEN Outcome(RemoveAt(queue, i), "congested", Len(queue[i].datagrams))
    ELSE Outcome([queue EXCEPT ![i].datagrams = Append(@, d),
                               ![i].deadline = IF deadline < @ THEN deadline ELSE @],
                 "queued", 0)

AppendToGroup(queue, i, d, deadline) ==
    IF Len(queue[i].datagrams) >= MaxGroup \/ SumLen(queue[i].datagrams) + d.len > MaxGroupBytes
    THEN Outcome(RemoveAt(queue, i), "congested", Len(queue[i].datagrams) + 1)
    ELSE Outcome([queue EXCEPT ![i].datagrams = Append(@, d),
                               ![i].deadline = IF deadline < @ THEN deadline ELSE @],
                 "queued", 0)

Enqueue(queue, d, deadline) ==
    LET own == {i \in DOMAIN queue : queue[i].flow = d.flow}
        i   == CHOOSE i \in own : TRUE
        room == IF Len(queue) < MaxFlows THEN queue ELSE Evict(queue, PriorityOf[d.flow])
    IN  CASE own # {} /\ queue[i].seq = d.seq -> AppendToGroup(queue, i, d, deadline)
          [] own # {} /\ IsNewer(d.seq, queue[i].seq) ->
               Outcome(NewGroup(RemoveAt(queue, i), d, deadline), "replaced",
                       Len(queue[i].datagrams))
          [] own # {} -> Outcome(queue, "congested", 1)
          [] own = {} /\ Len(room) >= MaxFlows -> Outcome(queue, "congested", 1)
          [] OTHER -> Outcome(NewGroup(room, d, deadline), "queued", CountIn(queue) - CountIn(room))

\* pop_next_fitting: of the most urgent groups whose next datagram fits, the oldest.
Fitting(queue, available) ==
    LET urgent == {i \in DOMAIN queue : \A j \in DOMAIN queue :
                     PriorityOf[queue[i].flow] <= PriorityOf[queue[j].flow]}
        fits   == {i \in urgent : queue[i].datagrams[1].len <= available}
    IN  {i \in fits : \A j \in fits : i <= j}

PopFlow(queue, i) ==
    IF Len(queue[i].datagrams) = 1 THEN RemoveAt(queue, i)
    ELSE [queue EXCEPT ![i].datagrams = Tail(@)]

-----------------------------------------------------------------------------
(* Send calls *)

Fragments == (FrameLen + call.chunk - 1) \div call.chunk

Fragment(index) ==
    LET offset == index * call.chunk
        rest   == FrameLen - offset
    IN  [ flow |-> FrameFlow, seq |-> call.seq, index |-> index, count |-> Fragments,
          offset |-> offset, len |-> IF rest < call.chunk THEN rest ELSE call.chunk ]

Other(flow, seq) ==
    [flow |-> flow, seq |-> seq, index |-> 0, count |-> 1, offset |-> 0, len |-> 1]

\* send_fragmented: a new frame, or the last one again after a call that failed.
SendFrame(seq) ==
    /\ call = NoCall /\ sends < MaxSends /\ sends' = sends + 1
    /\ seq \in {lastSeq, lastSeq + 1} \cap 1..MaxFrames
    /\ lastSeq' = seq
    /\ call' = [ kind |-> "frame", seq |-> seq, chunk |-> pathLimit, index |-> 0, at |-> "enqueue",
                 deadline |-> time + TimeToSend, now |-> time, result |-> "none", sent |-> 0 ]
    /\ UNCHANGED <<groups, maxPayload, pathLimit, owed, time, inflight, receiverVars>>

\* try_send_latest on one of the other flows.
SendOther(flow) ==
    /\ call = NoCall /\ sends < MaxSends /\ sends' = sends + 1
    /\ call' = [ kind |-> "other", flow |-> flow, seq |-> lastSeq + 1, at |-> "enqueue",
                 deadline |-> time + TimeToSend, now |-> time, result |-> "none", sent |-> 0 ]
    /\ UNCHANGED <<groups, maxPayload, pathLimit, owed, time, lastSeq, inflight, receiverVars>>

\* poll_realtime called by its owner.
StartPoll ==
    /\ call = NoCall /\ groups # <<>>
    /\ call' = [kind |-> "poll", at |-> "refresh", now |-> time, result |-> "none", sent |-> 0]
    /\ UNCHANGED <<groups, maxPayload, pathLimit, owed, time, lastSeq, sends, inflight, receiverVars>>

\* refresh_realtime_state: the queue after it learned the path's limit.
Refreshed == IF pathLimit < maxPayload THEN FitLimit(groups, pathLimit) ELSE groups

\* try_send_latest up to its poll: refresh, expire, enqueue.  A datagram over the new limit is
\* an error and ends the call; what was queued before it stays.
EnqueueDatagram ==
    /\ call # NoCall /\ call.at = "enqueue"
    /\ maxPayload' = pathLimit
    /\ LET d    == IF call.kind = "frame" THEN Fragment(call.index) ELSE Other(call.flow, call.seq)
           base == Expired(Refreshed, time)
           out  == Enqueue(base, d, call.deadline)
       IN  CASE d.len > pathLimit ->
                  /\ groups' = base /\ call' = NoCall
                  /\ owed' = owed - (CountIn(groups) - CountIn(base))
             [] d.len <= pathLimit /\ call.deadline <= time ->
                  /\ groups' = base
                  /\ owed' = owed - (CountIn(groups) - CountIn(base))
                  /\ call' = [call EXCEPT !.at = "refresh", !.now = time, !.result = "expired"]
             [] OTHER ->
                  /\ groups' = out.queue
                  /\ owed' = owed + 1 - (CountIn(groups) - CountIn(base)) - out.counted
                  /\ call' = [call EXCEPT !.at = "refresh", !.now = time, !.result = out.result]
    /\ UNCHANGED <<pathLimit, time, lastSeq, sends, inflight, receiverVars>>

\* The flow of a send call.  congestion_dropped_for_flow, read before enqueue and after the
\* poll, tells try_send_latest when a group of that flow was dropped in between.
CallFlow == CASE call.kind = "frame" -> FrameFlow [] call.kind = "other" -> call.flow
              [] OTHER -> NoCall

LosesFlow(before, after) ==
    /\ \E i \in DOMAIN before : before[i].flow = CallFlow
    /\ ~\E i \in DOMAIN after : after[i].flow = CallFlow

\* poll_realtime up to its loop, and the expiry its first turn begins with.
PollRefresh ==
    /\ call # NoCall /\ call.at = "refresh"
    /\ maxPayload' = pathLimit
    /\ groups' = Expired(Refreshed, call.now)
    /\ owed' = owed - (CountIn(groups) - CountIn(groups'))
    /\ call' = [call EXCEPT !.at = "loop", !.sent = 0,
                            !.result = IF LosesFlow(groups, Refreshed) THEN "congested" ELSE @]
    /\ UNCHANGED <<pathLimit, time, lastSeq, sends, inflight, receiverVars>>

\* One turn of poll_realtime's loop that sends; send_datagram may refuse, and the call fails.
PollSend ==
    /\ call # NoCall /\ call.at = "loop" /\ call.sent < MaxPerPoll
    /\ \E available \in PathLimits \cup {1} : \E i \in Fitting(groups, available) :
         /\ groups' = PopFlow(groups, i)
         /\ owed' = owed - 1
         /\ \/ /\ inflight' = inflight \cup {groups[i].datagrams[1]}
               /\ call' = [call EXCEPT !.sent = @ + 1]
            \/ call' = NoCall /\ UNCHANGED inflight
    /\ UNCHANGED <<maxPayload, pathLimit, time, lastSeq, sends, receiverVars>>

\* A turn in which nothing fits: disposable groups are dropped.
PollCongested ==
    LET IsDisposable(g) == PriorityOf[g.flow] = Disposable
    IN  /\ call # NoCall /\ call.at = "loop" /\ call.sent < MaxPerPoll
        /\ \E i \in DOMAIN groups : IsDisposable(groups[i])
        /\ groups' = Without(groups, IsDisposable)
        /\ owed' = owed - (CountIn(groups) - CountIn(groups'))
        /\ call' = [call EXCEPT !.result = IF LosesFlow(groups, groups') THEN "congested" ELSE @]
        /\ UNCHANGED <<maxPayload, pathLimit, time, lastSeq, sends, inflight, receiverVars>>

\* The poll returns; send_fragmented goes on with its next fragment unless this one was dropped.
PollReturn ==
    /\ call # NoCall /\ call.at = "loop"
    /\ call' = IF call.kind = "frame" /\ call.result \in {"queued", "replaced"}
                  /\ call.index + 1 < Fragments
               THEN [call EXCEPT !.index = @ + 1, !.at = "enqueue"] ELSE NoCall
    /\ UNCHANGED <<groups, maxPayload, pathLimit, owed, time, lastSeq, sends, inflight, receiverVars>>

\* reset_realtime_session, close_write and abort clear the queue; the telemetry does not say so.
ClearPending ==
    /\ call = NoCall /\ groups # <<>>
    /\ groups' = <<>> /\ owed' = owed - CountIn(groups)
    /\ UNCHANGED <<maxPayload, pathLimit, call, time, lastSeq, sends, inflight, receiverVars>>

-----------------------------------------------------------------------------
(* Network and receiver *)

PathChanges ==
    /\ pathLimit' \in PathLimits \ {pathLimit}
    /\ UNCHANGED <<groups, maxPayload, owed, call, time, lastSeq, sends, inflight, receiverVars>>

TimePasses ==
    /\ time < LastTime /\ time' = time + 1
    /\ UNCHANGED <<groups, maxPayload, pathLimit, owed, call, lastSeq, sends, inflight, receiverVars>>

\* DatagramReceiveState::push: a full queue loses its oldest.  What never arrives is lost.
Arrive(d) ==
    /\ inflight' = inflight \ {d}
    /\ delivered' = Append(IF Len(delivered) >= DatagramQueueCapacity THEN Tail(delivered) ELSE delivered, d)
    /\ UNCHANGED <<groups, maxPayload, pathLimit, owed, call, time, lastSeq, sends,
                   assembly, lastCompleted, completed>>

StartAssembly(d) ==
    [seq |-> d.seq, count |-> d.count, slots |-> [i \in 0..(d.count - 1) |-> NoCall]]

\* Reassembly::insert: a slot is filled once; a repeated fragment must have the same range.
Inserts(a, d) ==
    d.count = a.count /\ a.slots[d.index] \in {NoCall, <<d.offset, d.len>>}

Inserted(a, d) == [a EXCEPT !.slots[d.index] = <<d.offset, d.len>>]

Complete(a) == \A i \in DOMAIN a.slots : a.slots[i] # NoCall

\* Fault: the ranges are not checked for gaps and overlaps.
FinishesUnchecked(a) == TRUE

\* Reassembly::finish: sorted by offset, each range begins where the one before it ended.
Finishes(a) ==
    \E order \in [1 .. a.count -> DOMAIN a.slots] :
        LET Start(i) == a.slots[order[i]][1]
            End(i)   == Start(i) + a.slots[order[i]][2]
        IN  /\ \A k \in DOMAIN a.slots : \E i \in 1 .. a.count : order[i] = k
            /\ \A i \in 1 .. a.count : Start(i) = IF i = 1 THEN 0 ELSE End(i - 1)
            /\ End(a.count) = FrameLen

Written(a) == UNION {a.slots[i][1]..(a.slots[i][1] + a.slots[i][2] - 1) : i \in DOMAIN a.slots}

\* Reassembler::push.  A complete reassembly that does not finish still counts as completed.
Receive ==
    /\ delivered # <<>>
    /\ delivered' = Tail(delivered)
    /\ LET d == Head(delivered)
           a == IF assembly # NoCall /\ assembly.seq = d.seq THEN assembly ELSE StartAssembly(d)
       IN  IF \/ d.flow # FrameFlow
              \/ d.seq <= lastCompleted
              \/ assembly # NoCall /\ d.seq < assembly.seq
              \/ ~Inserts(a, d)
           THEN UNCHANGED <<assembly, lastCompleted, completed>>
           ELSE IF ~Complete(Inserted(a, d))
           THEN assembly' = Inserted(a, d) /\ UNCHANGED <<lastCompleted, completed>>
           ELSE /\ assembly' = NoCall /\ lastCompleted' = d.seq
                /\ completed' = IF Finishes(Inserted(a, d))
                                THEN Append(completed, <<d.seq, Written(Inserted(a, d))>>)
                                ELSE completed
    /\ UNCHANGED <<groups, maxPayload, pathLimit, owed, call, time, lastSeq, sends, inflight>>

RealtimeNext ==
    \/ \E seq \in 1..MaxFrames : SendFrame(seq)
    \/ \E flow \in Flows \ {FrameFlow} : SendOther(flow)
    \/ StartPoll \/ EnqueueDatagram \/ PollRefresh \/ PollSend \/ PollCongested \/ PollReturn
    \/ ClearPending \/ PathChanges \/ TimePasses
    \/ \E d \in inflight : Arrive(d)
    \/ Receive

RealtimeSpec == RealtimeInit /\ [][RealtimeNext]_realtimeVars

-----------------------------------------------------------------------------
(* Properties *)

\* A frame handed to the subscriber is one frame in full, and newer than the one before it,
\* though datagrams are lost and reordered and a frame is sent again, cut differently, after
\* the path changed under its first attempt (Reassembler::push, finish).
FramesAreWhole ==
    \A i \in DOMAIN completed :
        /\ completed[i][2] = 0..(FrameLen - 1)
        /\ i > 1 => completed[i - 1][1] < completed[i][1]

\* RealtimeTelemetry adds up: what was offered is pending, or counted as sent (or handed to a
\* failed send), replaced, expired, dropped by congestion, or cleared with the queue.
RealtimeAccounted == owed = CountIn(groups)

\* Nothing pending is larger than the limit the queue knows, and the queue stays within
\* max_flows, one group per flow (set_max_payload, enqueue, evict_lower_priority).
PendingFits ==
    /\ \A i \in DOMAIN groups : \A j \in DOMAIN groups[i].datagrams :
         groups[i].datagrams[j].len <= maxPayload
    /\ Len(groups) <= MaxFlows
    /\ \A i, j \in DOMAIN groups : groups[i].flow = groups[j].flow => i = j

\* The send queue through enqueue, send, eviction, expiry and a changing path limit: its
\* counters add up and what it holds can be sent (RealtimeSendQueue).
SendQueueConsistent == RealtimeAccounted /\ PendingFits
=============================================================================
