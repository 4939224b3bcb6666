------------------------------ MODULE Session ------------------------------
(***************************************************************************)
(* An established session (session.rs): its lifecycle, its bounded event   *)
(* bus, the compact channel map (SessionChannelMap of control.rs) and the  *)
(* multiplexer they guard.  The data-plane operations are the actions of   *)
(* Multiplexer under the session's own conditions.                         *)
(***************************************************************************)
EXTENDS Multiplexer

CONSTANTS
    ValidatedChannels,   \* [config, bound]: registry-validated descriptors; bound
                         \* says that the descriptor's ids, limits, schema and
                         \* capabilities are the ones in config and negotiated
    MaxMappings,         \* MAX_SESSION_CHANNEL_MAPPINGS
    MaxSubscribers,      \* SessionEventBus.max_subscribers
    Capacities,          \* event queue capacities a subscriber asks for
    FailReasons,         \* CloseReasons a host passes to Session::fail
    MaxSubscriptions,    \* model bound: subscribe calls in one behaviour
    MaxReports           \* model bound: quality and continuity reports

CloseReasons == {"Graceful", "LocalAbort", "RemoteClosed", "Timeout",
                 "AuthenticationFailed", "ProtocolViolation", "TransportFailure"}

ASSUME SessionAssumption ==
    /\ FailReasons \subseteq CloseReasons
    /\ MaxMappings \in Nat \ {0}
    /\ MaxSubscribers \in Nat \ {0}
    /\ Capacities \subseteq Nat
    /\ MaxSubscriptions \in Nat
    /\ MaxReports \in Nat
    /\ \A v \in ValidatedChannels : v.config \in Configs /\ v.bound \in BOOLEAN

VARIABLES
    state,         \* SessionState
    close_reason,  \* SessionInfo.close_reason, "None" while active
    control_mode,  \* ControlModeGuard, fixed by negotiation
    data_mode,     \* DataModeGuard, fixed by negotiation
    by_protocol,   \* SessionChannelMap: ChannelKey -> session channel id
    by_session,    \* SessionChannelMap: session channel id -> ChannelKey
    map_retired,   \* SessionChannelMap.retired
    subscribers,   \* EventSubscriberId -> [queue, capacity, dropped]
    next_id,       \* next EventSubscriberId
    (* History: *)
    reports,       \* quality and continuity reports so far
    published,     \* subscriber -> events published to it
    received,      \* subscriber -> events handed to it or reported dropped
    told           \* subscribers that have been handed the Closed event

mapVars   == <<by_protocol, by_session, map_retired>>
busVars   == <<subscribers, next_id, published, received, told>>
modes     == <<control_mode, data_mode>>
sessionVars == <<muxVars, state, close_reason, modes, mapVars, busVars, reports>>

\* SessionEvent, by its kind; EventsDropped is made by next and never queued.
SessionEvents == {"StateChanged", "ContinuityChanged", "QualityChanged", "Closed"}

Active   == state \in {"Established", "Draining"}
Terminal == state \in {"Closed", "Failed"}

\* DataIdentityMode::negotiate
NegotiatedDataMode(mode, compact) ==
    IF mode = "TypedV1" /\ compact THEN "CompactV1" ELSE "LegacyFullChannelKey"

\* Session::established
SessionInit ==
    /\ Init
    /\ state = "Established"
    /\ close_reason = "None"
    /\ control_mode \in {"TypedV1", "LegacyStringV1"}
    /\ \E compact \in BOOLEAN : data_mode = NegotiatedDataMode(control_mode, compact)
    /\ by_protocol = [k \in {} |-> 0]
    /\ by_session = [c \in {} |-> 0]
    /\ map_retired = {}
    /\ subscribers = [s \in {} |-> 0]
    /\ next_id = 1
    /\ reports = 0
    /\ published = [s \in {} |-> 0]
    /\ received = [s \in {} |-> 0]
    /\ told = {}

-----------------------------------------------------------------------------
(* Event bus *)

\* Fault: a full queue refuses the new event instead of dropping the oldest.
DeliverDropNewest(subscriber, event) ==
    IF Len(subscriber.queue) = subscriber.capacity
    THEN [subscriber EXCEPT !.dropped = @ + 1]
    ELSE [subscriber EXCEPT !.queue = Append(@, event)]

\* A full queue drops its oldest event and counts it.
DeliverEvent(subscriber, event) ==
    IF Len(subscriber.queue) = subscriber.capacity
    THEN [subscriber EXCEPT !.queue = Append(Tail(@), event), !.dropped = @ + 1]
    ELSE [subscriber EXCEPT !.queue = Append(@, event)]

DeliverToAll(subs, event) == [s \in DOMAIN subs |-> DeliverEvent(subs[s], event)]

\* The subscribers after count events.
Published(subs, count) ==
    /\ subscribers' = subs
    /\ published' = [s \in DOMAIN published |-> published[s] + count]
    /\ UNCHANGED <<next_id, received, told>>

Publish(event) == Published(DeliverToAll(subscribers, event), 1)

Subscribe(capacity) ==
    /\ next_id <= MaxSubscriptions
    /\ capacity # 0
    /\ Cardinality(DOMAIN subscribers) < MaxSubscribers
    /\ LET with(f, v) == [s \in DOMAIN f \cup {next_id} |-> IF s = next_id THEN v ELSE f[s]]
       IN  /\ subscribers' = with(subscribers,
                                  [queue |-> <<>>, capacity |-> capacity, dropped |-> 0])
           /\ published' = with(published, 0)
           /\ received' = with(received, 0)
    /\ next_id' = next_id + 1
    /\ told' = IF Terminal THEN told \cup {next_id} ELSE told  \* nothing left to tell
    /\ UNCHANGED <<muxVars, state, close_reason, modes, mapVars, reports>>

\* next: first the number of dropped events, then the oldest event left.
NextEvent(s) ==
    /\ s \in DOMAIN subscribers
    /\ \/ /\ subscribers[s].dropped > 0
          /\ received' = [received EXCEPT ![s] = @ + subscribers[s].dropped]
          /\ subscribers' = [subscribers EXCEPT ![s].dropped = 0]
          /\ told' = told
       \/ /\ subscribers[s].dropped = 0
          /\ subscribers[s].queue # <<>>
          /\ subscribers' = [subscribers EXCEPT ![s].queue = Tail(@)]
          /\ received' = [received EXCEPT ![s] = @ + 1]
          /\ told' = IF Head(subscribers[s].queue) = "Closed" THEN told \cup {s} ELSE told
    /\ UNCHANGED <<muxVars, state, close_reason, modes, mapVars, next_id, published, reports>>

Unsubscribe(s) ==
    /\ s \in DOMAIN subscribers
    /\ subscribers' = [t \in DOMAIN subscribers \ {s} |-> subscribers[t]]
    /\ published' = [t \in DOMAIN published \ {s} |-> published[t]]
    /\ received' = [t \in DOMAIN received \ {s} |-> received[t]]
    /\ told' = told \ {s}
    /\ UNCHANGED <<muxVars, state, close_reason, modes, mapVars, next_id, reports>>

-----------------------------------------------------------------------------
(* Channels *)

MatchesSession(validated) ==
    /\ validated.bound
    /\ validated.config.generation = 1
    /\ validated.config.key[1] \in AllowedProtocols

\* SessionChannelMap::validate_bind
ValidBind(key, id) ==
    /\ key[2] # 0
    /\ id # CONTROL_CHANNEL_ID
    /\ key \notin DOMAIN by_protocol
    /\ id \notin DOMAIN by_session \cup map_retired
    /\ Cardinality(DOMAIN by_protocol) + Cardinality(map_retired) < MaxMappings

Bind(key, id) ==
    /\ by_protocol' = [k \in DOMAIN by_protocol \cup {key} |->
                         IF k = key THEN id ELSE by_protocol[k]]
    /\ by_session' = [c \in DOMAIN by_session \cup {id} |->
                        IF c = id THEN key ELSE by_session[c]]
    /\ UNCHANGED map_retired

OpenValidatedChannel(validated) ==
    /\ Active
    /\ control_mode = "TypedV1"
    /\ data_mode = "CompactV1"
    /\ MatchesSession(validated)
    /\ ValidBind(validated.config.key, validated.config.id)
    /\ OpenChannel(validated.config)
    /\ Bind(validated.config.key, validated.config.id)
    /\ UNCHANGED <<state, close_reason, modes, busVars, reports>>

OpenLegacyValidatedChannel(validated) ==
    /\ Active
    /\ data_mode = "LegacyFullChannelKey"
    /\ MatchesSession(validated)
    /\ OpenChannel(validated.config)
    /\ UNCHANGED <<state, close_reason, modes, mapVars, busVars, reports>>

\* Fault: only one of the two indexes forgets the channel.
UnbindHalf(id) ==
    /\ by_session' = [c \in DOMAIN by_session \ {id} |-> by_session[c]]
    /\ map_retired' = map_retired \cup {id}
    /\ UNCHANGED by_protocol

\* SessionChannelMap::unbind; a channel without a mapping changes nothing.
Unbind(id) ==
    \/ /\ id \in DOMAIN by_session
       /\ by_protocol' = [k \in DOMAIN by_protocol \ {by_session[id]} |-> by_protocol[k]]
       /\ by_session' = [c \in DOMAIN by_session \ {id} |-> by_session[c]]
       /\ map_retired' = map_retired \cup {id}
    \/ /\ id \notin DOMAIN by_session
       /\ UNCHANGED mapVars

\* Allowed in every state, terminal ones included.
CloseSessionChannel(id) ==
    /\ CloseChannel(id)
    /\ Unbind(id)
    /\ UNCHANGED <<state, close_reason, modes, busVars, reports>>

-----------------------------------------------------------------------------
(* Data plane *)

SessionUnchanged == UNCHANGED <<state, close_reason, modes, mapVars, busVars, reports>>

DataAccept ==
    /\ Active
    /\ \/ \E e \in Envelopes : Enqueue(e)
       \/ \E e \in Envelopes : EnqueueDiscardable(e)
       \/ \E length \in ControlLengths : EnqueueControl(length)
    /\ SessionUnchanged

DataCancel(id) == Active /\ CancelChannel(id) /\ SessionUnchanged

\* next_outbound is not guarded by the session's state.
DataNext == NextOutbound /\ SessionUnchanged

-----------------------------------------------------------------------------
(* Lifecycle *)

\* update_quality and report_continuity.
Report ==
    /\ reports < MaxReports
    /\ Active
    /\ \E event \in {"QualityChanged", "ContinuityChanged"} : Publish(event)
    /\ reports' = reports + 1
    /\ UNCHANGED <<muxVars, state, close_reason, modes, mapVars>>

BeginDrain ==
    /\ state = "Established"
    /\ state' = "Draining"
    /\ Publish("StateChanged")
    /\ UNCHANGED <<muxVars, close_reason, modes, mapVars, reports>>

\* Session::close, private: the state, then the two events.
CloseSession(reason, final) ==
    /\ state' = final
    /\ close_reason' = reason
    /\ Published(DeliverToAll(DeliverToAll(subscribers, "StateChanged"), "Closed"), 2)
    /\ UNCHANGED <<modes, mapVars, reports>>

\* Fault: finish_drain does not wait for the queues.
FinishDrainEarly ==
    /\ state = "Draining"
    /\ CloseSession("Graceful", "Closed")
    /\ UNCHANGED muxVars

FinishDrain ==
    /\ state = "Draining"
    /\ total_pending = 0
    /\ CloseSession("Graceful", "Closed")
    /\ UNCHANGED muxVars

Abort ==
    /\ ~ Terminal
    /\ DiscardAll
    /\ CloseSession("LocalAbort", "Closed")

Fail(reason) ==
    /\ ~ Terminal
    /\ DiscardAll
    /\ CloseSession(reason, "Failed")

-----------------------------------------------------------------------------
SessionNext ==
    \/ \E v \in ValidatedChannels : OpenValidatedChannel(v)
    \/ \E v \in ValidatedChannels : OpenLegacyValidatedChannel(v)
    \/ \E id \in ChannelIds : CloseSessionChannel(id)
    \/ DataAccept
    \/ \E id \in ChannelIds : DataCancel(id)
    \/ DataNext
    \/ Report
    \/ BeginDrain
    \/ FinishDrain
    \/ Abort
    \/ \E reason \in FailReasons : Fail(reason)
    \/ \E capacity \in Capacities : Subscribe(capacity)
    \/ \E s \in DOMAIN subscribers : NextEvent(s)
    \/ \E s \in DOMAIN subscribers : Unsubscribe(s)

SessionSpec == SessionInit /\ [][SessionNext]_sessionVars

\* A draining host keeps sending and retries finish_drain.
FairSession ==
    /\ SessionSpec
    /\ WF_sessionVars(DataNext)
    /\ WF_sessionVars(FinishDrain)

-----------------------------------------------------------------------------
(* Properties *)

\* A closed or failed session holds no frame, although next_outbound and
\* close_channel may still be called on it, and a graceful close has lost none:
\* every accepted frame was sent or was discarded by an explicit cancel or close
\* of its channel (finish_drain).  (A host may also pass Graceful to fail, which
\* discards: the state tells the two apart.)
TerminalIsClean ==
    Terminal =>
        /\ PendingSlots = {} /\ ready = <<>>
        /\ state = "Closed" /\ close_reason = "Graceful" => accepted = delivered + reported

\* Drop-oldest queues, however small, lose nothing silently (SessionEventBus::publish):
\* every published event reaches its subscriber or is counted as dropped, a
\* subscriber that does not read keeps no more than its capacity, and one that was
\* there when the session ended has been handed Closed or will find it as the
\* newest event of its queue.
EventsAccountedFor ==
    \A s \in DOMAIN subscribers :
        LET queue == subscribers[s].queue
        IN  /\ published[s] = received[s] + subscribers[s].dropped + Len(queue)
            /\ Len(queue) <= subscribers[s].capacity
            /\ Terminal => s \in told \/ (queue # <<>> /\ Last(queue) = "Closed")

\* With compact ids the map and the multiplexer agree at all times: the two
\* indexes are inverse, they cover exactly the open channels under their own
\* key, and both tables have retired the same ids.  Without, it stays empty.
ChannelMapExact ==
    /\ \A k \in DOMAIN by_protocol : by_protocol[k] \in DOMAIN by_session
                                     /\ by_session[by_protocol[k]] = k
    /\ \A c \in DOMAIN by_session : by_session[c] \in DOMAIN by_protocol
                                    /\ by_protocol[by_session[c]] = c
    /\ data_mode = "CompactV1" =>
         /\ DOMAIN by_session = Open
         /\ \A c \in Open : by_session[c] = channels[c].config.key
         /\ map_retired = retired
    /\ data_mode # "CompactV1" => DOMAIN by_session \cup map_retired = {}

\* A drain ends: once producers stop (MaxFrames), a host that keeps sending
\* and retrying finish_drain reaches a terminal state.
DrainFinishes == state = "Draining" ~> Terminal

=============================================================================
