----------------------------- MODULE NtpSession -----------------------------
(***************************************************************************)
(* The NTP adapter (ntp-mutsuki-link): a Publisher and a Subscriber, the   *)
(* reliable control stream and the realtime frames between them.           *)
(*                                                                         *)
(* A session definition is proposed, accepted, confirmed and made ready by *)
(* four control messages; results are then published on three flows, as    *)
(* datagrams or, without them, over the reliable lane keeping the latest   *)
(* frame of a flow.  Both ends are polled: every call flushes what it can  *)
(* of a bounded outbox, and a message the outbox has no room for is lost   *)
(* with an error.  A reconnect gives both ends a new link, one after the   *)
(* other.  A definition is its session id and generation; its layout and   *)
(* descriptor, and the parsers that check them, belong to the external     *)
(* crate nana-tracking-protocol.                                           *)
(***************************************************************************)
EXTENDS Naturals, SequencesExt

CONSTANTS
    Definitions,        \* [session, generation] records the application may propose
    Results,            \* sequence numbers of results
    Modes,              \* transport modes of a link
    MaxLinks,           \* model bound: links established one after the other
    MaxCalls,           \* model bound: calls the two applications make on their own
    MaxPendingControl,  \* config.max_pending_control
    ControlRoom,        \* messages the transport takes before WouldBlock, per direction
    FrameRoom,          \* frames the transport takes, or datagrams it keeps in flight
    MaxReconfigure,     \* config.max_reconfigure_per_minute
    MaxBurst,           \* config.max_burst_fps
    MaxSustained,       \* ten times the target fps of the layout
    MaxDrain,           \* config.max_receive_frames_per_poll
    MaxViolations,      \* config.max_protocol_violations
    Cadence,            \* config.geometry_cadence, 0 when None
    None

ASSUME NtpAssumption ==
    /\ Results \subseteq Nat \ {0}
    /\ None \notin Definitions /\ \A d \in Definitions : d.generation \in Nat
    /\ Modes \subseteq {"Datagram", "ReliableLatestOnly"}
    /\ {MaxLinks, MaxPendingControl, ControlRoom, FrameRoom, MaxReconfigure, MaxBurst,
        MaxSustained, MaxDrain, MaxViolations} \subseteq Nat \ {0}
    /\ MaxCalls \in Nat /\ Cadence \in Nat

VARIABLES
    mode,      \* TrackingTransportMode of each link
    pub, sub,  \* the Publisher and the Subscriber
    toSub,     \* control messages in flight, by link
    toPub,
    frames,    \* realtime frames in flight, by link
    calls      \* application calls left

vars == <<mode, pub, sub, toSub, toPub, frames, calls>>

Links == 1..MaxLinks
Flows == <<"compact", "core", "geometry">>   \* by priority: Critical, High, Disposable
Empty == [f \in ToSet(Flows) |-> None]

\* pub.latest is the ReliableLatestSender; pub.started (the session for which the command
\* in force was sent) and stalled (activations that lost a message) are history.
FreshPublisher(link) ==
    [ link |-> link, greeted |-> FALSE, hello |-> FALSE, pending |-> None, accepted |-> FALSE,
      active |-> None, playback |-> "Stopped", started |-> None, outbox |-> <<>>, last |-> 0,
      geometry |-> FALSE, latest |-> Empty, reconfigured |-> 0, burst |-> 0, sustained |-> 0,
      stalled |-> {} ]

\* sub.latest is the ReliableLatestReceiver, sub.done the last sequence each guard or
\* reassembler completed.  past (definitions activated on the link), stalled and late are
\* history.
FreshSubscriber(link) ==
    [ link |-> link, greeted |-> FALSE, hello |-> FALSE, pending |-> None, active |-> None,
      outbox |-> <<>>, latest |-> Empty, done |-> [f \in ToSet(Flows) |-> 0], ping |-> 0,
      reconfigured |-> 0, burst |-> 0, sustained |-> 0, violations |-> 0, fused |-> FALSE,
      past |-> <<>>, stalled |-> {}, late |-> FALSE ]

Init ==
    /\ \E m \in Modes : mode = [l \in Links |-> m]
    /\ pub = FreshPublisher(1)
    /\ sub = FreshSubscriber(1)
    /\ toSub = [l \in Links |-> <<>>] /\ toPub = toSub /\ frames = toSub
    /\ calls = MaxCalls

Message(kind, body) == [kind |-> kind, body |-> body]

Least(a, b) == IF a < b THEN a ELSE b

-----------------------------------------------------------------------------
(* Control: the bounded outbox and the stream it is flushed to *)

\* queue_control: done with the message queued, or refused when the outbox is full.
QueueControl(done, refused, message) ==
    IF Len(done.outbox) < MaxPendingControl
    THEN [done EXCEPT !.outbox = Append(@, message)]
    ELSE refused

FlushControl(side, queue) ==
    LET n == Least(Len(side.outbox), ControlRoom - Len(queue))
    IN  [ side  |-> [side EXCEPT !.outbox = SubSeq(@, n + 1, Len(@))],
          queue |-> queue \o SubSeq(side.outbox, 1, n) ]

\* The lane takes the pending frame of a flow, unless it is full.
FlushFlow(out, flow) ==
    IF out.latest[flow] = None \/ Len(out.queue) >= FrameRoom THEN out
    ELSE [ latest |-> [out.latest EXCEPT ![flow] = None],
           queue  |-> Append(out.queue, out.latest[flow]) ]

\* ReliableLatestSender.flush: pending frames leave by priority while the lane takes them.
FlushFrames(p, queue) ==
    LET compact == FlushFlow([latest |-> p.latest, queue |-> queue], Flows[1])
        core    == FlushFlow(compact, Flows[2])
        out     == FlushFlow(core, Flows[3])
    IN  IF mode[p.link] = "Datagram" THEN [side |-> p, queue |-> queue]
        ELSE [side |-> [p EXCEPT !.latest = out.latest], queue |-> out.queue]

\* A call of the application that queues one message and flushes.
PubSends(p, message) ==
    /\ Len(pub.outbox) < MaxPendingControl
    /\ LET out == FlushControl(QueueControl(p, p, message), toSub[p.link])
       IN  pub' = out.side /\ toSub' = [toSub EXCEPT ![p.link] = out.queue]
    /\ UNCHANGED <<mode, sub, toPub, frames>>

SubSends(s, message) ==
    /\ Len(sub.outbox) < MaxPendingControl
    /\ LET out == FlushControl(QueueControl(s, s, message), toPub[s.link])
       IN  sub' = out.side /\ toPub' = [toPub EXCEPT ![s.link] = out.queue]
    /\ UNCHANGED <<mode, pub, toSub, frames>>

Called == calls > 0 /\ calls' = calls - 1

PubHello ==
    /\ ~pub.greeted
    /\ PubSends([pub EXCEPT !.greeted = TRUE], Message("hello", pub.link))
    /\ UNCHANGED calls

SubHello ==
    /\ ~sub.greeted
    /\ SubSends([sub EXCEPT !.greeted = TRUE], Message("hello", sub.link))
    /\ UNCHANGED calls

\* note_reconfigure: the entries of the last minute are counted; Ages below expires them.
Reconfigures(side) == side.active # None

MayReconfigure(side) == Reconfigures(side) => side.reconfigured < MaxReconfigure

NoteReconfigure(side) ==
    IF Reconfigures(side) THEN [side EXCEPT !.reconfigured = @ + 1] ELSE side

\* active.session_id == session_id && generation <= active.generation
Outdated(active, d) ==
    active # None /\ active.session = d.session /\ d.generation <= active.generation

PublishDescriptor(d) ==
    /\ Called
    /\ pub.hello /\ pub.pending = None
    /\ ~Outdated(pub.active, d)
    /\ MayReconfigure(pub)
    /\ PubSends([NoteReconfigure(pub) EXCEPT !.pending = d, !.accepted = FALSE],
                Message("proposal", d))

SendCommand(command) ==
    /\ Called
    /\ sub.active # None
    /\ SubSends(sub, Message("command", [command |-> command, meant |-> sub.active]))

RequestGeometry ==
    /\ Called
    /\ sub.active # None
    /\ SubSends(sub, Message("geometry", None))

SendPing ==
    /\ Called
    /\ SubSends([sub EXCEPT !.ping = @ + 1], Message("ping", sub.ping + 1))

SendReceiverReport == Called /\ SubSends(sub, Message("report", None))

-----------------------------------------------------------------------------
(* Publisher.poll_control: what it does with each message *)

PubOnHello(p, m) == IF m = p.link THEN [p EXCEPT !.hello = TRUE] ELSE p

\* Fault: the publisher takes the subscriber's acceptance for the end of the exchange.
PubOnAcceptedEager(p, d) ==
    IF p.accepted \/ p.pending # d THEN p
    ELSE QueueControl([p EXCEPT !.pending = None, !.active = d, !.last = 0,
                                !.playback = "Paused"], p, Message("confirmed", d))

\* Fault: the acceptance is confirmed but not noted.
PubOnAcceptedForgotten(p, d) ==
    IF p.accepted \/ p.pending # d THEN p
    ELSE QueueControl(p, [p EXCEPT !.stalled = @ \cup {d}], Message("confirmed", d))

PubOnAccepted(p, d) ==
    IF p.accepted \/ p.pending # d THEN p
    ELSE QueueControl([p EXCEPT !.accepted = TRUE], [p EXCEPT !.stalled = @ \cup {d}],
                      Message("confirmed", d))

\* Fault: a reconfigured session keeps running.
PubOnReadyRunning(p, d) ==
    IF ~p.accepted \/ p.pending # d THEN p
    ELSE [p EXCEPT !.pending = None, !.accepted = FALSE, !.active = d, !.last = 0,
                   !.playback = IF @ = "Running" THEN @ ELSE "Paused"]

PubOnReady(p, d) ==
    IF ~p.accepted \/ p.pending # d THEN p
    ELSE [p EXCEPT !.pending = None, !.accepted = FALSE, !.active = d, !.last = 0,
                   !.playback = "Paused"]

PubOnCommand(p, c) ==
    IF p.active = None THEN p
    ELSE [p EXCEPT !.playback = c.command, !.started = c.meant]

PubOnPing(p, id) == QueueControl(p, p, Message("pong", id))

PubOnReport(p, m) == p

PubOnGeometry(p, m) == [p EXCEPT !.geometry = TRUE]

\* poll_control: flush, receive one message, handle it, flush again.
PubPoll(kind, Handle(_, _)) ==
    LET l == pub.link
        ctl == FlushControl(pub, toSub[l])
        data == FlushFrames(ctl.side, frames[l])
    IN  /\ toPub[l] # <<>> /\ Head(toPub[l]).kind = kind
        /\ toPub' = [toPub EXCEPT ![l] = Tail(@)]
        /\ frames' = [frames EXCEPT ![l] = data.queue]
        /\ LET out == FlushControl(Handle(data.side, Head(toPub[l]).body), ctl.queue)
           IN  pub' = out.side /\ toSub' = [toSub EXCEPT ![l] = out.queue]
        /\ UNCHANGED <<mode, sub, calls>>

\* poll_control with nothing to receive.
PubIdlePoll ==
    LET l == pub.link
        ctl == FlushControl(pub, toSub[l])
        data == FlushFrames(ctl.side, frames[l])
    IN  /\ toPub[l] = <<>>
        /\ data.side # pub
        /\ pub' = data.side
        /\ toSub' = [toSub EXCEPT ![l] = ctl.queue]
        /\ frames' = [frames EXCEPT ![l] = data.queue]
        /\ UNCHANGED <<mode, sub, toPub, calls>>

-----------------------------------------------------------------------------
(* Subscriber.poll_control *)

SubOnHello(s, m) == {IF m = s.link THEN [s EXCEPT !.hello = TRUE] ELSE s}

\* External: LayoutNegotiator takes a proposal or a confirmation, or refuses it (limits, a
\* layout it cannot serve, a timeout).
Negotiations == BOOLEAN

\* The window is charged before the generation is compared, the outbox last.  Nothing tells
\* the publisher about a refusal.
SubOnProposal(s, d) ==
    LET refused == [s EXCEPT !.stalled = @ \cup {d}]
        charged == NoteReconfigure(s)
        late == [charged EXCEPT !.stalled = @ \cup {d}]
    IN  IF ~s.hello \/ s.pending # None \/ ~MayReconfigure(s) THEN {refused}
        ELSE { IF taken /\ ~Outdated(s.active, d)
               THEN QueueControl([charged EXCEPT !.pending = d], late, Message("accepted", d))
               ELSE late : taken \in Negotiations }

\* pending is taken first, the session is active before SessionReady is queued.  The frames
\* the reliable receiver holds stay.
SubOnConfirmed(s, d) ==
    LET active == [s EXCEPT !.pending = None, !.active = s.pending, !.past = Append(@, s.pending),
                            !.done = [f \in DOMAIN @ |-> 0]]
    IN  IF s.pending = None THEN {s}
        ELSE { IF taken /\ d = s.pending
               THEN QueueControl(active, [active EXCEPT !.stalled = @ \cup {d}], Message("ready", d))
               ELSE [s EXCEPT !.pending = None, !.stalled = @ \cup {d}] : taken \in Negotiations }

SubOnPong(s, id) == {IF id = s.ping THEN [s EXCEPT !.ping = 0] ELSE s}

SubPoll(kind, Handle(_, _)) ==
    LET l == sub.link
        ctl == FlushControl(sub, toPub[l])
    IN  /\ toSub[l] # <<>> /\ Head(toSub[l]).kind = kind
        /\ toSub' = [toSub EXCEPT ![l] = Tail(@)]
        /\ \E s \in Handle(ctl.side, Head(toSub[l]).body) :
             LET out == FlushControl(s, ctl.queue)
             IN  sub' = out.side /\ toPub' = [toPub EXCEPT ![l] = out.queue]
        /\ UNCHANGED <<mode, pub, frames, calls>>

SubIdlePoll ==
    LET ctl == FlushControl(sub, toPub[sub.link])
    IN  /\ toSub[sub.link] = <<>>
        /\ ctl.side # sub
        /\ sub' = ctl.side
        /\ toPub' = [toPub EXCEPT ![sub.link] = ctl.queue]
        /\ UNCHANGED <<mode, pub, toSub, frames, calls>>

-----------------------------------------------------------------------------
(* Realtime frames *)

\* note_frame, note_received_frame: one-second and ten-second windows.
MayCount(side) == side.burst < MaxBurst /\ side.sustained < MaxSustained

CountFrame(side) == [side EXCEPT !.burst = @ + 1, !.sustained = @ + 1]

Frame(flow, n) == [flow |-> flow, def |-> pub.active, sequence |-> n]

\* A datagram there is no room for is dropped.
Offer(queue, frame) == IF Len(queue) < FrameRoom THEN Append(queue, frame) ELSE queue

\* try_send_latest: the window is charged before the sequence is compared.
TrySendLatest(n) ==
    LET p == CountFrame(pub)
        geometry == pub.geometry \/ (Cadence # 0 /\ n % Cadence = 0)
        flows == IF geometry THEN ToSet(Flows) ELSE {"compact", "core"}
        queued == [p EXCEPT !.last = n, !.geometry = FALSE]
        before == FlushFrames(queued, frames[p.link])
        after == FlushFrames([before.side EXCEPT !.latest =
                               [f \in DOMAIN @ |-> IF f \in flows THEN Frame(f, n) ELSE @[f]]],
                             before.queue)
        result == Offer(Offer(frames[p.link], Frame("compact", n)), Frame("core", n))
    IN  /\ Called
        /\ pub.playback = "Running" /\ pub.active # None
        /\ MayCount(pub)
        /\ \/ /\ n <= pub.last                                 \* ReplayOrDuplicate
              /\ pub' = p /\ UNCHANGED frames
           \/ /\ n > pub.last /\ mode[p.link] = "ReliableLatestOnly"
              /\ pub' = after.side
              /\ frames' = [frames EXCEPT ![p.link] = after.queue]
           \/ /\ n > pub.last /\ mode[p.link] = "Datagram"
              /\ pub' = queued
              /\ frames' = [frames EXCEPT ![p.link] =
                                  IF geometry THEN Offer(result, Frame("geometry", n)) ELSE result]
        /\ UNCHANGED <<mode, sub, toSub, toPub>>

\* External: a datagram may be lost; its order is in the choice of the one received.
LoseDatagram ==
    /\ mode[pub.link] = "Datagram"
    /\ \E i \in DOMAIN frames[pub.link] : frames' = [frames EXCEPT ![pub.link] = RemoveAt(@, i)]
    /\ UNCHANGED <<mode, pub, sub, toSub, toPub, calls>>

\* is_protocol_violation, counted by poll_realtime until the fuse trips.
Violation(s) ==
    [s EXCEPT !.violations = @ + 1, !.fused = s.violations + 1 >= MaxViolations]

Complete(s, f) == [s EXCEPT !.done[f.flow] = f.sequence]

\* External: CompactStreamGuard.accept and ResultStreamGuard.accept.
GuardAccepts(s, f) == f.def = s.active /\ f.sequence > s.done[f.flow]

\* The compact guard refuses a frame that is too old and that counts as a violation; a core
\* result that is too old is only reported stale.
OnCompact(s, f, late) ==
    LET seen == [s EXCEPT !.late = @ \/ late]
    IN  IF late \/ ~GuardAccepts(s, f) THEN Violation(seen) ELSE Complete(seen, f)

OnCore(s, f, late) ==
    IF mode[s.link] = "Datagram" /\ f.sequence <= s.done["core"] THEN s   \* IgnoredOld
    ELSE IF late THEN s
    ELSE IF GuardAccepts(s, f) THEN Complete(s, f) ELSE Violation(s)

OnGeometry(s, f) ==
    IF mode[s.link] = "Datagram" /\ f.sequence <= s.done["geometry"] THEN s
    ELSE IF f.def.session = s.active.session THEN Complete(s, f) ELSE Violation(s)

\* Fault: the generation of the envelope is not compared.
CurrentGenerationUnchecked(s, f) == TRUE

\* Frames of another generation are dropped, unparsed.
CurrentGeneration(s, f) == f.def.generation = s.active.generation

\* poll_realtime_inner once a frame is received.
OnFrame(s, f, late) ==
    LET counted == IF f.flow = "compact" THEN CountFrame(s) ELSE s
    IN  IF s.active = None THEN s
        ELSE IF f.flow = "compact" /\ ~MayCount(s) THEN s
        ELSE IF ~CurrentGeneration(s, f) THEN counted
        ELSE CASE f.flow = "compact"  -> OnCompact(counted, f, late)
               [] f.flow = "core"     -> OnCore(s, f, late)
               [] f.flow = "geometry" -> OnGeometry(s, f)

\* ReliableLatestReceiver.poll: only sequences are compared.
KeepLatest(latest, f) ==
    IF latest[f.flow] = None \/ f.sequence > latest[f.flow].sequence
    THEN [latest EXCEPT ![f.flow] = f] ELSE latest

\* The frames held after the first n of a queue.
Drained(latest, queue, n) ==
    LET after[i \in 0 .. n] == IF i = 0 THEN latest ELSE KeepLatest(after[i - 1], queue[i])
    IN  after[n]

\* The flow of the highest priority that holds a frame.
Foremost(latest, flow) ==
    \E i \in DOMAIN Flows :
        /\ flow = Flows[i] /\ latest[flow] # None
        /\ \A j \in 1..(i - 1) : latest[Flows[j]] = None

PollRealtimeReliable(late) ==
    LET l == sub.link
        n == Least(MaxDrain, Len(frames[l]))
        drained == Drained(sub.latest, frames[l], n)
    IN  /\ ~sub.fused /\ mode[l] = "ReliableLatestOnly"
        /\ frames' = [frames EXCEPT ![l] = SubSeq(@, n + 1, Len(@))]
        /\ \E flow \in ToSet(Flows) :
             /\ Foremost(drained, flow)
             /\ sub' = OnFrame([sub EXCEPT !.latest = [drained EXCEPT ![flow] = None]],
                               drained[flow], late)
        /\ UNCHANGED <<mode, pub, toSub, toPub, calls>>

PollRealtimeDatagram(late) ==
    LET l == sub.link
    IN  /\ ~sub.fused /\ mode[l] = "Datagram"
        /\ \E i \in DOMAIN frames[l] :
             /\ frames' = [frames EXCEPT ![l] = RemoveAt(@, i)]
             /\ sub' = OnFrame(sub, frames[l][i], late)
        /\ UNCHANGED <<mode, pub, toSub, toPub, calls>>

-----------------------------------------------------------------------------
(* Time and reconnect *)

\* A minute passes for the oldest reconfiguration, a second or ten for the frame windows.
\* A window that is not full refuses nothing, so its end matters only once it is.
Aged(old, new) ==
    \/ old.reconfigured = MaxReconfigure /\ new = [old EXCEPT !.reconfigured = @ - 1]
    \/ old.burst = MaxBurst /\ new = [old EXCEPT !.burst = 0]
    \/ old.sustained = MaxSustained /\ new = [old EXCEPT !.burst = 0, !.sustained = 0]

Ages ==
    /\ \/ Aged(pub, pub') /\ UNCHANGED sub
       \/ Aged(sub, sub') /\ UNCHANGED pub
    /\ UNCHANGED <<mode, toSub, toPub, frames, calls>>

\* reset_for_reconnect: a new connection with another link session id.  What waits in the
\* old connection for the side that drops it is gone.
PubReset ==
    /\ Called
    /\ pub.link < MaxLinks
    /\ pub' = FreshPublisher(pub.link + 1)
    /\ toPub' = [toPub EXCEPT ![pub.link] = <<>>]
    /\ UNCHANGED <<mode, sub, toSub, frames>>

SubReset ==
    /\ Called
    /\ sub.link < MaxLinks
    /\ sub' = FreshSubscriber(sub.link + 1)
    /\ toSub' = [toSub EXCEPT ![sub.link] = <<>>]
    /\ frames' = [frames EXCEPT ![sub.link] = <<>>]
    /\ UNCHANGED <<mode, pub, toPub>>

PubPolls ==
    \/ PubPoll("hello", PubOnHello) \/ PubPoll("accepted", PubOnAccepted)
    \/ PubPoll("ready", PubOnReady) \/ PubPoll("command", PubOnCommand)
    \/ PubPoll("ping", PubOnPing) \/ PubPoll("report", PubOnReport)
    \/ PubPoll("geometry", PubOnGeometry) \/ PubIdlePoll

SubPolls ==
    \/ SubPoll("hello", SubOnHello) \/ SubPoll("proposal", SubOnProposal)
    \/ SubPoll("confirmed", SubOnConfirmed) \/ SubPoll("pong", SubOnPong) \/ SubIdlePoll

PollRealtime ==
    \E late \in BOOLEAN : PollRealtimeReliable(late) \/ PollRealtimeDatagram(late)

Next ==
    \/ PubPolls \/ SubPolls \/ PollRealtime
    \/ PubHello \/ SubHello
    \/ \E d \in Definitions : PublishDescriptor(d)
    \/ \E c \in {"Running", "Paused", "Stopped"} : SendCommand(c)
    \/ RequestGeometry \/ SendPing \/ SendReceiverReport
    \/ \E n \in Results : TrySendLatest(n)
    \/ LoseDatagram \/ Ages \/ PubReset \/ SubReset

Spec == Init /\ [][Next]_vars

\* Both applications keep polling their control stream.
FairSpec == Spec /\ WF_vars(PubPolls) /\ WF_vars(SubPolls)
-----------------------------------------------------------------------------
(* Properties *)

SameLink == pub.link = sub.link

\* The subscriber leads every activation (lib.rs: poll_control of both sides).  Whatever
\* outboxes fill up and whenever either side reconnects, the publisher's session is the one
\* the subscriber runs or the one just before it while the publisher still waits for
\* SessionReady, and no frame is in flight for a session the subscriber has not activated.
SubscriberLeads ==
    SameLink =>
        LET n == Len(sub.past)
        IN  /\ IF n > 0 /\ pub.active = sub.past[n] THEN TRUE
               ELSE /\ n > 0 => pub.pending = sub.past[n] /\ pub.accepted
                    /\ pub.active = IF n > 1 THEN sub.past[n - 1] ELSE None
            /\ \A f \in ToSet(frames[pub.link]) \cup {pub.latest[w] : w \in DOMAIN pub.latest} :
                 f # None => f.def \in ToSet(sub.past)

\* A command acts on the session it was sent for (Publisher.poll_control: Command and
\* SessionReady): a Start that crosses a reconfiguration never starts the session that
\* follows, unless the activation lost a message to a full outbox or a refusal.
CommandsReachTheirSession ==
    SameLink /\ pub.playback = "Running" =>
        \/ pub.started = pub.active
        \/ pub.pending \in sub.stalled

Growing(past) == \A i, j \in DOMAIN past : i < j => past[i].generation < past[j].generation

\* The fuse is for a faulty peer (Subscriber.poll_realtime): over the reliable lane frames of
\* an honest publisher that arrive in time are never counted as violations while every
\* activation of the link has a newer generation, also while sessions change and old frames
\* are still queued on either side.
HonestStreamIsClean ==
    SameLink /\ mode[sub.link] = "ReliableLatestOnly" /\ ~sub.late /\ Growing(sub.past) =>
        sub.violations = 0

\* A proposed session becomes active at the publisher, or one of the known reasons stops it:
\* a refusal or a full outbox lost a message of the exchange, or a side reconnected.  No
\* other interleaving of polls, commands and pings leaves publish_descriptor refused for ever.
ActivationCompletes ==
    (SameLink /\ pub.pending # None)
        ~> \/ pub.pending = None \/ ~SameLink
           \/ pub.pending \in pub.stalled \cup sub.stalled
=============================================================================
