----------------------------- MODULE Heartbeat -----------------------------
(***************************************************************************)
(* One HeartbeatController, the host that ticks it, and the evidence of    *)
(* life that reaches it: acknowledgements of the transport and of probes,  *)
(* latency measurements and the peer's close, in any order and late.       *)
(***************************************************************************)
EXTENDS Controllers

CONSTANTS
    Epoch,      \* the instant the controller is made
    TickGap,    \* the host ticks at least once in TickGap ms
    LastTick,   \* model bound: last instant of the clock
    MaxStepped  \* model bound: ms by which the clock steps back, in all

ASSUME HeartbeatAssumption ==
    /\ TickGap \in Nat \ {0}
    /\ MaxStepped \in Nat
    /\ LastTick \in 0 .. U64Max
    /\ Epoch \in 0 .. LastTick

VARIABLES
    hb,         \* HeartbeatController
    clock,      \* the host's wall clock
    (* History: *)
    ticked,     \* time of the last tick
    stepped,    \* ms the clock has stepped back
    probed,     \* a probe was asked for since the last evidence of life
    excused,    \* the controller was paused since the last evidence of life
    rested      \* the controller was paused at the last tick or since

heartbeatVars == <<hb, clock, ticked, stepped, probed, excused, rested>>

HeartbeatInit ==
    /\ hb = NewHeartbeat(Epoch)
    /\ clock = Epoch
    /\ ticked = Epoch
    /\ stepped = 0
    /\ probed = FALSE
    /\ excused = FALSE
    /\ rested = FALSE

HeartbeatAdvance ==
    /\ clock < LastTick
    /\ clock - ticked < TickGap
    /\ clock' = clock + 1
    /\ UNCHANGED <<hb, ticked, stepped, probed, excused, rested>>

HeartbeatStepBack ==
    /\ stepped < MaxStepped
    /\ clock > 0
    /\ clock' = clock - 1
    /\ ticked' = IF ticked > clock' THEN clock' ELSE ticked
    /\ stepped' = stepped + 1
    /\ UNCHANGED <<hb, probed, excused, rested>>

Tick(profile) ==
    LET result == HeartbeatTick(hb, clock, profile)
    IN  /\ hb' = result.hb
        /\ probed' = (probed \/ result.action = "SendProbe")
        /\ ticked' = clock
        /\ rested' = hb.paused
        /\ UNCHANGED <<clock, stepped, excused>>

\* New evidence of life at this instant.
Evidence(h) ==
    /\ hb' = h
    /\ probed' = FALSE
    /\ excused' = h.paused
    /\ UNCHANGED <<clock, ticked, stepped, rested>>

ObserveTransportAck == Evidence(TransportAcked(hb, clock))

ObserveProbeAck == Evidence(Observed(hb, clock))

ObserveLatency(elevated) ==
    Evidence([hb EXCEPT !.last_liveness = clock, !.state = LatencyState(elevated)])

ObservePeerClose ==
    /\ hb' = [hb EXCEPT !.state = "PeerClosed"]
    /\ UNCHANGED <<clock, ticked, stepped, probed, excused, rested>>

HeartbeatPause ==
    /\ hb' = [hb EXCEPT !.paused = TRUE]
    /\ excused' = TRUE
    /\ rested' = TRUE
    /\ UNCHANGED <<clock, ticked, stepped, probed>>

HeartbeatResume(profile) ==
    /\ hb' = [hb EXCEPT !.paused = FALSE,
                        !.next_probe = SatAdd(clock, Interval[profile])]
    /\ excused' = TRUE
    /\ rested' = TRUE
    /\ UNCHANGED <<clock, ticked, stepped, probed>>

HeartbeatNext ==
    \/ HeartbeatAdvance
    \/ HeartbeatStepBack
    \/ \E profile \in Profiles : Tick(profile)
    \/ ObserveTransportAck
    \/ ObserveProbeAck
    \/ \E elevated \in BOOLEAN : ObserveLatency(elevated)
    \/ ObservePeerClose
    \/ HeartbeatPause
    \/ \E profile \in Profiles : HeartbeatResume(profile)

HeartbeatSpec == HeartbeatInit /\ [][HeartbeatNext]_heartbeatVars

-----------------------------------------------------------------------------
(* Properties *)

\* Detection: however acknowledgements, measurements, pauses and profile
\* changes alternate, silence of dead_after_ms plus one tick gap is reported
\* as Dead, unless the controller is paused or knows of the peer's close.
DeathIsDetected ==
    /\ clock - hb.last_liveness >= DeadAfter + TickGap
    /\ ~ rested
    /\ hb.state # "PeerClosed"
    => hb.state = "Dead"

\* Two probe intervals, a tick gap and the steps back of the clock fit into
\* unreachable_after_ms, and so do two ticks: a tick that reports the end of an
\* elevated latency does not probe.
RoomToAsk ==
    /\ \A profile \in Profiles : 2 * Interval[profile] + TickGap + stepped <= UnreachableAfter
    /\ 2 * TickGap < UnreachableAfter

\* A peer is not given up unasked: where there is room to ask, a peer reported
\* unreachable or dead has been probed since it last gave a sign of life,
\* although transport acknowledgements suppress probes and profiles change
\* between ticks.
ProbedBeforeUnreachable ==
    RoomToAsk /\ hb.state \in {"TemporarilyUnreachable", "Dead"} => probed \/ excused

=============================================================================
