-------------------------- MODULE PeerSessionPool --------------------------
(***************************************************************************)
(* PeerSessionPool (mutsuki-link-runtime): sessions by peer over QUIC      *)
(* connections, with the listener's connection budget and two controllers  *)
(* per session.                                                            *)
(*                                                                         *)
(* accept_inbound borrows the pool shared, so several may wait at once;    *)
(* every other operation borrows it exclusively, connect_outbound across   *)
(* the whole dial.  A waiting future may be dropped at any of its awaits,  *)
(* and an InboundConnect, which the host owns, at any time.                *)
(***************************************************************************)
EXTENDS Controllers

CONSTANTS
    Peers,            \* PeerIds
    Conns,            \* QUIC connections
    MaxPeers,         \* LinkEndpointConfig.max_peers
    MaxConnections,   \* budget.max_connections of the listener
    Failures,         \* ReconnectFailures that occur
    MaxTime           \* model bound: last instant of the clock

ASSUME PoolAssumption ==
    /\ MaxPeers \in Nat \ {0}
    /\ MaxConnections \in Nat \ {0}
    /\ Failures \subseteq PermanentFailures \cup RetryableFailures
    /\ MaxTime \in Nat
    /\ Never \notin Peers

VARIABLES
    duplicate_peer,   \* LinkEndpointConfig.duplicate_peer, fixed by bind
    permits,          \* the listener's ConnectionCounter
    stage,            \* where each connection is: "none", "accepting", "dialing",
                      \*  "inbound" (an InboundConnect) or "session"
    permit,           \* connections that own a ConnectionPermit
    dialing,          \* the peer being dialled, or Never
    sessions,         \* peer -> [conn, hb, rc]
    now,              \* the host's wall clock
    told              \* history: the liveness of each session as its host was told

vars == <<duplicate_peer, permits, stage, permit, dialing, sessions, now, told>>

Init ==
    /\ duplicate_peer \in {"ReplaceExisting", "Reject"}
    /\ permits = 0
    /\ stage = [c \in Conns |-> "none"]
    /\ permit = {}
    /\ dialing = Never
    /\ sessions = [p \in {} |-> Never]
    /\ now = 0
    /\ told = [p \in {} |-> Never]

Held == DOMAIN sessions

\* No future borrows the pool.
Exclusive == dialing = Never /\ \A c \in Conns : stage[c] # "accepting"

\* Fault: a connection is dropped without giving its permit back.
DropLeaking(dropped, moved) ==
    /\ permits' = permits
    /\ permit' = permit \ dropped
    /\ stage' = [c \in Conns |->
                    IF c \in dropped THEN "none"
                    ELSE IF c \in DOMAIN moved THEN moved[c] ELSE stage[c]]

\* Dropping a QuicConnection (or a future that holds a permit) aborts it and
\* releases its permit; moved gives the new stage of a connection that lives on.
Drop(dropped, moved) ==
    /\ permits' = permits - Cardinality(dropped \cap permit)
    /\ permit' = permit \ dropped
    /\ stage' = [c \in Conns |->
                    IF c \in dropped THEN "none"
                    ELSE IF c \in DOMAIN moved THEN moved[c] ELSE stage[c]]

Nothing == [c \in {} |-> "none"]

-----------------------------------------------------------------------------
(* Accepting *)

TryAcquire == permits < MaxConnections

\* accept_inbound up to its first await: without a permit it fails at once.
AcceptStarts(c) ==
    /\ dialing = Never
    /\ stage[c] = "none"
    /\ TryAcquire
    /\ permits' = permits + 1
    /\ permit' = permit \cup {c}
    /\ stage' = [stage EXCEPT ![c] = "accepting"]
    /\ UNCHANGED <<duplicate_peer, dialing, sessions, now, told>>

AcceptCompletes(c) ==
    /\ stage[c] = "accepting"
    /\ stage' = [stage EXCEPT ![c] = "inbound"]
    /\ UNCHANGED <<duplicate_peer, permits, permit, dialing, sessions, now, told>>

\* The handshake fails, the listener is closed, or the host drops the future.
AcceptEnds(c) ==
    /\ stage[c] = "accepting"
    /\ Drop({c}, Nothing)
    /\ UNCHANGED <<duplicate_peer, dialing, sessions, now, told>>

\* The host refuses to trust the peer.
DropInbound(c) ==
    /\ stage[c] = "inbound"
    /\ Drop({c}, Nothing)
    /\ UNCHANGED <<duplicate_peer, dialing, sessions, now, told>>

-----------------------------------------------------------------------------
(* Sessions *)

EnsureCapacityFor(p) ==
    IF p \in Held THEN duplicate_peer = "ReplaceExisting"
    ELSE Cardinality(Held) < MaxPeers

\* PeerSessionHandle::new, for each of the configured policies.
NewHandles(c) == {[conn |-> c, hb |-> NewHeartbeat(now), rc |-> NewReconnect(policy)] :
                    policy \in Policies}

\* Fault: the connection that is replaced stays alive beside the new one.
InsertKeepingPrevious(p, c) ==
    IF EnsureCapacityFor(p)
    THEN /\ \E handle \in NewHandles(c) :
              sessions' = [q \in Held \cup {p} |-> IF q = p THEN handle ELSE sessions[q]]
         /\ told' = [q \in Held \cup {p} |-> IF q = p THEN "Healthy" ELSE told[q]]
         /\ Drop({}, [d \in {c} |-> "session"])
    ELSE /\ Drop({c}, Nothing)
         /\ UNCHANGED <<sessions, told>>

\* insert_session of an established connection c; a refusal drops it.
InsertSession(p, c) ==
    IF EnsureCapacityFor(p)
    THEN /\ \E handle \in NewHandles(c) :
              sessions' = [q \in Held \cup {p} |-> IF q = p THEN handle ELSE sessions[q]]
         /\ told' = [q \in Held \cup {p} |-> IF q = p THEN "Healthy" ELSE told[q]]
         /\ Drop({sessions[q].conn : q \in Held \cap {p}}, [d \in {c} |-> "session"])
    ELSE /\ Drop({c}, Nothing)
         /\ UNCHANGED <<sessions, told>>

AdmitInbound(c, p) ==
    /\ Exclusive
    /\ stage[c] = "inbound"
    /\ InsertSession(p, c)
    /\ UNCHANGED <<duplicate_peer, dialing, now>>

\* connect_outbound up to the dial; without capacity it fails at once.
DialStarts(p, c) ==
    /\ Exclusive
    /\ stage[c] = "none"
    /\ EnsureCapacityFor(p)
    /\ dialing' = p
    /\ stage' = [stage EXCEPT ![c] = "dialing"]
    /\ UNCHANGED <<duplicate_peer, permits, permit, sessions, now, told>>

DialCompletes(c) ==
    /\ stage[c] = "dialing"
    /\ InsertSession(dialing, c)
    /\ dialing' = Never
    /\ UNCHANGED <<duplicate_peer, now>>

\* The dial fails, passes its deadline, is cancelled, or its future is dropped.
DialEnds(c) ==
    /\ stage[c] = "dialing"
    /\ Drop({c}, Nothing)
    /\ dialing' = Never
    /\ UNCHANGED <<duplicate_peer, sessions, now, told>>

Remove(p) ==
    /\ Exclusive
    /\ p \in Held
    /\ sessions' = [q \in Held \ {p} |-> sessions[q]]
    /\ told' = [q \in Held \ {p} |-> told[q]]
    /\ Drop({sessions[p].conn}, Nothing)
    /\ UNCHANGED <<duplicate_peer, dialing, now>>

-----------------------------------------------------------------------------
(* Controllers *)

\* Fault: only probes become events.
EventsOnlyProbes(results) == {p \in DOMAIN results : results[p].action = "SendProbe"}

\* The peers maintenance_tick returns a Heartbeat event for.
Events(results) == {p \in DOMAIN results : results[p].action # "None"}

MaintenanceTick(profile) ==
    LET results == [p \in Held |-> HeartbeatTick(sessions[p].hb, now, profile)]
    IN  /\ Exclusive
        /\ sessions' = [p \in Held |-> [sessions[p] EXCEPT !.hb = results[p].hb]]
        /\ told' = [p \in Held |-> IF p \in Events(results) THEN results[p].hb.state ELSE told[p]]
        /\ UNCHANGED <<duplicate_peer, permits, stage, permit, dialing, now>>

\* The host reaches a session's handle through get_mut and changes its
\* controllers; what it does to the heartbeat it knows.
Handled(p, handle) ==
    /\ Exclusive
    /\ sessions' = [sessions EXCEPT ![p] = handle]
    /\ told' = [told EXCEPT ![p] = IF handle.hb = sessions[p].hb THEN @ ELSE handle.hb.state]
    /\ UNCHANGED <<duplicate_peer, permits, stage, permit, dialing, now>>

ObserveTransportAck(p) ==
    Handled(p, [sessions[p] EXCEPT !.hb = TransportAcked(@, now)])

ObserveProbeAck(p) ==
    Handled(p, [sessions[p] EXCEPT !.hb = Observed(@, now)])

NoteTransportFailure(p, failure) ==
    Handled(p, [sessions[p] EXCEPT !.rc = AfterFailure(@, failure, now, 0).rc])

ResetReconnect(p) ==
    Handled(p, [sessions[p] EXCEPT !.rc = ReconnectReset(@)])

Advance ==
    /\ now < MaxTime
    /\ now' = now + 1
    /\ UNCHANGED <<duplicate_peer, permits, stage, permit, dialing, sessions, told>>

Next ==
    \/ \E c \in Conns :
          \/ AcceptStarts(c)
          \/ AcceptCompletes(c)
          \/ AcceptEnds(c)
          \/ DropInbound(c)
          \/ DialCompletes(c)
          \/ DialEnds(c)
    \/ \E c \in Conns, p \in Peers : AdmitInbound(c, p) \/ DialStarts(p, c)
    \/ \E p \in Held :
          \/ Remove(p)
          \/ ObserveTransportAck(p)
          \/ ObserveProbeAck(p)
          \/ ResetReconnect(p)
          \/ \E failure \in Failures : NoteTransportFailure(p, failure)
    \/ \E profile \in Profiles : MaintenanceTick(profile)
    \/ Advance

Spec == Init /\ [][Next]_vars

-----------------------------------------------------------------------------
(* Properties *)

\* The listener's counter is exact and within its limit: through failed and
\* abandoned accepts, refused admissions, replacements and removals, it counts
\* the live connections that came in, and an outbound one is never charged.
PermitsExact ==
    /\ permits = Cardinality(permit)
    /\ permits <= MaxConnections
    /\ permit \subseteq {c \in Conns : stage[c] \in {"accepting", "inbound", "session"}}
    /\ {c \in Conns : stage[c] \in {"accepting", "inbound"}} \subseteq permit

\* Every connection made into a session belongs to exactly one of the pool's
\* sessions, of which there are at most max_peers: a replaced, refused or
\* removed one does not stay alive unowned.
ConnectionsOwned ==
    /\ Cardinality(Held) <= MaxPeers
    /\ {c \in Conns : stage[c] = "session"} = {sessions[p].conn : p \in Held}
    /\ \A p, q \in Held : sessions[p].conn = sessions[q].conn => p = q
    /\ dialing # Never <=> \E c \in Conns : stage[c] = "dialing"

\* The events of maintenance_tick keep the host informed: a session that is
\* unreachable or dead is known to be so, and one that is not is not, however
\* ticks, acknowledgements and replacements of several peers alternate.
VerdictsAreTold == \A p \in Held : told[p] = sessions[p].hb.state

=============================================================================
