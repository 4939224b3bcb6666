---------------------------- MODULE Controllers ----------------------------
(***************************************************************************)
(* The two per-connection controllers of mutsuki-link-core as operators on *)
(* their state: HeartbeatController (liveness.rs) and ReconnectController  *)
(* (reconnect.rs).  Neither owns a timer: a host passes the wall clock in, *)
(* and a wall clock may step back.                                         *)
(*                                                                         *)
(* An operator yields the controller afterwards and the action returned.   *)
(***************************************************************************)
EXTENDS Integers, Sequences, FiniteSets

CONSTANTS
    U64Max,             \* u64::MAX, where saturating arithmetic stops
    Interval,           \* HeartbeatPolicy::interval: activity profile -> ms
    UnreachableAfter,   \* HeartbeatPolicy.unreachable_after_ms
    DeadAfter,          \* HeartbeatPolicy.dead_after_ms
    Policies,           \* ReconnectPolicies, [kind, initial, maximum, multiplier, jitter,
                        \*  max_attempts, max_elapsed]; kind names the variant
    Never               \* Option::None of a time

Profiles == DOMAIN Interval

\* HeartbeatPolicy::is_valid, and the validity check of ReconnectController::new.
ASSUME ControllersAssumption ==
    /\ U64Max \in Nat
    /\ Never \notin Nat
    /\ "Idle" \in Profiles
    /\ Interval \in [Profiles -> 1 .. U64Max]
    /\ UnreachableAfter \in 1 .. U64Max
    /\ DeadAfter \in UnreachableAfter + 1 .. U64Max
    /\ \A p \in Policies :
         /\ p.kind \in {"Disabled", "ApplicationControlled", "Immediate", "ExponentialBackoff"}
         /\ p.max_attempts \in Nat \ {0}
         /\ p.max_elapsed \in 1 .. U64Max
         /\ p.maximum \in 1 .. U64Max
         /\ p.initial \in 1 .. p.maximum
         /\ p.multiplier \in Nat /\ p.multiplier >= 1000
         /\ p.jitter \in 0 .. 1000

Least(a, b) == IF a <= b THEN a ELSE b

SatAdd(a, b) == Least(a + b, U64Max)

SatSub(a, b) == IF a >= b THEN a - b ELSE 0

SatMul(a, b) == Least(a * b, U64Max)

-----------------------------------------------------------------------------
(* HeartbeatController *)

NewHeartbeat(now) ==
    [ last_liveness |-> now, last_ack |-> Never, next_probe |-> SatAdd(now, Interval["Idle"]),
      state |-> "Healthy", paused |-> FALSE ]

Observed(h, now) == [h EXCEPT !.last_liveness = now, !.state = "Healthy"]

TransportAcked(h, now) == [Observed(h, now) EXCEPT !.last_ack = now]

LatencyState(elevated) == IF elevated THEN "LatencyElevated" ELSE "Healthy"

\* Fault: dead_after counts from the moment the peer became unreachable.
VerdictLate(silence) ==
    CASE silence > DeadAfter + UnreachableAfter -> "Dead"
      [] silence >= UnreachableAfter /\ silence <= DeadAfter + UnreachableAfter
            -> "TemporarilyUnreachable"
      [] OTHER -> "Healthy"

Verdict(silence) ==
    CASE silence >= DeadAfter -> "Dead"
      [] silence >= UnreachableAfter /\ silence < DeadAfter -> "TemporarilyUnreachable"
      [] OTHER -> "Healthy"

\* Fault: an acknowledgement suppresses probes for two intervals.
SuppressedTwice(h, now, profile) ==
    h.last_ack # Never /\ SatSub(now, h.last_ack) <= 2 * Interval[profile]

Suppressed(h, now, profile) ==
    h.last_ack # Never /\ SatSub(now, h.last_ack) <= Interval[profile]

\* HeartbeatController::tick
HeartbeatTick(h, now, profile) ==
    LET verdict == Verdict(SatSub(now, h.last_liveness))
    IN  IF h.paused \/ h.state = "PeerClosed"
        THEN [hb |-> h, action |-> "None"]
        ELSE IF verdict # h.state
        THEN [hb |-> [h EXCEPT !.state = verdict], action |-> "StateChanged"]
        ELSE IF now < h.next_probe
        THEN [hb |-> h, action |-> "None"]
        ELSE [hb |-> [h EXCEPT !.next_probe = SatAdd(now, Interval[profile])],
              action |-> IF Suppressed(h, now, profile)
                         THEN "SuppressedByTransport" ELSE "SendProbe"]

-----------------------------------------------------------------------------
(* ReconnectController *)

PermanentFailures ==
    {"AuthenticationFailed", "IdentityExpired", "PairingRevoked", "ProtocolIncompatible",
     "Cancelled"}

RetryableFailures ==
    {"TemporarilyUnreachable", "NetworkChanged", "SleepWake", "TransportClosed",
     "ResourceExhausted"}

NewReconnect(policy) ==
    [ policy |-> policy, started |-> Never, attempts |-> 0, paused |-> FALSE,
      cancelled |-> FALSE ]

ReconnectReset(r) == [r EXCEPT !.started = Never, !.attempts = 0]

ExponentialDelay(policy, attempt) ==
    LET delay[n \in 0 .. attempt] ==
            IF n = 0 THEN policy.initial
            ELSE Least(SatMul(delay[n - 1], policy.multiplier) \div 1000, policy.maximum)
    IN  delay[attempt]

JitteredDelay(base, jitter, sample) ==
    LET span == SatMul(base, jitter) \div 1000
    IN  IF jitter = 0 THEN base
        ELSE SatAdd(SatSub(base, span), SatMul(SatMul(span, sample), 2) \div 1000)

\* The delay of the next attempt, with the entropy sample the host injects.
NextDelay(r, sample) ==
    IF r.policy.kind = "Immediate" THEN 0
    ELSE JitteredDelay(ExponentialDelay(r.policy, r.attempts), r.policy.jitter,
                       Least(sample, 1000))

Stopped(r, reason) == [rc |-> r, action |-> "Stop", reason |-> reason]

\* Fault: only the time already spent is compared with the deadline.
PastDeadlineNow(r, now, delay) == SatSub(now, r.started) >= r.policy.max_elapsed

PastDeadline(r, now, delay) ==
    LET elapsed == SatSub(now, r.started)
    IN  elapsed >= r.policy.max_elapsed \/ SatAdd(elapsed, delay) > r.policy.max_elapsed

Schedule(r, now, delay) ==
    IF r.attempts >= r.policy.max_attempts THEN Stopped(r, "AttemptsExhausted")
    ELSE IF PastDeadline(r, now, delay) THEN Stopped(r, "DeadlineExceeded")
    ELSE [rc |-> [r EXCEPT !.attempts = @ + 1], action |-> "AttemptAt",
          at |-> SatAdd(now, delay), attempt |-> r.attempts + 1]

\* Fault: every failure begins a new outage.
AfterFailureAnew(r, failure, now, sample) ==
    LET begun == [ReconnectReset(r) EXCEPT !.started = now]
    IN  IF r.cancelled \/ failure = "Cancelled" THEN Stopped(r, "Cancelled")
        ELSE IF failure \in PermanentFailures THEN Stopped(r, failure)
        ELSE IF r.paused THEN [rc |-> r, action |-> "AwaitApplication"]
        ELSE Schedule(begun, now, NextDelay(begun, sample))

\* ReconnectController::after_failure
AfterFailure(r, failure, now, sample) ==
    LET begun == IF r.started = Never THEN [r EXCEPT !.started = now] ELSE r
    IN  IF r.cancelled \/ failure = "Cancelled" THEN Stopped(r, "Cancelled")
        ELSE IF failure \in PermanentFailures THEN Stopped(r, failure)
        ELSE IF r.paused THEN [rc |-> r, action |-> "AwaitApplication"]
        ELSE IF r.policy.kind = "Disabled" THEN Stopped(begun, "Disabled")
        ELSE IF r.policy.kind = "ApplicationControlled"
        THEN [rc |-> begun, action |-> "AwaitApplication"]
        ELSE Schedule(begun, now, NextDelay(begun, sample))

=============================================================================
