-------------------------- MODULE PairingAdmission --------------------------
(***************************************************************************)
(* What a device consults before it takes part in a pairing ceremony: the  *)
(* PairingAttemptLimiter, with one window for attempts and one for         *)
(* failures, and the ReplayGuard, a bounded memory of challenges seen.     *)
(* Their clock is the caller's now_unix_ms, taken not to run backwards.    *)
(***************************************************************************)
EXTENDS AttemptWindow

CONSTANTS
    Peers,              \* peers that ask to be paired
    Challenges,         \* challenges they present (a hash stands for its challenge)
    MaxAttempts,        \* PairingRateLimit::max_attempts
    MaxFailures,        \* PairingRateLimit::max_failures
    MaxPeers,           \* PairingRateLimit::max_peers
    AttemptsWindow,     \* PairingRateLimit::window_ms
    GuardCapacity,      \* ReplayGuard::capacity
    LastInstant,        \* model bound: last instant of the limiter's clock
    MaxRequests         \* model bound: calls of begin, record_failure and reserve

\* PairingAttemptLimiter::new and ReplayGuard::new refuse anything else.
ASSUME AdmissionAssumption ==
    {MaxAttempts, MaxFailures, MaxPeers, AttemptsWindow, GuardCapacity} \subseteq Nat \ {0}

VARIABLES
    attempts,   \* PairingAttemptLimiter::attempts
    failures,   \* PairingAttemptLimiter::failures
    order,      \* ReplayGuard::order, oldest first; challenges is the set of its members
    clock,      \* now_unix_ms
    admitted,   \* history: <<table, peer>> -> times at which a call returned Ok
    reserved,   \* history: challenges reserve accepted, in order
    requests    \* model bound: calls so far

admissionVars == <<attempts, failures, order, clock, admitted, reserved, requests>>

AdmissionInit ==
    /\ attempts = <<>> /\ failures = <<>> /\ order = <<>>
    /\ clock = 0 /\ requests = 0
    /\ admitted = [k \in {"attempt", "failure"} \X Peers |-> <<>>]
    /\ reserved = <<>>

CountRequest == requests < MaxRequests /\ requests' = requests + 1

RecordAdmitted(kind, peer, outcome) ==
    admitted' = IF outcome.admitted
                THEN [admitted EXCEPT ![<<kind, peer>>] = Append(@, clock)] ELSE admitted

\* PairingAttemptLimiter::begin
BeginAttempt(peer) ==
    LET outcome == AttemptOutcome(attempts, peer, MaxAttempts, MaxPeers, AttemptsWindow, clock)
    IN  /\ CountRequest
        /\ attempts' = outcome.table
        /\ RecordAdmitted("attempt", peer, outcome)
        /\ UNCHANGED <<failures, order, clock, reserved>>

\* PairingAttemptLimiter::record_failure
RecordFailure(peer) ==
    LET outcome == AttemptOutcome(failures, peer, MaxFailures, MaxPeers, AttemptsWindow, clock)
    IN  /\ CountRequest
        /\ failures' = outcome.table
        /\ RecordAdmitted("failure", peer, outcome)
        /\ UNCHANGED <<attempts, order, clock, reserved>>

\* Fault: the guard keeps one challenge less than its capacity.
RememberedEarly(challenge) ==
    LET pushed == Append(order, challenge)
    IN  IF Len(pushed) >= GuardCapacity THEN Tail(pushed) ELSE pushed

\* reserve pushes first and evicts the oldest once over capacity.
Remembered(challenge) ==
    LET pushed == Append(order, challenge)
    IN  IF Len(pushed) > GuardCapacity THEN Tail(pushed) ELSE pushed

Reserve(challenge) ==
    /\ CountRequest
    /\ IF Contains(order, challenge)
       THEN UNCHANGED <<order, reserved>>
       ELSE order' = Remembered(challenge) /\ reserved' = Append(reserved, challenge)
    /\ UNCHANGED <<attempts, failures, clock, admitted>>

ClockTick ==
    /\ clock < LastInstant
    /\ clock' = clock + 1
    /\ UNCHANGED <<attempts, failures, order, admitted, reserved, requests>>

AdmissionNext ==
    \/ \E peer \in Peers : BeginAttempt(peer) \/ RecordFailure(peer)
    \/ \E challenge \in Challenges : Reserve(challenge)
    \/ ClockTick

AdmissionSpec == AdmissionInit /\ [][AdmissionNext]_admissionVars

-----------------------------------------------------------------------------
(* Properties *)

\* The limiter as its caller sees it, across pruned sources and full tables: no window of
\* window_ms holds more admitted attempts (failures) of one peer than the limit allows, and
\* neither map grows past max_peers (admit).
AttemptsWithinWindow ==
    /\ \A k \in DOMAIN admitted :
         LET max == IF k[1] = "attempt" THEN MaxAttempts ELSE MaxFailures
         IN  \A i \in DOMAIN admitted[k] :
               i + max \in DOMAIN admitted[k] =>
                   admitted[k][i + max] - admitted[k][i] >= AttemptsWindow
    /\ \A table \in {attempts, failures} : Cardinality(DOMAIN table) <= MaxPeers

\* ReplayGuard forgets, but never early: a challenge is accepted a second time only after
\* capacity other challenges were accepted in between (reserve).
ReplayOnlyBeyondCapacity ==
    \A i, j \in DOMAIN reserved :
        i < j /\ reserved[i] = reserved[j] => j - i > GuardCapacity

\* Both bounds of the admission control: RateLimiter's window and ReplayGuard's capacity.
AdmissionIsBounded == AttemptsWithinWindow /\ ReplayOnlyBeyondCapacity
=============================================================================
