----------------------------- MODULE Reconnect -----------------------------
(***************************************************************************)
(* One ReconnectController and the host that drives it: a link goes down,  *)
(* the host asks after_failure, waits for the instant it is given, tries   *)
(* again, and calls reset when an attempt succeeds.  ReconnectPause, resume and     *)
(* cancellation come at any moment, and the wall clock may step back.      *)
(***************************************************************************)
EXTENDS Controllers

CONSTANTS
    Failures,   \* ReconnectFailures that occur
    Samples,    \* jitter samples the host draws, per thousand
    LastFault,  \* model bound: no outage or application attempt begins later
    MaxTime,    \* model bound: last instant of the clock
    MaxBack     \* model bound: ms by which the clock steps back, in all

ASSUME ReconnectAssumption ==
    /\ Failures \subseteq PermanentFailures \cup RetryableFailures
    /\ Samples \subseteq Nat
    /\ {LastFault, MaxBack} \subseteq Nat
    /\ MaxTime \in 0 .. U64Max

VARIABLES
    rc,       \* ReconnectController
    link,     \* the host's view: "up", "waiting", "stopped" or "application"
    due,      \* the instant of the attempt it waits for
    now,      \* the host's wall clock
    (* History: *)
    back,     \* ms the clock has stepped back
    first,    \* when this outage was first counted, or Never
    granted,  \* attempts granted in this outage, counted to one over max_attempts
    delay     \* delay of the last attempt granted

reconnectVars == <<rc, link, due, now, back, first, granted, delay>>

ReconnectInit ==
    /\ \E policy \in Policies : rc = NewReconnect(policy)
    /\ link = "up"
    /\ due = 0
    /\ now = 0
    /\ back = 0
    /\ first = Never
    /\ granted = 0
    /\ delay = 0

\* The host reports a failure and follows the answer.
Report(failure, sample) ==
    LET answer == AfterFailure(rc, failure, now, sample)
    IN  /\ rc' = answer.rc
        /\ \/ /\ answer.action = "AttemptAt"
              /\ link' = "waiting"
              /\ due' = answer.at
              /\ granted' = Least(granted + 1, rc.policy.max_attempts + 1)
              /\ delay' = answer.at - now
              /\ first' = IF first = Never THEN now ELSE first
           \/ /\ answer.action = "AwaitApplication"
              /\ link' = "application"
              /\ UNCHANGED <<due, first, granted, delay>>
           \/ /\ answer.action = "Stop"
              /\ link' = "stopped"
              /\ UNCHANGED <<due, first, granted, delay>>
        /\ UNCHANGED <<now, back>>

GoDown ==
    /\ link = "up"
    /\ now <= LastFault
    /\ \E failure \in Failures, sample \in Samples : Report(failure, sample)

\* An attempt is due, or the application decides to make one (within the model
\* bound, so that what it starts can end).
MayAttempt ==
    \/ link = "waiting" /\ now >= due
    \/ link = "application" /\ now <= LastFault

AttemptFails ==
    /\ MayAttempt
    /\ \E failure \in Failures, sample \in Samples : Report(failure, sample)

AttemptSucceeds ==
    /\ MayAttempt
    /\ link' = "up"
    /\ rc' = ReconnectReset(rc)
    /\ first' = Never
    /\ granted' = 0
    /\ UNCHANGED <<due, now, back, delay>>

ReconnectPause ==
    /\ rc' = [rc EXCEPT !.paused = TRUE]
    /\ UNCHANGED <<link, due, now, back, first, granted, delay>>

ReconnectResume ==
    /\ rc' = [rc EXCEPT !.paused = FALSE]
    /\ UNCHANGED <<link, due, now, back, first, granted, delay>>

ReconnectCancel ==
    /\ rc' = [rc EXCEPT !.cancelled = TRUE]
    /\ UNCHANGED <<link, due, now, back, first, granted, delay>>

ReconnectAdvance ==
    /\ now < MaxTime
    /\ now' = now + 1
    /\ UNCHANGED <<rc, link, due, back, first, granted, delay>>

ReconnectStepBack ==
    /\ back < MaxBack
    /\ now > 0
    /\ now' = now - 1
    /\ back' = back + 1
    /\ UNCHANGED <<rc, link, due, first, granted, delay>>

ReconnectNext ==
    \/ GoDown
    \/ AttemptFails
    \/ AttemptSucceeds
    \/ ReconnectPause
    \/ ReconnectResume
    \/ ReconnectCancel
    \/ ReconnectAdvance
    \/ ReconnectStepBack

ReconnectSpec == ReconnectInit /\ [][ReconnectNext]_reconnectVars

\* The host makes the attempt it waited for; OutageEnds assumes that it does, and
\* that time passes (ReconnectAdvance).
ReconnectAttempt == link = "waiting" /\ (AttemptFails \/ AttemptSucceeds)

-----------------------------------------------------------------------------
(* Properties *)

\* One outage costs at most max_attempts attempts, none of them after
\* max_elapsed_ms, measured from the first failure that was counted: across
\* jitter, pauses, application attempts in between, and a clock stepping back.
WithinLimits ==
    /\ granted <= rc.policy.max_attempts
    /\ link = "waiting" => due <= first + rc.policy.max_elapsed

\* The delay of every backoff attempt is the exponential one give or take its
\* jitter: never under the initial nor over the maximum by more than that share.
\* (Saturation shortens what does not fit: a product of more than u64::MAX, an instant
\* after the last one.)
BackoffInRange ==
    link = "waiting" /\ rc.policy.kind = "ExponentialBackoff" =>
        /\ \/ due = U64Max
           \/ 1000 * delay >=
                (1000 - rc.policy.jitter) * Least(rc.policy.initial, U64Max \div 1000)
        /\ 1000 * delay <= (1000 + rc.policy.jitter) * rc.policy.maximum

\* Whatever the failures, no attempt is granted outside the policy: not beyond
\* its count or deadline, nor sooner or later than its delays allow.
AttemptsWithinPolicy == WithinLimits /\ BackoffInRange

\* A wait always ends: whatever attempts fail, and however pauses, jitter and a
\* clock stepping back interfere, the link comes up again, or after_failure stops
\* or hands over to the application.
OutageEnds == link = "waiting" ~> link \in {"up", "stopped", "application"}

=============================================================================
