--------------------------- MODULE MCControllers ---------------------------
(***************************************************************************)
(* The two controllers, and what follows a reconnect attempt, share no     *)
(* state; one run checks them side by side, `part` picks the one that      *)
(* steps.  The heartbeat has a short and a long profile, two long          *)
(* intervals and a tick gap just fit into the time after which a peer is   *)
(* unreachable, and its clock ends next to u64::MAX.  Four reconnect       *)
(* policies: both that never retry by themselves, immediate retries, and a *)
(* backoff whose third delay is capped and whose deadline can come before  *)
(* its attempts are used up.                                               *)
(***************************************************************************)
EXTENDS Heartbeat, Reconnect, Resumption

VARIABLE part

mcVars == <<part, heartbeatVars, reconnectVars, resumptionVars>>

Intervals == [p \in {"Idle", "Active"} |-> IF p = "Idle" THEN 2 ELSE 1]

Backoff ==
    [ kind |-> "ExponentialBackoff", initial |-> 2, maximum |-> 3, multiplier |-> 2000,
      jitter |-> 500, max_attempts |-> 3, max_elapsed |-> 7 ]

AllPolicies ==
    { Backoff, [Backoff EXCEPT !.kind = "Immediate", !.max_elapsed = 2],
      [Backoff EXCEPT !.kind = "Disabled"], [Backoff EXCEPT !.kind = "ApplicationControlled"] }

\* One request of each class.
Classes == <<"Idempotent", "Never", "ApplicationDecides">>

\* An authenticated transport first, then stronger and weaker ones, two of equal priority.
Candidates ==
    { [priority |-> 0, security |-> 1], [priority |-> 1, security |-> 2],
      [priority |-> 1, security |-> 0], [priority |-> 2, security |-> 1],
      [priority |-> 3, security |-> 2] }

Fallbacks == [minimum_security : 0..1, allow_security_downgrade : BOOLEAN]

\* A good offer, one that expires, and one for each reason to refuse it.
SomeOffers ==
    LET good == [genuine |-> TRUE, peer |-> "expected", within |-> TRUE, expires |-> 2]
    IN  { good, [good EXCEPT !.expires = 1], [good EXCEPT !.genuine = FALSE],
          [good EXCEPT !.peer = "other"], [good EXCEPT !.within = FALSE] }

MCInit ==
    /\ part \in {"heartbeat", "reconnect", "resumption"}
    /\ HeartbeatInit /\ ReconnectInit /\ ResumptionInit
    /\ part # "reconnect" => rc.policy.kind = "Disabled"
    /\ part # "resumption" => fallbackPolicy = CHOOSE policy \in FallbackPolicies : TRUE

MCNext ==
    /\ UNCHANGED part
    /\ \/ part = "heartbeat" /\ HeartbeatNext /\ UNCHANGED <<reconnectVars, resumptionVars>>
       \/ part = "reconnect" /\ ReconnectNext /\ UNCHANGED <<heartbeatVars, resumptionVars>>
       \/ part = "resumption" /\ ResumptionNext /\ UNCHANGED <<heartbeatVars, reconnectVars>>

ReconnectOnly == part = "reconnect" /\ UNCHANGED <<part, heartbeatVars, resumptionVars>>

MCSpec ==
    /\ MCInit /\ [][MCNext]_mcVars
    /\ WF_mcVars(ReconnectOnly /\ ReconnectAdvance)
    /\ WF_mcVars(ReconnectOnly /\ ReconnectAttempt)
=============================================================================
