----------------------------- MODULE Resumption -----------------------------
(***************************************************************************)
(* What a host does between losing a connection and using the next one: a  *)
(* FallbackPlan (selection.rs) chooses the transport, the peer judges the  *)
(* resume offer and the ResumeCoordinator (resume.rs) says what becomes of *)
(* the requests that were never acknowledged.                              *)
(*                                                                         *)
(* Each is a passive object the host calls; the order of the calls, and    *)
(* requests and acknowledgements arriving between them, is the host's and  *)
(* the network's.  A token is judged by what it is: whose, until when,     *)
(* within the limits or not, genuine or not.                               *)
(***************************************************************************)
EXTENDS Naturals, SequencesExt, FiniteSetsExt

CONSTANTS
    ReplayOf,           \* request id -> RequestReplay its owner declared
    MaxPendingRequests, \* ResumeLimits::max_pending_requests
    Transports,         \* TransportCandidates: [priority, security] records
    FallbackPolicies,   \* [minimum_security, allow_security_downgrade] records
    ResumeOffers,       \* [genuine, peer, within, expires] records the peer may present
    MaxOutages,         \* model bound: connections lost
    MaxRecorded,        \* model bound: requests recorded
    LastHour,           \* model bound: last instant of the clock
    Nothing             \* no plan, no continuity

Requests == DOMAIN ReplayOf

\* SecurityLevel: Plaintext, Authenticated, AuthenticatedEncrypted.
SecurityLevels == 0..2

ASSUME ResumptionAssumption ==
    /\ ReplayOf \in [Requests -> {"Never", "Idempotent", "ApplicationDecides"}]
    /\ MaxPendingRequests \in Nat \ {0}
    /\ IsFiniteSet(Transports)
    /\ \A t \in Transports : t.priority \in Nat /\ t.security \in SecurityLevels
    /\ \A p \in FallbackPolicies : p.minimum_security \in SecurityLevels
    /\ \A offer \in ResumeOffers : offer.expires \in Nat
    /\ Nothing \notin Transports /\ Nothing \notin ResumeOffers /\ Nothing \notin SecurityLevels

VARIABLES
    unanswered,     \* ResumeCoordinator::pending
    fallbackPolicy,
    plan,           \* the FallbackPlan, or Nothing
    carrier,        \* the candidate the host connects over, or Nothing
    stage,          \* "up", "choosing", "trying", "judging" or "planning"
    continuity,     \* the SessionContinuity of the connection being set up, or Nothing
    hour,           \* wall clock
    outages, recordings,
    (* History: *)
    tried,          \* candidates the plan gave out
    recorded,       \* request -> times it was recorded
    told,           \* request -> times it was acknowledged or named in a ReplayPlan
    retried         \* <<request, offer, hour it was judged at>> of automatic retries

resumptionVars == <<unanswered, fallbackPolicy, plan, carrier, stage, continuity, hour, outages,
                    recordings, tried, recorded, told, retried>>

ResumptionInit ==
    /\ unanswered = <<>> /\ fallbackPolicy \in FallbackPolicies
    /\ plan = Nothing /\ carrier = Nothing /\ stage = "up" /\ continuity = Nothing
    /\ hour = 0 /\ outages = 0 /\ recordings = 0
    /\ tried = {} /\ recorded = [r \in Requests |-> 0]
    /\ told = [r \in Requests |-> 0] /\ retried = {}

hostVars == <<fallbackPolicy, plan, carrier, stage, continuity, outages, tried>>

-----------------------------------------------------------------------------
(* Requests, at any stage of the connection *)

\* record_unacknowledged
RecordUnacknowledged(request) ==
    /\ recordings < MaxRecorded /\ recordings' = recordings + 1
    /\ ~Contains(unanswered, request)
    /\ Len(unanswered) < MaxPendingRequests
    /\ unanswered' = Append(unanswered, request)
    /\ recorded' = [recorded EXCEPT ![request] = @ + 1]
    /\ UNCHANGED <<hostVars, hour, told, retried>>

\* acknowledge: the first request of that id is removed; a late answer to one that is not
\* pending changes nothing.
Acknowledge(request) ==
    /\ \/ \E index \in DOMAIN unanswered :
            /\ unanswered[index] = request
            /\ \A i \in 1 .. (index - 1) : unanswered[i] # request
            /\ unanswered' = RemoveAt(unanswered, index)
            /\ told' = [told EXCEPT ![request] = @ + 1]
       \/ ~Contains(unanswered, request) /\ UNCHANGED <<unanswered, told>>
    /\ UNCHANGED <<hostVars, hour, recordings, recorded, retried>>

-----------------------------------------------------------------------------
(* FallbackPlan *)

\* new: candidates below the minimum are dropped, the rest sorted by priority, which keeps
\* the order of equals; here any order of equals may have been given.
IsPlanFor(order, policy) ==
    LET eligible == {t \in Transports : t.security >= policy.minimum_security}
    IN  /\ ToSet(order) = eligible /\ Len(order) = Cardinality(eligible)
        /\ \A i, j \in DOMAIN order : i < j => order[i].priority <= order[j].priority

LoseConnection ==
    /\ stage = "up" /\ outages < MaxOutages /\ outages' = outages + 1
    /\ \E order \in SetToSeqs({t \in Transports : t.security >= fallbackPolicy.minimum_security}) :
         /\ IsPlanFor(order, fallbackPolicy)
         /\ IF order = <<>>                       \* NoCandidates
            THEN UNCHANGED <<plan, stage>>
            ELSE plan' = [pending |-> order, strongest |-> Nothing] /\ stage' = "choosing"
    /\ tried' = {} /\ carrier' = Nothing
    /\ UNCHANGED <<unanswered, fallbackPolicy, continuity, hour, recordings, recorded, told, retried>>

\* Fault: a weaker candidate is given out like any other.
DowngradesNever(candidate) == FALSE

Downgrades(candidate) ==
    /\ plan.strongest # Nothing
    /\ candidate.security < plan.strongest
    /\ ~fallbackPolicy.allow_security_downgrade

\* next_candidate.  A refused candidate is taken off the list all the same, and the host may
\* ask for the next one.
NextCandidate ==
    LET candidate == Head(plan.pending)
        rest == [plan EXCEPT !.pending = Tail(@)]
    IN  /\ stage = "choosing" /\ plan.pending # <<>>
        /\ IF Downgrades(candidate)
           THEN plan' = rest /\ UNCHANGED <<carrier, stage, tried>>
           ELSE /\ plan' = [rest EXCEPT !.strongest =
                              IF @ = Nothing \/ @ < candidate.security THEN candidate.security ELSE @]
                /\ carrier' = candidate /\ stage' = "trying"
                /\ tried' = tried \cup {candidate}
        /\ UNCHANGED <<unanswered, fallbackPolicy, continuity, hour, outages, recordings, recorded,
                       told, retried>>

\* record_failure: the host goes on with the plan.
RecordAttemptFailure ==
    /\ stage = "trying" /\ stage' = "choosing" /\ carrier' = Nothing
    /\ UNCHANGED <<unanswered, fallbackPolicy, plan, continuity, hour, outages, recordings, tried,
                   recorded, told, retried>>

\* select consumes the plan.
SelectTransport ==
    /\ stage = "trying" /\ stage' = "judging" /\ plan' = Nothing
    /\ UNCHANGED <<unanswered, fallbackPolicy, carrier, continuity, hour, outages, recordings, tried,
                   recorded, told, retried>>

\* exhausted: the host starts over with a new plan.
Exhausted ==
    /\ stage = "choosing" /\ plan.pending = <<>>
    /\ stage' = "up" /\ plan' = Nothing
    /\ UNCHANGED <<unanswered, fallbackPolicy, carrier, continuity, hour, outages, recordings, tried,
                   recorded, told, retried>>

-----------------------------------------------------------------------------
(* ResumeCoordinator *)

\* validate_offer: the first check that fails names the reason of the new session.
Continuity(offer) ==
    CASE offer.peer # "expected" -> "PeerMismatch"
      [] offer.peer = "expected" /\ hour >= offer.expires -> "TokenExpired"
      [] offer.peer = "expected" /\ hour < offer.expires /\ ~offer.within -> "LimitsExceeded"
      [] offer.peer = "expected" /\ hour < offer.expires /\ offer.within /\ ~offer.genuine ->
           "TokenRejected"
      [] OTHER -> "Resumed"

ValidateOffer(offer) ==
    /\ stage = "judging" /\ stage' = "planning"
    /\ continuity' = [result |-> Continuity(offer), offer |-> offer, at |-> hour]
    /\ UNCHANGED <<unanswered, fallbackPolicy, plan, carrier, hour, outages, recordings, tried,
                   recorded, told, retried>>

\* SessionContinuity::default: no resumption was asked for.
StartNewSession ==
    /\ stage = "judging" /\ stage' = "planning"
    /\ continuity' = [result |-> "NoResumeRequested", offer |-> Nothing, at |-> hour]
    /\ UNCHANGED <<unanswered, fallbackPolicy, plan, carrier, hour, outages, recordings, tried,
                   recorded, told, retried>>

\* Fault: an idempotent request is repeated in a new session too.
RetriesAlways(request) == ReplayOf[request] = "Idempotent"

Retries(request) ==
    continuity.result = "Resumed" /\ ReplayOf[request] = "Idempotent"

\* plan_after_reconnect drains pending: every request is named once, to be retried, decided
\* by the application or failed.
PlanAfterReconnect ==
    /\ stage = "planning" /\ stage' = "up"
    /\ retried' = retried \cup {<<r, continuity.offer, continuity.at>> :
                                  r \in {r \in ToSet(unanswered) : Retries(r)}}
    /\ told' = [r \in Requests |-> told[r] + IF Contains(unanswered, r) THEN 1 ELSE 0]
    /\ unanswered' = <<>> /\ continuity' = Nothing
    /\ UNCHANGED <<fallbackPolicy, plan, carrier, hour, outages, recordings, tried, recorded>>

HourPasses ==
    /\ hour < LastHour /\ hour' = hour + 1
    /\ UNCHANGED <<unanswered, hostVars, recordings, recorded, told, retried>>

ResumptionNext ==
    \/ \E r \in Requests : RecordUnacknowledged(r) \/ Acknowledge(r)
    \/ LoseConnection \/ NextCandidate \/ RecordAttemptFailure \/ SelectTransport \/ Exhausted
    \/ \E offer \in ResumeOffers : ValidateOffer(offer)
    \/ StartNewSession \/ PlanAfterReconnect \/ HourPasses

ResumptionSpec == ResumptionInit /\ [][ResumptionNext]_resumptionVars

-----------------------------------------------------------------------------
(* Properties *)

\* Over any number of outages a request is pending or was answered for as often as it was
\* recorded, never lost and never named twice; one that is sent again without its owner being
\* asked is idempotent and in a session its own peer resumed with a live, genuine token
\* (record_unacknowledged, validate_offer, plan_after_reconnect).
ReplayIsSafe ==
    /\ \A r \in Requests :
         recorded[r] = told[r] + IF Contains(unanswered, r) THEN 1 ELSE 0
    /\ \A x \in retried :
         /\ ReplayOf[x[1]] = "Idempotent"
         /\ x[2] # Nothing /\ x[2].genuine /\ x[2].within /\ x[2].peer = "expected"
         /\ x[3] < x[2].expires

\* The transport a host ends up on is never below the policy's minimum and, unless the policy
\* allows it, never weaker than one the same plan tried before (next_candidate), also when
\* the host goes on after a refusal.
NoSilentDowngrade ==
    carrier # Nothing =>
        /\ carrier.security >= fallbackPolicy.minimum_security
        /\ \/ fallbackPolicy.allow_security_downgrade
           \/ \A t \in tried : t.security <= carrier.security

\* A link comes back safely: over a transport no weaker than those tried before it, and with
\* every request accounted for (FallbackPlan and ResumeCoordinator).
ComesBackSafely == ReplayIsSafe /\ NoSilentDowngrade
=============================================================================
