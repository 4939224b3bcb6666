------------------------------ MODULE Discovery ------------------------------
(***************************************************************************)
(* The two discovery providers.  ManualDiscovery holds candidates the      *)
(* application adds, with a time to live; MdnsDiscovery turns the events   *)
(* of the mDNS daemon (external) into candidates.  Each has a consumer     *)
(* that polls it and keeps a view of the candidates it was told of.        *)
(***************************************************************************)
EXTENDS AttemptWindow

CONSTANTS
    Ids,            \* discovery ids (a service's full name stands for the id derived from it)
    Sources,        \* sources add_address names
    SourceAttempts, \* RateLimit::attempts
    SourceWindow,   \* RateLimit::window
    MaxSources,     \* RateLimit::max_sources
    MaxCandidates,  \* RateLimit::max_candidates
    ResultsPerPoll, \* DiscoveryRequest::max_results_per_poll
    Ttls,           \* times to live the application uses
    MaxAdds,        \* model bound: add_address calls and daemon events
    MaxStarts,      \* model bound: mDNS browses
    LastMoment      \* model bound: last instant

\* AttemptRateLimiter::new, validate_request and the zero checks refuse anything else.
ASSUME DiscoveryAssumption ==
    /\ {SourceAttempts, SourceWindow, MaxSources, MaxCandidates, ResultsPerPoll} \subseteq Nat \ {0}
    /\ Ttls \subseteq Nat \ {0}
    /\ Ids \subseteq Nat

VARIABLES
    running,    \* ManualDiscovery::request is set
    pending,    \* ManualDiscovery::pending: Found events not polled yet
    active,     \* ManualDiscovery::active: id -> expires_at
    limiter,    \* the AttemptRateLimiter of ManualDiscovery
    moment,     \* the clock
    adds,       \* model bound: calls and daemon events so far
    view,       \* the candidates the consumer of ManualDiscovery was told of and not of their end
    browsing,   \* MdnsDiscovery::request is set
    starts,     \* model bound: calls of start so far
    browses,    \* the AttemptRateLimiter of MdnsDiscovery
    channel,    \* events of the current browse not received yet
    resolved,   \* MdnsDiscovery::resolved
    mdnsView    \* what the consumer of MdnsDiscovery holds

manualVars == <<running, pending, active, limiter, view>>
mdnsVars == <<browsing, starts, browses, channel, resolved, mdnsView>>
discoveryVars == <<manualVars, mdnsVars, moment, adds>>

DiscoveryInit ==
    /\ running = FALSE /\ pending = <<>> /\ active = <<>> /\ limiter = <<>> /\ view = {}
    /\ browsing = FALSE /\ starts = 0 /\ browses = <<>> /\ channel = <<>>
    /\ resolved = {} /\ mdnsView = {}
    /\ moment = 0 /\ adds = 0

Update(map, id, value) == [i \in DOMAIN map \cup {id} |-> IF i = id THEN value ELSE map[i]]

Drop(map, ids) == [i \in DOMAIN map \ ids |-> map[i]]

\* AttemptRateLimiter::allow
Allow(attempts, source) ==
    AttemptOutcome(attempts, source, SourceAttempts, MaxSources, SourceWindow, moment)

-----------------------------------------------------------------------------
(* ManualDiscovery *)

StartManual ==
    /\ ~running /\ running' = TRUE
    /\ UNCHANGED <<pending, active, limiter, view, mdnsVars, moment, adds>>

\* Fault: a Found event of the same candidate stays pending.
ForgetPendingNone(events, ids) == events

\* retain: drop the Found events of these candidates.
ForgetPending(events, ids) ==
    LET kept[i \in 0 .. Len(events)] ==
            IF i = 0 THEN <<>>
            ELSE IF events[i].id \notin ids THEN Append(kept[i - 1], events[i])
            ELSE kept[i - 1]
    IN  kept[Len(events)]

\* add_address.  A candidate over capacity is refused before the limiter is asked.
AddAddress(source, id, ttl) ==
    LET attempt == Allow(limiter, source)
    IN  /\ running /\ adds < MaxAdds /\ adds' = adds + 1
        /\ id \in DOMAIN active \/ Cardinality(DOMAIN active) < MaxCandidates
        /\ limiter' = attempt.table
        /\ IF attempt.admitted
           THEN /\ active' = Update(active, id, moment + ttl)
                /\ pending' = Append(ForgetPending(pending, {id}),
                                     [id |-> id, expires |-> moment + ttl])
           ELSE UNCHANGED <<active, pending>>
        /\ UNCHANGED <<running, view, mdnsVars, moment>>

\* The expired candidates one poll takes: in the order of the ids, at most one poll's results.
ExpiredNow == {id \in DOMAIN active : active[id] <= moment}

Smallest(ids, n) ==
    {id \in ids : Cardinality({i \in ids : i < id}) < n}

\* ManualDiscovery::poll: expiries first, then pending events while there is room.  A pending
\* event that expired meanwhile is reported as an expiry and retires its candidate.
PollManual ==
    LET expired == Smallest(ExpiredNow, ResultsPerPoll)
        waiting == ForgetPending(pending, expired)
        room    == ResultsPerPoll - Cardinality(expired)
        taken   == IF Len(waiting) < room THEN Len(waiting) ELSE room
        late    == {i \in 1..taken : waiting[i].expires <= moment}
        lateIds == {waiting[i].id : i \in late}
        toldIds == {waiting[i].id : i \in (1..taken) \ late}
    IN  /\ running
        /\ ExpiredNow # {} \/ pending # <<>>
        /\ active' = Drop(active, expired \cup lateIds)
        /\ pending' = SubSeq(waiting, taken + 1, Len(waiting))
        /\ view' = ((view \ expired) \ lateIds) \cup toldIds
        /\ UNCHANGED <<running, limiter, mdnsVars, moment, adds>>

\* stop: the consumer forgets what it was told.
StopManual ==
    /\ running /\ running' = FALSE
    /\ pending' = <<>> /\ active' = <<>> /\ view' = {}
    /\ UNCHANGED <<limiter, mdnsVars, moment, adds>>

-----------------------------------------------------------------------------
(* MdnsDiscovery *)

\* start: rate limited by service type (one here); browse opens a new channel.
StartBrowse ==
    LET attempt == Allow(browses, "service")
    IN  /\ ~browsing /\ starts < MaxStarts /\ starts' = starts + 1
        /\ browses' = attempt.table
        /\ IF attempt.admitted
           THEN browsing' = TRUE /\ channel' = <<>>
           ELSE UNCHANGED <<browsing, channel>>
        /\ UNCHANGED <<resolved, mdnsView, manualVars, moment, adds>>

\* External: the daemon reports a service as resolved or removed.
DaemonEvent(kind, id) ==
    /\ browsing /\ adds < MaxAdds /\ adds' = adds + 1
    /\ channel' = Append(channel, [kind |-> kind, id |-> id])
    /\ UNCHANGED <<browsing, starts, browses, resolved, mdnsView, manualVars, moment>>

\* One turn of poll's loop: an unknown service's removal is not reported.
PollBrowse ==
    LET e == Head(channel)
    IN  /\ browsing /\ channel # <<>>
        /\ channel' = Tail(channel)
        /\ IF e.kind = "resolved"
           THEN resolved' = resolved \cup {e.id} /\ mdnsView' = mdnsView \cup {e.id}
           ELSE /\ resolved' = resolved \ {e.id}
                /\ mdnsView' = IF e.id \in resolved THEN mdnsView \ {e.id} ELSE mdnsView
        /\ UNCHANGED <<browsing, starts, browses, manualVars, moment, adds>>

\* stop, and drop: when stop_browse fails the request is gone and the rest stays.
StopBrowse(ok) ==
    /\ browsing /\ browsing' = FALSE
    /\ IF ok THEN channel' = <<>> /\ resolved' = {} /\ mdnsView' = {}
       ELSE UNCHANGED <<channel, resolved, mdnsView>>
    /\ UNCHANGED <<starts, browses, manualVars, moment, adds>>

MomentPasses ==
    /\ moment < LastMoment /\ moment' = moment + 1
    /\ UNCHANGED <<manualVars, mdnsVars, adds>>

DiscoveryNext ==
    \/ StartManual \/ PollManual \/ StopManual
    \/ \E source \in Sources, id \in Ids, ttl \in Ttls : AddAddress(source, id, ttl)
    \/ StartBrowse \/ PollBrowse \/ \E ok \in BOOLEAN : StopBrowse(ok)
    \/ \E kind \in {"resolved", "removed"}, id \in Ids : DaemonEvent(kind, id)
    \/ MomentPasses

DiscoverySpec == DiscoveryInit /\ [][DiscoveryNext]_discoveryVars

-----------------------------------------------------------------------------
(* Properties *)

\* The consumer is never left with a candidate nobody will retire: what it was told of is in
\* active, within max_candidates, so a poll will report its end; what waits to be told has the
\* expiry active has; and the mDNS consumer holds what can still be reported as removed
\* (add_address, poll, stop).
CandidatesAreTracked ==
    /\ view \subseteq DOMAIN active
    /\ Cardinality(DOMAIN active) <= MaxCandidates
    /\ \A i \in DOMAIN pending :
         pending[i].id \in DOMAIN active /\ pending[i].expires = active[pending[i].id]
    /\ mdnsView = resolved
=============================================================================
