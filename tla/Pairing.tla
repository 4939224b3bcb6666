------------------------------- MODULE Pairing -------------------------------
(***************************************************************************)
(* The pairing ceremony (mutsuki-link-pairing): an initiator at device A   *)
(* and a responder at device B, their users, and a third device M that     *)
(* answers A's offer or sends B an offer of its own.                       *)
(*                                                                         *)
(* The wire keeps every message sent, so messages are lost, duplicated and *)
(* reordered at will.  A transcript is what transcript_hash binds: the two *)
(* identities and the challenge; hash, short code and signature are taken  *)
(* to be free of collisions, so a transcript stands for its code and a     *)
(* signature for the pair of signer and transcript.  The challenge also    *)
(* stands for the pairing id the initiator chose with it.                  *)
(***************************************************************************)
EXTENDS Naturals

CONSTANTS
    MaxCeremonies,  \* model bound: ceremonies A starts, one after the other
    MaxOffers,      \* model bound: responder sessions B opens
    Lifetime,       \* time from an offer to its expires_at_unix_ms
    MaxTime,        \* model bound: last instant of the clock
    None

ASSUME PairingAssumption ==
    {MaxCeremonies, MaxOffers, Lifetime, MaxTime} \subseteq Nat \ {0}

VARIABLES
    ini,        \* the initiator's PairingSession at A, or None
    res,        \* the responder's PairingSession at B, or None
    wire,       \* every message sent so far
    now,        \* wall clock, shared and monotonic
    started,    \* ceremonies A started: the next challenge
    opened,     \* responder sessions B opened
    confirmed   \* history: <<device, transcript>> its user confirmed

ceremonyVars == <<ini, res, wire, now, started, opened, confirmed>>

Transcript(initiator, responder, challenge) == <<initiator, responder, challenge>>

Terminal == {"Paired", "Rejected", "TimedOut", "Cancelled", "Failed"}

CeremonyInit ==
    /\ ini = None /\ res = None
    /\ wire = {} /\ now = 0
    /\ started = 0 /\ opened = 0
    /\ confirmed = {}

Session(local, remote, challenge, expires, state, transcript) ==
    [ local |-> local, remote |-> remote, challenge |-> challenge, expires |-> expires,
      state |-> state, transcript |-> transcript, local_confirmed |-> FALSE,
      remote_confirmed |-> FALSE ]

\* PairingSession::initiator and offer.
StartCeremony ==
    /\ started < MaxCeremonies
    /\ started' = started + 1
    /\ ini' = Session("a", None, started', now + Lifetime, "AwaitingResponse", None)
    /\ wire' = wire \cup {[ kind |-> "offer", from |-> "a", challenge |-> started',
                            expires |-> now + Lifetime ]}
    /\ UNCHANGED <<res, now, opened, confirmed>>

Response(offer, responder) ==
    [ kind |-> "response", challenge |-> offer.challenge, responder |-> responder,
      transcript |-> Transcript(offer.from, responder, offer.challenge) ]

\* External: what device M can make of the messages it has seen: an offer to B or a response
\* to A under its own identity, and its own signature under any transcript.
Meddled ==
    LET offers == {m \in wire : m.kind = "offer"}
    IN  {[m EXCEPT !.from = "m"] : m \in offers}
        \cup {Response(m, "m") : m \in offers}
        \cup {[ kind |-> "confirmation", challenge |-> s.challenge, signer |-> "m",
                transcript |-> s.transcript ] : s \in {ini, res} \ {None}}

Arriving == wire \cup Meddled

\* PairingSession::responder.  Its host keeps one session and drops the one before.
RespondToOffer(offer) ==
    /\ opened < MaxOffers /\ opened' = opened + 1
    /\ offer.kind = "offer"
    /\ now < offer.expires
    /\ res' = Session("b", offer.from, offer.challenge, offer.expires,
                      "AwaitingUserConfirmation", Transcript(offer.from, "b", offer.challenge))
    /\ wire' = wire \cup {Response(offer, "b")}
    /\ UNCHANGED <<ini, now, started, confirmed>>

-----------------------------------------------------------------------------
(* The state machine of a session.  Each operator is the session after the call. *)

\* check_time
OnTime(s) == now < s.expires

TimedOut(s) == IF s.state \in Terminal THEN s ELSE [s EXCEPT !.state = "TimedOut"]

Fail(s) == [s EXCEPT !.state = "Failed"]

\* receive_response: unexpected in any other state, it fails the session, a paired one too.
ReceiveResponse(s, m) ==
    IF ~OnTime(s) THEN TimedOut(s)
    ELSE IF s.local # "a" \/ s.state # "AwaitingResponse" \/ m.challenge # s.challenge THEN Fail(s)
    ELSE IF m.transcript # Transcript("a", m.responder, s.challenge) THEN Fail(s)
    ELSE [s EXCEPT !.remote = m.responder, !.transcript = m.transcript,
                   !.state = "AwaitingUserConfirmation"]

\* confirm: the user submits the code the other device displays.
Confirms(s, code) ==
    OnTime(s) /\ s.state = "AwaitingUserConfirmation" /\ code = s.transcript

\* Fault: the code the user submits is not compared with the one displayed.
ConfirmUnseen(s, code) ==
    IF ~OnTime(s) THEN TimedOut(s)
    ELSE IF s.state # "AwaitingUserConfirmation" THEN s
    ELSE [s EXCEPT !.local_confirmed = TRUE,
                   !.state = IF s.remote_confirmed THEN "Paired" ELSE "AwaitingPeerConfirmation"]

Confirm(s, code) ==
    IF ~OnTime(s) THEN TimedOut(s)
    ELSE IF s.state # "AwaitingUserConfirmation" THEN s
    ELSE IF code # s.transcript THEN Fail(s)
    ELSE [s EXCEPT !.local_confirmed = TRUE,
                   !.state = IF s.remote_confirmed THEN "Paired" ELSE "AwaitingPeerConfirmation"]

\* Fault: a confirmation is looked at whatever state the session is in.
ReceiveConfirmationAnyState(s, m) ==
    IF ~OnTime(s) THEN TimedOut(s)
    ELSE IF m.challenge # s.challenge \/ m.signer # s.remote \/ m.transcript # s.transcript THEN s
    ELSE [s EXCEPT !.remote_confirmed = TRUE,
                   !.state = IF s.local_confirmed THEN "Paired" ELSE s.state]

ReceiveConfirmation(s, m) ==
    IF ~OnTime(s) THEN TimedOut(s)
    ELSE IF s.state \notin {"AwaitingUserConfirmation", "AwaitingPeerConfirmation"} THEN s
    ELSE IF m.challenge # s.challenge \/ m.signer # s.remote \/ m.transcript # s.transcript
    THEN Fail(s)
    ELSE [s EXCEPT !.remote_confirmed = TRUE,
                   !.state = IF s.local_confirmed THEN "Paired" ELSE s.state]

ReceiveTermination(s, m) ==
    IF s.state \in Terminal THEN s
    ELSE IF m.challenge # s.challenge THEN Fail(s)
    ELSE [s EXCEPT !.state = m.reason]

-----------------------------------------------------------------------------
(* The two devices *)

Sessions == {"a", "b"}

At(device) == IF device = "a" THEN ini ELSE res

Becomes(device, s) ==
    IF device = "a" THEN ini' = s /\ UNCHANGED res ELSE res' = s /\ UNCHANGED ini

Receives(device, kind, Handle(_, _)) ==
    /\ At(device) # None
    /\ \E m \in Arriving : m.kind = kind /\ Becomes(device, Handle(At(device), m))
    /\ UNCHANGED <<wire, now, started, opened, confirmed>>

\* The user types what the other device shows, once both show something.
UserConfirms(device) ==
    LET s == At(device)
        other == At(IF device = "a" THEN "b" ELSE "a")
    IN  /\ s # None /\ other # None /\ other.transcript # None
        /\ Becomes(device, Confirm(s, other.transcript))
        /\ IF Confirms(s, other.transcript)
           THEN /\ wire' = wire \cup {[ kind |-> "confirmation", challenge |-> s.challenge,
                                        signer |-> s.local, transcript |-> s.transcript ]}
                /\ confirmed' = confirmed \cup {<<device, s.transcript>>}
           ELSE UNCHANGED <<wire, confirmed>>
        /\ UNCHANGED <<now, started, opened>>

\* reject and cancel.
UserEnds(device, reason) ==
    LET s == At(device)
    IN  /\ s # None /\ s.state \notin Terminal
        /\ Becomes(device, [s EXCEPT !.state = reason])
        /\ wire' = wire \cup {[kind |-> "termination", challenge |-> s.challenge, reason |-> reason]}
        /\ UNCHANGED <<now, started, opened, confirmed>>

SessionTick(device) ==
    LET s == At(device)
    IN  /\ s # None /\ ~OnTime(s) /\ s.state \notin Terminal
        /\ Becomes(device, TimedOut(s))
        /\ UNCHANGED <<wire, now, started, opened, confirmed>>

CeremonyTime ==
    /\ now < MaxTime
    /\ now' = now + 1
    /\ UNCHANGED <<ini, res, wire, started, opened, confirmed>>

CeremonyNext ==
    \/ StartCeremony
    \/ \E m \in Arriving : RespondToOffer(m)
    \/ \E device \in Sessions :
         \/ Receives(device, "response", ReceiveResponse)
         \/ Receives(device, "confirmation", ReceiveConfirmation)
         \/ Receives(device, "termination", ReceiveTermination)
         \/ UserConfirms(device)
         \/ UserEnds(device, "Rejected") \/ UserEnds(device, "Cancelled")
         \/ SessionTick(device)
    \/ CeremonyTime

CeremonySpec == CeremonyInit /\ [][CeremonyNext]_ceremonyVars

-----------------------------------------------------------------------------
(* Properties *)

\* PairingSession pairs two people, not two keys: a paired session names the other device,
\* and that device's user confirmed the same transcript, whatever a third device sends and
\* whichever messages are repeated, lost or late.
PairedMeansConfirmed ==
    \A device \in Sessions :
        At(device) # None /\ At(device).state = "Paired" =>
            /\ At(device).remote = IF device = "a" THEN "b" ELSE "a"
            /\ <<At(device).remote, At(device).transcript>> \in confirmed
            /\ <<device, At(device).transcript>> \in confirmed

\* A ceremony that was rejected, cancelled, timed out or failed is never completed by a
\* confirmation that arrives afterwards (receive_confirmation, confirm, set_state).
NoResurrection ==
    [][\A device \in Sessions :
         At(device) # None /\ At(device)' # None /\ At(device).state \in Terminal \ {"Paired"}
             /\ At(device)'.challenge = At(device).challenge
             => At(device)'.state # "Paired"]_ceremonyVars
=============================================================================
