----------------------------- MODULE Handshake -----------------------------
(***************************************************************************)
(* Two HandshakeMachines (handshake.rs), an initiator and a responder, and *)
(* their owners: the frames between them, the external identity decision,  *)
(* calls made out of turn and frames delivered twice.                      *)
(*                                                                         *)
(* Nonces and proofs are opaque to the machine; of a proof only the length *)
(* matters.  A selected protocol list is a set: its order is never read.   *)
(***************************************************************************)
EXTENDS Negotiation, FiniteSets

CONSTANTS
    Meetings,       \* [peers : role -> HandshakeConfig, disturbance : Disturbances]
    MaxDuplicates,  \* model bound: frames delivered a second time
    ForeignFrames,  \* [to, frame]: frames of a peer that does not run this machine
    MaxForeign      \* model bound: foreign frames delivered

Roles == {"Initiator", "Responder"}

Other(role) == CHOOSE r \in Roles : r # role

AuthPaths == {"FirstPairing", "TrustedReconnect"}

\* What else happens: owners that repeat frames and call out of turn, or frames
\* of another implementation on their way to this role.
Disturbances == {"owners"} \cup Roles

ASSUME HandshakeAssumption ==
    /\ MaxDuplicates \in Nat
    /\ MaxForeign \in Nat
    /\ \A meeting \in Meetings : meeting.disturbance \in Disturbances

Catalog(policy, path) ==
    IF path = "FirstPairing" THEN policy.pairing_protocols ELSE policy.protocols

IsList(offers) == offers \in Seq({offers[i] : i \in DOMAIN offers})

\* A decoded Hello carries numeric versions and one of the two paths.
WellTyped(frame) ==
    frame.type = "Hello" =>
        /\ HasMinors(frame.link_versions)
        /\ \A i \in DOMAIN frame.protocols : HasMinors(frame.protocols[i].versions)
        /\ frame.requested_auth \in AuthPaths

\* Two configurations, with numeric versions and limits and lists of offers.
ASSUME TypesAssumption ==
    /\ \A meeting \in Meetings :
         /\ DOMAIN meeting.peers = Roles
         /\ \A role \in Roles :
              /\ HasMinors(meeting.peers[role].policy.link_versions)
              /\ meeting.peers[role].policy.max_protocol_offers \in Nat
              /\ \A path \in AuthPaths :
                   LET offers == Catalog(meeting.peers[role].policy, path)
                   IN  /\ IsList(offers)
                       /\ \A i \in DOMAIN offers : HasMinors(offers[i].versions)
    /\ \A f \in ForeignFrames : f.to \in Roles /\ WellTyped(f.frame)

VARIABLES
    config,       \* role -> HandshakeConfig
    disturbance,  \* which of the Disturbances this handshake meets
    machine,      \* role -> HandshakeMachine; link_version is a set of at most one
    inbox,        \* role -> frames on their way to it
    delivered,    \* role -> set of frames it has been given
    injected,     \* [duplicates, foreign, misuses]: such deliveries and calls so far
    error,        \* role -> kind of the last HandshakeError, or "None"
    (* History: *)
    requested,    \* VerificationRequests handed to the responder's owner
    verified,     \* the responder's owner accepted the identity
    sessions      \* role -> NegotiatedSessions announced with Established

setting == <<config, disturbance>>

vars == <<setting, machine, inbox, delivered, injected, error, requested, verified, sessions>>

-----------------------------------------------------------------------------

\* The offer start() is willing to advertise.
Consistent(offer) ==
    /\ offer.schema_revision # 0
    /\ offer.capabilities.protocol_id = offer.stable_id
    /\ offer.bounded
    /\ offer.debug_matches

-----------------------------------------------------------------------------
(* The machine *)

None == "None"

Machine(state) ==
    [ state |-> state, remote |-> None, auth_path |-> None, link_version |-> {},
      link_capabilities |-> {}, selected_protocols |-> {}, pending |-> FALSE,
      session_id |-> None ]

Init ==
    /\ \E meeting \in Meetings :
          /\ config = meeting.peers
          /\ disturbance = meeting.disturbance
    /\ machine = [role \in Roles |->
          IF role = "Initiator"
          THEN [Machine("Ready") EXCEPT !.session_id = config["Initiator"].session_id]
          ELSE [Machine("AwaitingHello") EXCEPT !.session_id = config["Responder"].session_id]]
    /\ inbox = [role \in Roles |-> <<>>]
    /\ delivered = [role \in Roles |-> {}]
    /\ injected = [duplicates |-> 0, foreign |-> 0, misuses |-> FALSE]
    /\ error = [role \in Roles |-> None]
    /\ requested = 0
    /\ verified = FALSE
    /\ sessions = [role \in Roles |-> {}]

Policy(role) == config[role].policy

\* fail(): from any state, Established included.
Fail(role, kind) ==
    /\ machine' = [machine EXCEPT ![role].state = "Failed"]
    /\ error' = [error EXCEPT ![role] = kind]

Send(role, frame) == inbox' = [inbox EXCEPT ![Other(role)] = Append(@, frame)]

\* The owner hands the oldest frame to receive().
Take(role, type) ==
    /\ inbox[role] # <<>>
    /\ Head(inbox[role]).type = type
    /\ delivered' = [delivered EXCEPT ![role] = @ \cup {Head(inbox[role])}]

TakeAndSend(role, type, frame) ==
    /\ Take(role, type)
    /\ inbox' = [inbox EXCEPT ![role] = Tail(@), ![Other(role)] = Append(@, frame)]

TakeOnly(role, type) ==
    /\ Take(role, type)
    /\ inbox' = [inbox EXCEPT ![role] = Tail(@)]

NegotiatedSession(role, m) ==
    [ session_id        |-> m.session_id,
      local             |-> config[role].identity,
      remote            |-> m.remote,
      link_version      |-> m.link_version,
      link_capabilities |-> m.link_capabilities,
      protocols         |-> m.selected_protocols,
      auth_path         |-> m.auth_path ]

Announce(role, m) ==
    sessions' = [sessions EXCEPT ![role] = @ \cup {NegotiatedSession(role, m)}]

-----------------------------------------------------------------------------
Start(path) ==
    LET offers == Catalog(Policy("Initiator"), path)
    IN  /\ machine["Initiator"].state = "Ready"
        /\ \/ /\ Len(offers) > Policy("Initiator").max_protocol_offers
              /\ Fail("Initiator", "LimitExceeded")
              /\ UNCHANGED inbox
           \/ /\ Len(offers) <= Policy("Initiator").max_protocol_offers
              /\ \E i \in DOMAIN offers : ~ Consistent(offers[i])
              /\ Fail("Initiator", "ProtocolConflict")
              /\ UNCHANGED inbox
           \/ /\ Len(offers) <= Policy("Initiator").max_protocol_offers
              /\ \A i \in DOMAIN offers : Consistent(offers[i])
              /\ machine' = [machine EXCEPT !["Initiator"].state = "AwaitingChallenge",
                                            !["Initiator"].auth_path = path]
              /\ Send("Initiator",
                      [type |-> "Hello", identity |-> config["Initiator"].identity,
                       link_versions |-> Policy("Initiator").link_versions,
                       link_capabilities |-> Policy("Initiator").link_capabilities,
                       protocols |-> offers, requested_auth |-> path])
              /\ UNCHANGED error
        /\ UNCHANGED <<setting, delivered, injected, requested, verified, sessions>>

\* Fault: the trust list is consulted only when pairing is disabled.
HelloErrorTrusting(policy, hello) ==
    IF Len(hello.protocols) > policy.max_protocol_offers THEN "LimitExceeded"
    ELSE IF SharedVersion(policy.link_versions, hello.link_versions) = {}
         THEN "IncompatibleVersion"
    ELSE IF hello.requested_auth = "FirstPairing" /\ ~ policy.allow_pairing
         THEN "PairingDisabled"
    ELSE IF /\ hello.requested_auth = "TrustedReconnect"
            /\ ~ policy.allow_pairing
            /\ hello.identity \notin policy.trusted_peers
         THEN "PeerNotTrusted"
    ELSE IF ProtocolsConflict(Catalog(policy, hello.requested_auth), hello.protocols)
         THEN "ProtocolConflict"
    ELSE IF NegotiateProtocols(Catalog(policy, hello.requested_auth), hello.protocols) = {}
         THEN "NoSharedProtocol"
    ELSE None

\* The checks of receive_hello, in their order.
HelloError(policy, hello) ==
    IF Len(hello.protocols) > policy.max_protocol_offers THEN "LimitExceeded"
    ELSE IF SharedVersion(policy.link_versions, hello.link_versions) = {}
         THEN "IncompatibleVersion"
    ELSE IF hello.requested_auth = "FirstPairing" /\ ~ policy.allow_pairing
         THEN "PairingDisabled"
    ELSE IF /\ hello.requested_auth = "TrustedReconnect"
            /\ hello.identity \notin policy.trusted_peers
         THEN "PeerNotTrusted"
    ELSE IF ProtocolsConflict(Catalog(policy, hello.requested_auth), hello.protocols)
         THEN "ProtocolConflict"
    ELSE IF NegotiateProtocols(Catalog(policy, hello.requested_auth), hello.protocols) = {}
         THEN "NoSharedProtocol"
    ELSE None

AfterHello(m, policy, hello) ==
    [m EXCEPT
        !.state = "AwaitingProof",
        !.remote = hello.identity,
        !.auth_path = hello.requested_auth,
        !.link_version = SharedVersion(policy.link_versions, hello.link_versions),
        !.link_capabilities = policy.link_capabilities \cap hello.link_capabilities,
        !.selected_protocols =
            NegotiateProtocols(Catalog(policy, hello.requested_auth), hello.protocols)]

ReceiveHello ==
    LET m      == machine["Responder"]
        hello  == Head(inbox["Responder"])
        policy == Policy("Responder")
    IN  /\ m.state = "AwaitingHello"
        /\ \/ /\ TakeOnly("Responder", "Hello")
              /\ HelloError(policy, hello) # None
              /\ Fail("Responder", HelloError(policy, hello))
           \/ LET next == AfterHello(m, policy, hello)
              IN  /\ Take("Responder", "Hello")
                  /\ HelloError(policy, hello) = None
                  /\ TakeAndSend("Responder", "Hello",
                        [type |-> "Challenge", responder |-> config["Responder"].identity,
                         link_version |-> CHOOSE v \in next.link_version : TRUE,
                         link_capabilities |-> next.link_capabilities,
                         auth_path |-> next.auth_path])
                  /\ machine' = [machine EXCEPT !["Responder"] = next]
                  /\ UNCHANGED error
        /\ UNCHANGED <<setting, injected, requested, verified, sessions>>

\* Fault: the initiator takes whatever capabilities the responder names.
ChallengeAcceptableAnyCapability(m, policy, challenge) ==
    /\ Admits(policy.link_versions, challenge.link_version)
    /\ m.auth_path = challenge.auth_path

ChallengeAcceptable(m, policy, challenge) ==
    /\ Admits(policy.link_versions, challenge.link_version)
    /\ m.auth_path = challenge.auth_path
    /\ challenge.link_capabilities \subseteq policy.link_capabilities

\* Fault: the initiator keeps its own capabilities instead of the intersection.
AfterChallengeOwnCapabilities(m, policy, challenge) ==
    [m EXCEPT !.state = "AwaitingSelection",
              !.remote = challenge.responder,
              !.link_version = {challenge.link_version},
              !.link_capabilities = policy.link_capabilities]

AfterChallenge(m, policy, challenge) ==
    [m EXCEPT !.state = "AwaitingSelection",
              !.remote = challenge.responder,
              !.link_version = {challenge.link_version},
              !.link_capabilities = challenge.link_capabilities]

ReceiveChallenge ==
    LET m         == machine["Initiator"]
        challenge == Head(inbox["Initiator"])
        policy    == Policy("Initiator")
    IN  /\ m.state = "AwaitingChallenge"
        /\ \/ /\ TakeOnly("Initiator", "Challenge")
              /\ ~ ChallengeAcceptable(m, policy, challenge)
              /\ Fail("Initiator", "IncompatibleVersion")
           \/ /\ TakeAndSend("Initiator", "Challenge",
                    [type |-> "IdentityProof", length |-> config["Initiator"].proof_length])
              /\ ChallengeAcceptable(m, policy, challenge)
              /\ machine' = [machine EXCEPT !["Initiator"] = AfterChallenge(m, policy, challenge)]
              /\ UNCHANGED error
        /\ UNCHANGED <<setting, injected, requested, verified, sessions>>

ReceiveProof ==
    /\ machine["Responder"].state = "AwaitingProof"
    /\ TakeOnly("Responder", "IdentityProof")
    /\ LET tooLong == Head(inbox["Responder"]).length > Policy("Responder").max_identity_proof_bytes
       IN  \/ /\ tooLong
              /\ Fail("Responder", "LimitExceeded")
              /\ UNCHANGED requested
           \/ /\ ~ tooLong
              /\ machine' = [machine EXCEPT !["Responder"].state = "AwaitingVerification",
                                            !["Responder"].pending = TRUE]
              /\ requested' = requested + 1
              /\ UNCHANGED error
    /\ UNCHANGED <<setting, injected, verified, sessions>>

\* decide_identity, called with a verification pending.
DecideIdentity(decision) ==
    /\ machine["Responder"].state = "AwaitingVerification"
    /\ machine["Responder"].pending
    /\ \/ /\ decision = "Reject"
          /\ machine' = [machine EXCEPT !["Responder"].state = "Failed",
                                        !["Responder"].pending = FALSE]
          /\ error' = [error EXCEPT !["Responder"] = "IdentityRejected"]
          /\ UNCHANGED <<inbox, verified>>
       \/ /\ decision = "Accept"
          /\ machine' = [machine EXCEPT !["Responder"].state = "AwaitingConfirmation",
                                        !["Responder"].pending = FALSE]
          /\ Send("Responder", [type |-> "Selection",
                                session_id |-> machine["Responder"].session_id,
                                protocols |-> machine["Responder"].selected_protocols])
          /\ verified' = TRUE
          /\ UNCHANGED error
    /\ UNCHANGED <<setting, delivered, injected, requested, sessions>>

Supports(offers, selection) ==
    \E i \in DOMAIN offers :
        /\ offers[i].stable_id = selection.stable_id
        /\ offers[i].schema = selection.schema
        /\ offers[i].capabilities.protocol_id = selection.capabilities.protocol_id
        /\ selection.capabilities.words \subseteq offers[i].capabilities.words
        /\ Admits(offers[i].versions, selection.version)

\* validate_selection, in its order.
SelectionError(m, policy, selected) ==
    IF selected = {} \/ Cardinality(selected) > policy.max_protocol_offers
    THEN "NoSharedProtocol"
    ELSE IF \/ \E s, t \in selected : s # t /\ s.stable_id = t.stable_id
            \/ \E s \in selected : ~ Supports(Catalog(policy, m.auth_path), s)
         THEN "ProtocolConflict"
    ELSE None

ReceiveSelection ==
    LET m         == machine["Initiator"]
        selection == Head(inbox["Initiator"])
        policy    == Policy("Initiator")
    IN  /\ m.state = "AwaitingSelection"
        /\ \/ /\ TakeOnly("Initiator", "Selection")
              /\ SelectionError(m, policy, selection.protocols) # None
              /\ Fail("Initiator", SelectionError(m, policy, selection.protocols))
           \/ /\ Take("Initiator", "Selection")
              /\ SelectionError(m, policy, selection.protocols) = None
              /\ TakeAndSend("Initiator", "Selection",
                    [type |-> "Confirm", session_id |-> selection.session_id])
              /\ machine' = [machine EXCEPT !["Initiator"] =
                    [m EXCEPT !.state = "AwaitingConfirmed",
                              !.session_id = selection.session_id,
                              !.selected_protocols = selection.protocols]]
              /\ UNCHANGED error
        /\ UNCHANGED <<setting, injected, requested, verified, sessions>>

ReceiveConfirm ==
    LET m == machine["Responder"]
        n == [m EXCEPT !.state = "Established"]
    IN  /\ m.state = "AwaitingConfirmation"
        /\ \/ /\ TakeOnly("Responder", "Confirm")
              /\ Head(inbox["Responder"]).session_id # m.session_id
              /\ Fail("Responder", "InvalidConfirmation")
              /\ UNCHANGED sessions
           \/ /\ TakeAndSend("Responder", "Confirm",
                    [type |-> "Confirmed", session_id |-> m.session_id])
              /\ Head(inbox["Responder"]).session_id = m.session_id
              /\ machine' = [machine EXCEPT !["Responder"] = n]
              /\ Announce("Responder", n)
              /\ UNCHANGED error
        /\ UNCHANGED <<setting, injected, requested, verified>>

ReceiveConfirmed ==
    LET m == machine["Initiator"]
        n == [m EXCEPT !.state = "Established"]
    IN  /\ m.state = "AwaitingConfirmed"
        /\ TakeOnly("Initiator", "Confirmed")
        /\ \/ /\ Head(inbox["Initiator"]).session_id # m.session_id
              /\ Fail("Initiator", "InvalidConfirmation")
              /\ UNCHANGED sessions
           \/ /\ Head(inbox["Initiator"]).session_id = m.session_id
              /\ machine' = [machine EXCEPT !["Initiator"] = n]
              /\ Announce("Initiator", n)
              /\ UNCHANGED error
        /\ UNCHANGED <<setting, injected, requested, verified>>

\* The frame each state waits for; every other one fails the machine.
Expected(state) ==
    CASE state = "AwaitingHello"        -> "Hello"
      [] state = "AwaitingChallenge"    -> "Challenge"
      [] state = "AwaitingProof"        -> "IdentityProof"
      [] state = "AwaitingSelection"    -> "Selection"
      [] state = "AwaitingConfirmation" -> "Confirm"
      [] state = "AwaitingConfirmed"    -> "Confirmed"
      [] OTHER                          -> None

ReceiveUnexpected(role) ==
    /\ inbox[role] # <<>>
    /\ Head(inbox[role]).type \notin {Expected(machine[role].state), "Reject"}
    /\ TakeOnly(role, Head(inbox[role]).type)
    /\ Fail(role, "UnexpectedMessage")
    /\ UNCHANGED <<setting, injected, requested, verified, sessions>>

\* Fault: a rejection is dropped.
ReceiveRejectIgnored(role) ==
    /\ TakeOnly(role, "Reject")
    /\ UNCHANGED <<setting, machine, error, injected, requested, verified, sessions>>

ReceiveReject(role) ==
    /\ TakeOnly(role, "Reject")
    /\ Fail(role, Head(inbox[role]).kind)
    /\ UNCHANGED <<setting, injected, requested, verified, sessions>>

-----------------------------------------------------------------------------
(* Owners *)

\* start() in a state other than Ready, or on the responder.
StartOutOfTurn(role) ==
    /\ disturbance = "owners"
    /\ role = "Responder" \/ machine[role].state # "Ready"
    /\ Fail(role, "UnexpectedMessage")
    /\ injected' = [injected EXCEPT !.misuses = TRUE]
    /\ UNCHANGED <<setting, inbox, delivered, requested, verified, sessions>>

\* decide_identity() with no verification pending: a decision that comes twice
\* or after the handshake went on without it.
DecideOutOfTurn(role) ==
    /\ disturbance = "owners"
    /\ role = "Initiator" \/ machine[role].state # "AwaitingVerification"
    /\ Fail(role, "UnexpectedMessage")
    /\ injected' = [injected EXCEPT !.misuses = TRUE]
    /\ UNCHANGED <<setting, inbox, delivered, requested, verified, sessions>>

\* An owner whose machine failed tells the peer.
SendReject(role) ==
    /\ machine[role].state = "Failed"
    /\ \A f \in delivered[Other(role)] : f.type # "Reject"
    /\ \A i \in DOMAIN inbox[Other(role)] : inbox[Other(role)][i].type # "Reject"
    /\ Send(role, [type |-> "Reject", kind |-> error[role]])
    /\ UNCHANGED <<setting, machine, delivered, injected, error, requested, verified, sessions>>

\* The connection's owner hands a frame to receive() a second time.
Duplicate(role) ==
    /\ disturbance = "owners"
    /\ injected.duplicates < MaxDuplicates
    /\ \E f \in delivered[role] : inbox' = [inbox EXCEPT ![role] = <<f>> \o @]
    /\ injected' = [injected EXCEPT !.duplicates = @ + 1]
    /\ UNCHANGED <<setting, machine, delivered, error, requested, verified, sessions>>

\* A peer with another implementation sends a frame of its own.
Foreign ==
    /\ injected.foreign < MaxForeign
    /\ \E f \in ForeignFrames :
          /\ f.to = disturbance
          /\ inbox' = [inbox EXCEPT ![f.to] = <<f.frame>> \o @]
    /\ injected' = [injected EXCEPT !.foreign = @ + 1]
    /\ UNCHANGED <<setting, machine, delivered, error, requested, verified, sessions>>

Receive ==
    \/ ReceiveHello
    \/ ReceiveChallenge
    \/ ReceiveProof
    \/ ReceiveSelection
    \/ ReceiveConfirm
    \/ ReceiveConfirmed
    \/ \E role \in Roles : ReceiveReject(role)
    \/ \E role \in Roles : ReceiveUnexpected(role)

Next ==
    \/ \E path \in AuthPaths : Start(path)
    \/ Receive
    \/ \E decision \in {"Accept", "Reject"} : DecideIdentity(decision)
    \/ \E role \in Roles : StartOutOfTurn(role)
    \/ \E role \in Roles : DecideOutOfTurn(role)
    \/ \E role \in Roles : SendReject(role)
    \/ \E role \in Roles : Duplicate(role)
    \/ Foreign

Spec == Init /\ [][Next]_vars

\* Owners deliver what arrives, decide on every identity, and tell the peer of
\* a failure.
FairSpec ==
    /\ Spec
    /\ WF_vars(Receive)
    /\ WF_vars(\E decision \in {"Accept", "Reject"} : DecideIdentity(decision))
    /\ \A role \in Roles : WF_vars(SendReject(role))

-----------------------------------------------------------------------------
(* Properties *)

\* The initiator announces at most one session, and only after the responder
\* announced the same one: same id, version, capabilities, protocols and path,
\* each side naming the other, whatever was delivered twice or called out of
\* turn (HandshakeMachine::receive).
Agreement ==
    disturbance = "owners" =>
        /\ Cardinality(sessions["Initiator"]) <= 1
        /\ \A s \in sessions["Initiator"] :
             [s EXCEPT !.local = s.remote, !.remote = s.local] \in sessions["Responder"]

\* The protocols a policy exposes to an unpaired and to a trusted peer.
Exposed(policy, path) ==
    CASE path = "FirstPairing"     -> policy.pairing_protocols
      [] path = "TrustedReconnect" -> policy.protocols

WithinPolicy(role, s) ==
    /\ s.link_capabilities \subseteq Policy(role).link_capabilities
    /\ \A v \in s.link_version : Admits(Policy(role).link_versions, v)
    /\ s.protocols # {}
    /\ \A p \in s.protocols : Supports(Exposed(Policy(role), s.auth_path), p)

\* The responder's policy admits this peer on this path, and its owner accepted
\* the one proof that was presented.
Authenticated(s) ==
    /\ verified
    /\ requested = 1
    /\ s.auth_path = "FirstPairing" => Policy("Responder").allow_pairing
    /\ s.auth_path = "TrustedReconnect" => s.remote \in Policy("Responder").trusted_peers

\* Also against a peer that does not run this machine, each side announces only
\* sessions within its own policy (its versions, its link capabilities and the
\* catalog it has for this authentication path: receive_hello, receive_challenge
\* and validate_selection), the responder only those of a peer it authenticated.
WithinOwnPolicy ==
    /\ \A role \in Roles : \A s \in sessions[role] : WithinPolicy(role, s)
    /\ \A s \in sessions["Responder"] : Authenticated(s)

\* Between peers that follow the protocol, with no frame repeated and no call
\* out of turn, an initiator whose Hello went out fails only because the
\* responder did; it never refuses what the responder negotiated: its checks and
\* the responder's choices agree for every pair of policies.
HonestPeersAgree ==
    /\ injected = [duplicates |-> 0, foreign |-> 0, misuses |-> FALSE]
    /\ machine["Initiator"].state = "Failed"
    /\ machine["Initiator"].auth_path # None
    => machine["Responder"].state = "Failed"

\* A handshake that was started ends on both sides, also when a frame is
\* repeated, comes from a stranger, or an owner calls out of turn: no state of the pair leaves both
\* waiting.
HandshakeEnds ==
    machine["Initiator"].state = "AwaitingChallenge"
        ~> \A role \in Roles : machine[role].state \in {"Established", "Failed"}

=============================================================================
