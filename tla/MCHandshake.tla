---------------------------- MODULE MCHandshake ----------------------------
(***************************************************************************)
(* Small instances of Handshake.  Every initiator meets every responder:   *)
(* policies that match, that overlap in versions, capabilities and         *)
(* catalogs, that list a protocol twice, and that are refused by each of   *)
(* the checks.                                                             *)
(***************************************************************************)
EXTENDS Handshake

V(major, minor) == [major |-> major, minor |-> minor]

Range(low, high) == [minimum |-> V(1, low), maximum |-> V(1, high)]

Offer(id, versions, words) ==
    [ stable_id |-> id, debug_identity |-> "None", debug_matches |-> TRUE,
      versions |-> versions, schema |-> "s", schema_revision |-> 1,
      capabilities |-> [protocol_id |-> id, words |-> words], bounded |-> TRUE ]

Chat  == Offer("chat", Range(0, 2), {1, 2})
Chat1 == Offer("chat", Range(1, 3), {2, 3})
File  == Offer("file", Range(0, 0), {})

Policy0 ==
    [ link_versions |-> Range(0, 1), link_capabilities |-> {"typed", "compact"},
      protocols |-> <<Chat, File>>, pairing_protocols |-> <<File>>, allow_pairing |-> TRUE,
      trusted_peers |-> {"i"}, max_protocol_offers |-> 2, max_identity_proof_bytes |-> 1 ]

Config(identity, policy, session) ==
    [identity |-> identity, policy |-> policy, proof_length |-> 1, session_id |-> session]

InitiatorPolicies ==
    { Policy0,
      [Policy0 EXCEPT !.link_versions = Range(1, 3), !.link_capabilities = {"typed", "datagrams"}],
      [Policy0 EXCEPT !.protocols = <<Chat1, Chat>>],
      [Policy0 EXCEPT !.protocols = <<[Chat EXCEPT !.debug_identity = "d"]>>],
      [Policy0 EXCEPT !.protocols = <<Chat, Chat1, File>>],
      [Policy0 EXCEPT !.protocols = <<[Chat EXCEPT !.schema_revision = 0]>>],
      [Policy0 EXCEPT !.link_versions = [minimum |-> V(1, 0), maximum |-> V(2, 0)]] }

ResponderPolicies ==
    { Policy0,
      [Policy0 EXCEPT !.protocols = <<Chat1, Chat, File>>, !.link_capabilities = {"typed"}],
      [Policy0 EXCEPT !.allow_pairing = FALSE, !.trusted_peers = {}],
      [Policy0 EXCEPT !.trusted_peers = {}],
      [Policy0 EXCEPT !.protocols = <<[Chat EXCEPT !.schema = "t"], File>>],
      [Policy0 EXCEPT !.protocols = <<[Chat EXCEPT !.debug_identity = "e"]>>],
      [Policy0 EXCEPT !.protocols = <<[Chat EXCEPT !.capabilities.protocol_id = "file"]>>],
      [Policy0 EXCEPT !.protocols = <<File>>, !.max_protocol_offers = 1],
      [Policy0 EXCEPT !.link_versions = Range(2, 2)],
      [Policy0 EXCEPT !.max_identity_proof_bytes = 0] }

Meeting(initiator, responder, trouble) ==
    [ peers |-> [role \in Roles |-> IF role = "Initiator" THEN Config("i", initiator, "none")
                                    ELSE Config("r", responder, "s1")],
      disturbance |-> trouble ]

\* What a responder or an initiator of another implementation might send.
Strange ==
    LET challenge == [type |-> "Challenge", responder |-> "x", link_version |-> V(1, 1),
                      link_capabilities |-> {"typed"}, auth_path |-> "FirstPairing"]
        grant == Grant(File, File, V(1, 0))
        selection(set) == [type |-> "Selection", session_id |-> "s2", protocols |-> set]
        hello == [type |-> "Hello", identity |-> "x", link_versions |-> Range(0, 0),
                  link_capabilities |-> {"typed"}, protocols |-> <<File>>,
                  requested_auth |-> "FirstPairing"]
    IN  [to : {"Initiator"}, frame :
            { challenge, [challenge EXCEPT !.link_capabilities = {"typed", "resume"}],
              [challenge EXCEPT !.auth_path = "TrustedReconnect"],
              [challenge EXCEPT !.link_version = V(2, 0)],
              selection({}), selection({grant}), selection({Grant(Chat, Chat, V(1, 1))}),
              selection({grant, [grant EXCEPT !.version = V(1, 1)]}),
              [type |-> "Confirmed", session_id |-> "s2"] }]
        \cup [to : {"Responder"}, frame :
            { hello, [hello EXCEPT !.requested_auth = "TrustedReconnect"],
              [type |-> "IdentityProof", length |-> 1],
              [type |-> "Confirm", session_id |-> "s1"],
              [type |-> "Confirm", session_id |-> "s2"] }]

\* Every pair of policies among peers that run this machine, one pair against
\* strangers.
EveryMeeting ==
    {Meeting(i, r, "owners") : i \in InitiatorPolicies, r \in ResponderPolicies}
        \cup {Meeting([Policy0 EXCEPT !.link_versions = Range(0, 3)], Policy0, role) : role \in Roles}
=============================================================================
