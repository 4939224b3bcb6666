---------------------------- MODULE Negotiation ----------------------------
(***************************************************************************)
(* Version and protocol negotiation (identity.rs, control.rs and           *)
(* negotiate_protocols of handshake.rs): what two lists of ProtocolOffers  *)
(* have in common.  An offer is a record; its capability words are a set.  *)
(***************************************************************************)
EXTENDS Integers, Sequences

-----------------------------------------------------------------------------
(* Versions *)

\* Decoded versions are numbers.
HasMinors(range) == range.minimum.minor \in Nat /\ range.maximum.minor \in Nat

ValidRange(range) ==
    /\ range.minimum.major = range.maximum.major
    /\ range.minimum.minor <= range.maximum.minor

Lower(a, b) == IF a <= b THEN a ELSE b

\* VersionRange::negotiate: the highest shared minor, or nothing.
SharedVersion(local, remote) ==
    IF /\ ValidRange(local)
       /\ ValidRange(remote)
       /\ local.minimum.major = remote.minimum.major
       /\ local.minimum.minor <= remote.maximum.minor
       /\ remote.minimum.minor <= local.maximum.minor
    THEN {[major |-> local.minimum.major,
           minor |-> Lower(local.maximum.minor, remote.maximum.minor)]}
    ELSE {}

Admits(range, version) ==
    SharedVersion(range, [minimum |-> version, maximum |-> version]) # {}

-----------------------------------------------------------------------------
(* Protocol negotiation *)

\* Positions of the first offer of each stable id.
Firsts(offers) ==
    {i \in DOMAIN offers : \A j \in 1 .. (i - 1) : offers[j].stable_id # offers[i].stable_id}

\* Pairs of offers that negotiate_protocols compares.
Matches(local, remote) ==
    {<<local[p[1]], remote[p[2]]>> : p \in
        {p \in Firsts(local) \X Firsts(remote) :
            local[p[1]].stable_id = remote[p[2]].stable_id}}

Conflict(mine, theirs) ==
    \/ mine.schema # theirs.schema
    \/ /\ mine.debug_identity # "None"
       /\ theirs.debug_identity # "None"
       /\ mine.debug_identity # theirs.debug_identity
    \/ /\ SharedVersion(mine.versions, theirs.versions) # {}
       /\ mine.capabilities.protocol_id # theirs.capabilities.protocol_id

ProtocolsConflict(local, remote) ==
    \E m \in Matches(local, remote) : Conflict(m[1], m[2])

\* Fault: the responder grants all of its own capabilities.
GrantAll(mine, theirs, version) ==
    [ stable_id    |-> mine.stable_id,
      version      |-> version,
      schema       |-> mine.schema,
      capabilities |-> mine.capabilities ]

Grant(mine, theirs, version) ==
    [ stable_id    |-> mine.stable_id,
      version      |-> version,
      schema       |-> mine.schema,
      capabilities |-> [protocol_id |-> mine.capabilities.protocol_id,
                        words |-> mine.capabilities.words \cap theirs.capabilities.words] ]

\* negotiate_protocols, when no match conflicts; an offer without a shared
\* version is left out.
NegotiateProtocols(local, remote) ==
    UNION {{Grant(m[1], m[2], v) : v \in SharedVersion(m[1].versions, m[2].versions)} :
             m \in Matches(local, remote)}
=============================================================================
