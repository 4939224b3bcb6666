--------------------------- MODULE ProtocolCatalog ---------------------------
(***************************************************************************)
(* The protocol registries (protocol.rs) of the two ends of a link: owners *)
(* register descriptors, the registry is frozen, the handshake negotiates  *)
(* over the offers of both, each end activates what was negotiated and     *)
(* validates the channels it opens.                                        *)
(*                                                                         *)
(* A descriptor is an offer with its channels.  The registry has its own   *)
(* negotiate, written apart from the handshake's negotiate_protocols; the  *)
(* two meet when one end uses the one and the other end the other.         *)
(***************************************************************************)
EXTENDS Negotiation, FiniteSetsExt, SequencesExt

CONSTANTS
    Descriptors,        \* ProtocolDescriptors the owners try to register
    MaxProtocolsOf,     \* side -> ProtocolRegistryLimits::max_protocols
    MaxChannelsEach,    \* ProtocolRegistryLimits::max_channels_per_protocol
    MaxTotalChannels,   \* ProtocolRegistryLimits::max_total_channels
    Capacities,         \* capacities of open requests
    SessionChannels,    \* channel ids of open requests
    Unbounded           \* max_stream_bytes is None

Sides == {"initiator", "responder"}

Across(side) == IF side = "initiator" THEN "responder" ELSE "initiator"

ASSUME CatalogAssumption ==
    /\ MaxProtocolsOf \in [Sides -> Nat \ {0}]
    /\ {MaxChannelsEach, MaxTotalChannels} \subseteq Nat \ {0}
    /\ Capacities \subseteq Nat /\ SessionChannels \subseteq Nat
    /\ \A d \in Descriptors :
         /\ HasMinors(d.versions) /\ IsFiniteSet(d.channels)
         /\ d.capabilities = [ protocol_id |-> d.capabilities.protocol_id,
                               words       |-> d.capabilities.words ]

VARIABLES
    registered,     \* side -> ProtocolRegistry::descriptors, one per stable id
    channelTotal,   \* side -> ProtocolRegistry::total_channels
    frozen,         \* side -> freeze was called
    activated,      \* side -> outcome of activate, and the selections of the ActiveProtocolSet
    validated       \* side -> ValidatedChannels open_channel returned

catalogVars == <<registered, channelTotal, frozen, activated, validated>>

CatalogInit ==
    /\ registered = [side \in Sides |-> {}]
    /\ channelTotal = [side \in Sides |-> 0]
    /\ frozen = [side \in Sides |-> FALSE]
    /\ activated = [side \in Sides |-> [outcome |-> "none", selections |-> {}]]
    /\ validated = [side \in Sides |-> {}]

-----------------------------------------------------------------------------
(* ProtocolRegistry *)

\* Fault: a byte quota is taken on any channel.
ValidChannelAnyQuota(channel) ==
    /\ channel.id # 0
    /\ channel.max_frame_bytes # 0 /\ channel.max_in_flight_frames # 0
    /\ channel.max_stream_bytes # 0
    /\ channel.discardable => channel.mode = "Event"

ValidChannel(channel) ==
    /\ channel.id # 0
    /\ channel.max_frame_bytes # 0 /\ channel.max_in_flight_frames # 0
    /\ channel.max_stream_bytes # 0
    /\ channel.mode = "Stream" <=> channel.max_stream_bytes # Unbounded
    /\ channel.discardable => channel.mode = "Event"

ValidDescriptor(d) ==
    /\ d.debug_matches
    /\ ValidRange(d.versions)
    /\ d.schema_revision # 0
    /\ d.capabilities.protocol_id = d.stable_id /\ d.bounded
    /\ d.channels # {} /\ Cardinality(d.channels) <= MaxChannelsEach
    /\ \A channel \in d.channels : ValidChannel(channel)
    /\ \A c1, c2 \in d.channels : c1.id = c2.id => c1 = c2

\* A registration that fails returns before anything is written.
Register(side, d) ==
    /\ ~frozen[side]
    /\ \A known \in registered[side] : known.stable_id # d.stable_id
    /\ ValidDescriptor(d)
    /\ Cardinality(registered[side]) < MaxProtocolsOf[side]
    /\ channelTotal[side] + Cardinality(d.channels) <= MaxTotalChannels
    /\ channelTotal' = [channelTotal EXCEPT ![side] = @ + Cardinality(d.channels)]
    /\ registered' = [registered EXCEPT ![side] = @ \cup {d}]
    /\ UNCHANGED <<frozen, activated, validated>>

Freeze(side) ==
    /\ ~frozen[side]
    /\ frozen' = [frozen EXCEPT ![side] = TRUE]
    /\ UNCHANGED <<registered, channelTotal, activated, validated>>

-----------------------------------------------------------------------------
(* FrozenProtocolRegistry *)

Offers(side) == SetToSeq(registered[side])

\* Pairs of own descriptor and the remote offer found for it.
FoundOffers(side, remote) ==
    {<<p[1], remote[p[2]]>> : p \in
        {p \in registered[side] \X DOMAIN remote :
            /\ remote[p[2]].stable_id = p[1].stable_id
            /\ \A j \in 1..(p[2] - 1) : remote[j].stable_id # p[1].stable_id}}

NegotiateFails(side, remote) ==
    \/ Len(remote) > MaxProtocolsOf[side]
    \/ \E f \in FoundOffers(side, remote) :
         \/ "None" \notin {f[1].debug_identity, f[2].debug_identity}
            /\ f[1].debug_identity # f[2].debug_identity
         \/ f[1].schema # f[2].schema
         \/ SharedVersion(f[1].versions, f[2].versions) # {}
            /\ f[1].capabilities.protocol_id # f[2].capabilities.protocol_id

\* negotiate: own descriptors in order, those without a shared version left out.
Negotiate(side, remote) ==
    {[ stable_id    |-> f[1].stable_id,
       version      |-> CHOOSE v \in SharedVersion(f[1].versions, f[2].versions) : TRUE,
       schema       |-> f[1].schema,
       capabilities |-> [f[1].capabilities EXCEPT !.words = @ \cap f[2].capabilities.words] ] :
     f \in {f \in FoundOffers(side, remote) :
              SharedVersion(f[1].versions, f[2].versions) # {}}}

\* activate: every selection against the descriptor of its protocol.
Activates(side, selections) ==
    /\ Cardinality(selections) <= Cardinality(registered[side])
    /\ \A s \in selections :
         /\ \A t \in selections : s.stable_id = t.stable_id => s = t
         /\ \E d \in registered[side] :
              /\ d.stable_id = s.stable_id
              /\ d.schema = s.schema
              /\ s.capabilities.protocol_id = s.stable_id
              /\ s.capabilities.words \subseteq d.capabilities.words
              /\ Admits(d.versions, s.version)

\* The session's protocols: what the responder's HandshakeMachine negotiates.
Negotiated == NegotiateProtocols(Offers("responder"), Offers("initiator"))

\* The owner activates what its NegotiatedSession lists.
Activate(side) ==
    /\ \A s \in Sides : frozen[s]
    /\ activated[side].outcome = "none"
    /\ ~ProtocolsConflict(Offers("responder"), Offers("initiator"))
    /\ activated' = [activated EXCEPT ![side] =
         IF Activates(side, Negotiated)
         THEN [outcome |-> "active", selections |-> Negotiated]
         ELSE [@ EXCEPT !.outcome = "refused"]]
    /\ UNCHANGED <<registered, channelTotal, frozen, validated>>

-----------------------------------------------------------------------------
(* ActiveProtocolSet *)

\* open_channel for a request of the peer or of the owner.
OpenCatalogChannel(side, protocol, channelId, id, capacity) ==
    /\ activated[side].outcome = "active"
    /\ \E s \in activated[side].selections : \E d \in registered[side] : \E c \in d.channels :
         /\ s.stable_id = protocol /\ d.stable_id = protocol /\ c.id = channelId
         /\ capacity \in 1..c.max_in_flight_frames
         /\ validated' = [validated EXCEPT ![side] = @ \cup
              {[ selection |-> s, channel |-> c.id, id |-> id, generation |-> 1, mode |-> c.mode,
                 capacity |-> capacity, max_frame_bytes |-> c.max_frame_bytes,
                 max_stream_bytes |-> c.max_stream_bytes, discardable |-> c.discardable ]}]
    /\ UNCHANGED <<registered, channelTotal, frozen, activated>>

\* Each end opens one channel: channels of one end do not affect each other here.
CatalogNext ==
    \E side \in Sides :
        \/ \E d \in Descriptors : Register(side, d)
        \/ Freeze(side)
        \/ Activate(side)
        \/ /\ validated[side] = {}
           /\ \E d \in Descriptors, id \in SessionChannels, capacity \in Capacities :
                \E c \in d.channels :
                    OpenCatalogChannel(side, d.stable_id, c.id, id, capacity)

CatalogSpec == CatalogInit /\ [][CatalogNext]_catalogVars

-----------------------------------------------------------------------------
(* Properties *)

\* What Multiplexer::open_channel and Session::validated_channel_matches_session ask of a
\* channel, the reserved id 0 and the table limits aside.
SessionAccepts(channel, selections) ==
    /\ channel.generation = 1
    /\ channel.capacity # 0 /\ channel.max_frame_bytes # 0
    /\ channel.discardable => channel.mode = "Event"
    /\ channel.mode = "Stream" <=> channel.max_stream_bytes # Unbounded
    /\ channel.selection \in selections

\* The chain from register over negotiate and activate to open_channel holds together at both
\* ends, whatever their owners registered: the two negotiations of the code select the same,
\* seen from either end; an end never refuses to activate what the handshake negotiated; and
\* a channel one end validates is one its session takes, under terms the other end shares.
CatalogsAgree ==
    /\ \A side \in Sides :
         LET remote == Offers(Across(side))
         IN  /\ channelTotal[side] = MapThenSumSet(LAMBDA d : Cardinality(d.channels), registered[side])
             /\ frozen[side] /\ frozen[Across(side)] /\ ~NegotiateFails(side, remote) =>
                    /\ ~ProtocolsConflict(Offers(side), remote)
                    /\ Negotiate(side, remote) = Negotiated
             /\ activated[side].outcome # "refused"
             /\ \A channel \in validated[side] : SessionAccepts(channel, Negotiated)
=============================================================================
