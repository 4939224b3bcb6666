------------------------------ MODULE MCParts ------------------------------
(***************************************************************************)
(* Parts of the link that share no state, checked side by side in one run: *)
(* the pairing ceremony, its admission control, the trust file, the        *)
(* realtime path, the in-memory transport, discovery and the protocol      *)
(* registries.  `part` picks the one that steps.                           *)
(***************************************************************************)
EXTENDS Pairing, PairingAdmission, TrustFile, RealtimePath, MemoryTransport, Discovery,
        ProtocolCatalog

VARIABLE part

mcVars == <<part, ceremonyVars, admissionVars, trustVars, realtimeVars, memoryVars, discoveryVars,
            catalogVars>>

\* Frames are urgent, the other flow is disposable.
MCPriorityOf == [flow \in Flows |-> IF flow = FrameFlow THEN 1 ELSE Disposable]

\* Descriptors of three protocols: versions and capabilities that overlap, one that is in
\* conflict with the rest, one with a byte quota on a channel that is no stream.
Version(low, high) == [minimum |-> [major |-> 1, minor |-> low], maximum |-> [major |-> 1, minor |-> high]]

EventChannel == [ id |-> 1, mode |-> "Event", max_frame_bytes |-> 8, max_stream_bytes |-> Unbounded,
                  max_in_flight_frames |-> 1, discardable |-> TRUE ]

StreamChannel == [EventChannel EXCEPT !.id = 2, !.mode = "Stream", !.max_stream_bytes = 16, !.discardable = FALSE]

Chat == [ stable_id |-> "chat", debug_identity |-> "None", debug_matches |-> TRUE,
          versions |-> Version(0, 2), schema |-> "s1", schema_revision |-> 1,
          capabilities |-> [protocol_id |-> "chat", words |-> {1, 2}], bounded |-> TRUE,
          channels |-> {EventChannel} ]

MCDescriptors ==
    { Chat,
      [Chat EXCEPT !.debug_identity = "chat", !.versions = Version(1, 3), !.capabilities.words = {2, 3},
                   !.channels = {EventChannel, StreamChannel}],
      [Chat EXCEPT !.versions = Version(3, 3)],
      [Chat EXCEPT !.schema = "s2"],
      [Chat EXCEPT !.stable_id = "file", !.capabilities.protocol_id = "file",
                   !.channels = {StreamChannel}],
      [Chat EXCEPT !.stable_id = "file", !.capabilities.protocol_id = "file",
                   !.channels = {[EventChannel EXCEPT !.max_stream_bytes = 16]}],
      [Chat EXCEPT !.stable_id = "mail", !.capabilities.protocol_id = "mail"] }

MCMaxProtocolsOf == [side \in Sides |-> IF side = "initiator" THEN 3 ELSE 2]

MCInit ==
    /\ part \in {"ceremony", "admission", "store", "realtime", "memory", "discovery", "catalog"}
    /\ CeremonyInit /\ AdmissionInit /\ TrustInit
    /\ RealtimeInit /\ MemoryInit /\ DiscoveryInit /\ CatalogInit
    /\ part # "store" => platform = "unix"
    /\ part # "realtime" => pathLimit = CHOOSE limit \in PathLimits : TRUE

MCNext ==
    \/ /\ part = "ceremony" /\ CeremonyNext
       /\ UNCHANGED <<part, admissionVars, trustVars, realtimeVars, memoryVars, discoveryVars, catalogVars>>
    \/ /\ part = "admission" /\ AdmissionNext
       /\ UNCHANGED <<part, ceremonyVars, trustVars, realtimeVars, memoryVars, discoveryVars, catalogVars>>
    \/ /\ part = "store" /\ TrustNext
       /\ UNCHANGED <<part, ceremonyVars, admissionVars, realtimeVars, memoryVars, discoveryVars, catalogVars>>
    \/ /\ part = "realtime" /\ RealtimeNext
       /\ UNCHANGED <<part, ceremonyVars, admissionVars, trustVars, memoryVars, discoveryVars, catalogVars>>
    \/ /\ part = "memory" /\ MemoryNext
       /\ UNCHANGED <<part, ceremonyVars, admissionVars, trustVars, realtimeVars, discoveryVars, catalogVars>>
    \/ /\ part = "discovery" /\ DiscoveryNext
       /\ UNCHANGED <<part, ceremonyVars, admissionVars, trustVars, realtimeVars, memoryVars, catalogVars>>
    \/ /\ part = "catalog" /\ CatalogNext
       /\ UNCHANGED <<part, ceremonyVars, admissionVars, trustVars, realtimeVars, memoryVars, discoveryVars>>

MCSpec == MCInit /\ [][MCNext]_mcVars
=============================================================================
