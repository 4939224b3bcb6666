-------------------------- MODULE HandshakeProofs --------------------------
(***************************************************************************)
(* Machine-checked proofs about Handshake, for any two configurations, any *)
(* number of repeated or foreign frames and any calls out of turn: each    *)
(* side stays within its own policy, and two machines agree.  About        *)
(* ProtocolCatalog, for any descriptors and limits: the registries of two  *)
(* ends agree on what the handshake negotiated.                            *)
(***************************************************************************)
EXTENDS Handshake, ProtocolCatalog, DataFacts, TLAPS, FiniteSetTheorems, SequenceTheorems

-----------------------------------------------------------------------------
(* Facts about the operators. *)

\* Versions both ranges share lie in each of them.
LEMMA SharedIsAdmitted ==
    ASSUME NEW a, NEW b, HasMinors(a), HasMinors(b), NEW v \in SharedVersion(a, b)
    PROVE  Admits(a, v) /\ Admits(b, v)
  <1>1. /\ ValidRange(a) /\ ValidRange(b)
        /\ a.minimum.major = b.minimum.major
        /\ a.minimum.minor <= b.maximum.minor
        /\ b.minimum.minor <= a.maximum.minor
        /\ v = [major |-> a.minimum.major, minor |-> Lower(a.maximum.minor, b.maximum.minor)]
    BY DEF SharedVersion
  <1>2. PICK w : w = [minimum |-> v, maximum |-> v]
    OBVIOUS
  <1>3. /\ v.major = a.minimum.major
        /\ v.minor \in Nat
        /\ v.minor <= a.maximum.minor /\ v.minor <= b.maximum.minor
        /\ a.minimum.minor <= v.minor /\ b.minimum.minor <= v.minor
    BY <1>1 DEF HasMinors, Lower, ValidRange
  <1>4. w.minimum = v /\ w.maximum = v
    BY <1>2
  <1>5. ValidRange(w)
    BY <1>3, <1>4 DEF ValidRange
  <1>6. SharedVersion(a, w) # {} /\ SharedVersion(b, w) # {}
    BY <1>1, <1>3, <1>4, <1>5 DEF SharedVersion
  <1> QED BY <1>2, <1>6 DEF Admits

\* What negotiate_protocols grants, the local catalog supports.
LEMMA GrantIsSupported ==
    ASSUME NEW local, NEW remote, NEW p \in NegotiateProtocols(local, remote),
           \A i \in DOMAIN local : HasMinors(local[i].versions),
           \A j \in DOMAIN remote : HasMinors(remote[j].versions)
    PROVE  Supports(local, p)
  <1>1. PICK m \in Matches(local, remote) :
          \E v \in SharedVersion(m[1].versions, m[2].versions) : p = Grant(m[1], m[2], v)
    BY DEF NegotiateProtocols
  <1>2. PICK i \in DOMAIN local, j \in DOMAIN remote : m = <<local[i], remote[j]>>
    BY DEF Matches, Firsts
  <1>3. PICK x, y : x = local[i] /\ y = remote[j]
    OBVIOUS
  <1>4. PICK v \in SharedVersion(x.versions, y.versions) : p = Grant(x, y, v)
    BY <1>1, <1>2, <1>3
  <1>5. Admits(x.versions, v)
    BY <1>3, SharedIsAdmitted
  <1>6. /\ p.stable_id = x.stable_id /\ p.schema = x.schema /\ p.version = v
        /\ p.capabilities.protocol_id = x.capabilities.protocol_id
        /\ p.capabilities.words = x.capabilities.words \cap y.capabilities.words
    BY <1>4 DEF Grant
  <1> QED BY <1>3, <1>5, <1>6 DEF Supports

\* There are two roles.
LEMMA OtherFacts == Other("Initiator") = "Responder" /\ Other("Responder") = "Initiator"
  BY DEF Other, Roles

\* The frames of a sequence.
FramesIn(s) == {s[i] : i \in DOMAIN s}

IsSequence(s) == s \in Seq(FramesIn(s))

\* A sequence over any set is one over its own elements.
LEMMA SequenceOfOwn ==
    ASSUME NEW S, NEW s \in Seq(S)
    PROVE  IsSequence(s)
  <1>1. Len(s) \in Nat /\ s \in [1 .. Len(s) -> S]
    BY LenProperties
  <1>2. s \in [1 .. Len(s) -> FramesIn(s)]
    BY <1>1 DEF FramesIn
  <1> QED BY <1>1, <1>2, IsASeq DEF IsSequence

\* What taking, sending and repeating a frame do to the frames of an inbox.
LEMMA InboxFacts ==
    ASSUME NEW s, IsSequence(s), NEW f
    PROVE  /\ IsSequence(Append(s, f)) /\ FramesIn(Append(s, f)) = FramesIn(s) \cup {f}
           /\ IsSequence(<<f>> \o s) /\ FramesIn(<<f>> \o s) = FramesIn(s) \cup {f}
           /\ s # <<>> => /\ Head(s) \in FramesIn(s)
                          /\ IsSequence(Tail(s)) /\ FramesIn(Tail(s)) \subseteq FramesIn(s)
  <1>1. PICK S : S = FramesIn(s) \cup {f}
    OBVIOUS
  <1>2. s \in Seq(S) /\ Len(s) \in Nat /\ DOMAIN s = 1 .. Len(s) /\ f \in S
    BY <1>1 DEF IsSequence
  <1>3. IsSequence(Append(s, f)) /\ FramesIn(Append(s, f)) = FramesIn(s) \cup {f}
    <2>1. PICK t : t = Append(s, f)
      OBVIOUS
    <2>2. /\ t \in Seq(S) /\ DOMAIN t = 1 .. (Len(s) + 1)
          /\ t[Len(s) + 1] = f
          /\ \A i \in 1 .. Len(s) : t[i] = s[i]
      BY <1>2, <2>1
    <2>3. FramesIn(t) = FramesIn(s) \cup {f}
      BY <1>2, <2>2 DEF FramesIn
    <2> QED BY <2>1, <2>2, <2>3, SequenceOfOwn
  <1>4. IsSequence(<<f>> \o s) /\ FramesIn(<<f>> \o s) = FramesIn(s) \cup {f}
    <2>1. PICK t : t = <<f>> \o s
      OBVIOUS
    <2>2. <<f>> \in Seq(S) /\ Len(<<f>>) = 1 /\ <<f>>[1] = f
      BY <1>2
    <2>3. /\ t \in Seq(S) /\ Len(t) = Len(s) + 1
          /\ t[1] = f
          /\ \A i \in 1 .. Len(s) : t[i + 1] = s[i]
      BY <1>2, <2>1, <2>2, ConcatProperties
    <2>4. DOMAIN t = 1 .. (Len(s) + 1)
      BY <2>3, LenProperties
    <2>5. FramesIn(t) \subseteq FramesIn(s) \cup {f}
      <3> SUFFICES ASSUME NEW i \in DOMAIN t PROVE t[i] \in FramesIn(s) \cup {f}
        BY DEF FramesIn
      <3>1. CASE i = 1
        BY <2>3, <3>1
      <3>2. CASE i # 1
        <4>1. i - 1 \in 1 .. Len(s) /\ (i - 1) + 1 = i
          BY <1>2, <2>4, <3>2
        <4>2. t[i] = s[i - 1]
          BY <2>3, <4>1
        <4> QED BY <1>2, <4>1, <4>2 DEF FramesIn
      <3> QED BY <3>1, <3>2
    <2>6. FramesIn(s) \cup {f} \subseteq FramesIn(t)
      <3>1. f \in FramesIn(t)
        BY <1>2, <2>3, <2>4 DEF FramesIn
      <3>2. ASSUME NEW i \in 1 .. Len(s) PROVE s[i] \in FramesIn(t)
        <4>1. i + 1 \in DOMAIN t
          BY <1>2, <2>4
        <4> QED BY <2>3, <4>1 DEF FramesIn
      <3> QED BY <1>2, <3>1, <3>2 DEF FramesIn
    <2> QED BY <2>1, <2>3, <2>5, <2>6, SequenceOfOwn
  <1>5. ASSUME s # <<>>
        PROVE  /\ Head(s) \in FramesIn(s)
               /\ IsSequence(Tail(s)) /\ FramesIn(Tail(s)) \subseteq FramesIn(s)
    <2>1. Len(s) >= 1
      BY <1>2, <1>5, EmptySeq
    <2>2. Head(s) = s[1]
      BY <1>2, <1>5
    <2>3. PICK t : t = Tail(s)
      OBVIOUS
    <2>4. /\ t \in Seq(S) /\ Len(t) = Len(s) - 1
          /\ \A i \in 1 .. (Len(s) - 1) : t[i] = s[i + 1]
      BY <1>2, <1>5, <2>1, <2>3
    <2>5. DOMAIN t = 1 .. (Len(s) - 1)
      BY <2>4, LenProperties
    <2>6. FramesIn(t) \subseteq FramesIn(s)
      <3> SUFFICES ASSUME NEW i \in DOMAIN t PROVE t[i] \in FramesIn(s)
        BY DEF FramesIn
      <3>1. i + 1 \in DOMAIN s
        BY <1>2, <2>5
      <3> QED BY <2>4, <2>5, <3>1 DEF FramesIn
    <2>7. 1 \in DOMAIN s
      BY <1>2, <2>1
    <2>8. Head(s) \in FramesIn(s)
      BY <2>2, <2>7 DEF FramesIn
    <2>9. IsSequence(t)
      BY <2>4, SequenceOfOwn
    <2> QED BY <2>3, <2>6, <2>8, <2>9
  <1> QED BY <1>3, <1>4, <1>5

-----------------------------------------------------------------------------
(* The steps of the pair, by what they do to the machines and the frames. *)

IsMachine(m) ==
    m = [ state |-> m.state, remote |-> m.remote, auth_path |-> m.auth_path,
          link_version |-> m.link_version, link_capabilities |-> m.link_capabilities,
          selected_protocols |-> m.selected_protocols, pending |-> m.pending,
          session_id |-> m.session_id ]

Shape ==
    /\ DOMAIN machine = Roles /\ DOMAIN inbox = Roles
    /\ DOMAIN delivered = Roles /\ DOMAIN sessions = Roles
    /\ \A role \in Roles : IsMachine(machine[role]) /\ IsSequence(inbox[role])
    /\ \E meeting \in Meetings : config = meeting.peers /\ disturbance = meeting.disturbance

\* The frames that were ever sent to a role.
Sent(role) == FramesIn(inbox[role]) \cup delivered[role]

\* At most the given frame is new, and it goes to this role.
Arrives(role, frame) ==
    /\ DOMAIN inbox' = Roles /\ DOMAIN delivered' = Roles
    /\ \A r \in Roles : IsSequence(inbox'[r])
    /\ \A r \in Roles \ {role} : Sent(r)' \subseteq Sent(r)
    /\ Sent(role)' \subseteq Sent(role) \cup {frame}

\* No frame is new.
NoneArrives ==
    /\ DOMAIN inbox' = Roles /\ DOMAIN delivered' = Roles
    /\ \A r \in Roles : IsSequence(inbox'[r]) /\ Sent(r)' \subseteq Sent(r)

\* A role takes a frame.
LEMMA TakeOnlyFacts ==
    ASSUME Shape, NEW role \in Roles, NEW type, TakeOnly(role, type)
    PROVE  /\ inbox[role] # <<>> /\ Head(inbox[role]) \in Sent(role)
           /\ Head(inbox[role]).type = type
           /\ NoneArrives
  <1>1. PICK s : s = inbox[role]
    OBVIOUS
  <1>2. /\ s # <<>> /\ Head(s).type = type
        /\ delivered' = [delivered EXCEPT ![role] = @ \cup {Head(s)}]
        /\ inbox' = [inbox EXCEPT ![role] = Tail(s)]
    BY <1>1 DEF TakeOnly, Take
  <1>3. /\ Head(s) \in FramesIn(s)
        /\ IsSequence(Tail(s)) /\ FramesIn(Tail(s)) \subseteq FramesIn(s)
    BY <1>1, <1>2, InboxFacts DEF Shape
  <1>4. /\ inbox'[role] = Tail(s) /\ delivered'[role] = delivered[role] \cup {Head(s)}
        /\ \A r \in Roles \ {role} : inbox'[r] = inbox[r] /\ delivered'[r] = delivered[r]
        /\ DOMAIN inbox' = Roles /\ DOMAIN delivered' = Roles
    BY <1>2 DEF Shape
  <1>5. \A r \in Roles : Sent(r)' \subseteq Sent(r)
    BY <1>1, <1>3, <1>4 DEF Sent
  <1>6. \A r \in Roles : IsSequence(inbox'[r])
    BY <1>3, <1>4 DEF Shape
  <1> QED BY <1>1, <1>2, <1>3, <1>4, <1>5, <1>6 DEF NoneArrives, Sent

\* A role takes a frame and answers.
LEMMA TakeAndSendFacts ==
    ASSUME Shape, NEW role \in Roles, NEW other \in Roles, other = Other(role), other # role,
           NEW type, NEW frame, TakeAndSend(role, type, frame)
    PROVE  /\ inbox[role] # <<>> /\ Head(inbox[role]) \in Sent(role)
           /\ Head(inbox[role]).type = type
           /\ Arrives(other, frame)
  <1>1. PICK s, t : s = inbox[role] /\ t = inbox[other]
    OBVIOUS
  <1>2. /\ s # <<>> /\ Head(s).type = type
        /\ delivered' = [delivered EXCEPT ![role] = @ \cup {Head(s)}]
        /\ inbox' = [inbox EXCEPT ![role] = Tail(@), ![other] = Append(@, frame)]
    BY <1>1 DEF TakeAndSend, Take
  <1>3. /\ Head(s) \in FramesIn(s)
        /\ IsSequence(Tail(s)) /\ FramesIn(Tail(s)) \subseteq FramesIn(s)
    BY <1>1, <1>2, InboxFacts DEF Shape
  <1>4. IsSequence(Append(t, frame)) /\ FramesIn(Append(t, frame)) = FramesIn(t) \cup {frame}
    BY <1>1, InboxFacts DEF Shape
  <1>5. /\ inbox'[role] = Tail(s) /\ delivered'[role] = delivered[role] \cup {Head(s)}
        /\ inbox'[other] = Append(t, frame)
        /\ DOMAIN inbox' = Roles /\ DOMAIN delivered' = Roles
    BY <1>1, <1>2 DEF Shape
  <1>6. /\ \A r \in Roles \ {role} : delivered'[r] = delivered[r]
        /\ \A r \in Roles : r = role \/ r = other
    BY <1>2 DEF Shape, Roles
  <1>7. Sent(role)' \subseteq Sent(role) /\ Sent(other)' \subseteq Sent(other) \cup {frame}
    BY <1>1, <1>3, <1>4, <1>5, <1>6 DEF Sent
  <1>8. \A r \in Roles : IsSequence(inbox'[r])
    BY <1>3, <1>4, <1>5, <1>6
  <1> QED BY <1>1, <1>2, <1>3, <1>5, <1>6, <1>7, <1>8 DEF Arrives, Sent

\* A role sends a frame, or a frame of any kind is put into an inbox.
LEMMA PutFacts ==
    ASSUME Shape, NEW role \in Roles, NEW frame, UNCHANGED delivered,
           \/ inbox' = [inbox EXCEPT ![role] = Append(@, frame)]
           \/ inbox' = [inbox EXCEPT ![role] = <<frame>> \o @]
    PROVE  Arrives(role, frame)
  <1>1. PICK s : s = inbox[role]
    OBVIOUS
  <1>2. PICK t : t \in {Append(s, frame), <<frame>> \o s} /\ inbox' = [inbox EXCEPT ![role] = t]
    BY <1>1
  <1>3. IsSequence(t) /\ FramesIn(t) = FramesIn(s) \cup {frame}
    <2>1. IsSequence(s)
      BY <1>1 DEF Shape
    <2>2. CASE t = Append(s, frame)
      BY <2>1, <2>2, InboxFacts
    <2>3. CASE t = <<frame>> \o s
      BY <2>1, <2>3, InboxFacts
    <2> QED BY <1>2, <2>2, <2>3
  <1>4. /\ inbox'[role] = t /\ DOMAIN inbox' = Roles /\ DOMAIN delivered' = Roles
        /\ \A r \in Roles \ {role} : inbox'[r] = inbox[r]
    BY <1>2 DEF Shape
  <1>5. \A r \in Roles : IsSequence(inbox'[r])
    BY <1>3, <1>4 DEF Shape
  <1> QED BY <1>1, <1>3, <1>4, <1>5 DEF Arrives, Sent

\* A step that leaves the frames alone.
LEMMA StillFacts ==
    ASSUME Shape, UNCHANGED <<inbox, delivered>>
    PROVE  NoneArrives
  BY DEF Shape, NoneArrives, Sent

\* The updates of one field of a machine.
LEMMA FieldUpdates ==
    ASSUME NEW m, IsMachine(m), NEW x
    PROVE  /\ IsMachine([m EXCEPT !.state = x])
           /\ IsMachine([m EXCEPT !.remote = x])
           /\ IsMachine([m EXCEPT !.auth_path = x])
           /\ IsMachine([m EXCEPT !.link_version = x])
           /\ IsMachine([m EXCEPT !.link_capabilities = x])
           /\ IsMachine([m EXCEPT !.selected_protocols = x])
           /\ IsMachine([m EXCEPT !.pending = x])
           /\ IsMachine([m EXCEPT !.session_id = x])
  <1>1. IsMachine([m EXCEPT !.state = x])
    BY DEF IsMachine
  <1>2. IsMachine([m EXCEPT !.remote = x])
    BY DEF IsMachine
  <1>3. IsMachine([m EXCEPT !.auth_path = x])
    BY DEF IsMachine
  <1>4. IsMachine([m EXCEPT !.link_version = x])
    BY DEF IsMachine
  <1>5. IsMachine([m EXCEPT !.link_capabilities = x])
    BY DEF IsMachine
  <1>6. IsMachine([m EXCEPT !.selected_protocols = x])
    BY DEF IsMachine
  <1>7. IsMachine([m EXCEPT !.pending = x])
    BY DEF IsMachine
  <1>8. IsMachine([m EXCEPT !.session_id = x])
    BY DEF IsMachine
  <1> QED BY <1>1, <1>2, <1>3, <1>4, <1>5, <1>6, <1>7, <1>8

\* Updates by name.
InState(m, x)       == [m EXCEPT !.state = x]
WithPending(m, x)   == [m EXCEPT !.pending = x]
WithPath(m, x)      == [m EXCEPT !.auth_path = x]
WithSessionId(m, x) == [m EXCEPT !.session_id = x]
WithProtocols(m, x) == [m EXCEPT !.selected_protocols = x]

\* The machine changes its state only.
LEMMA StateUpdate ==
    ASSUME NEW m, IsMachine(m), NEW x,
           NEW n, n = [m EXCEPT !.state = x]
    PROVE  /\ IsMachine(n)
           /\ n.state = x /\ n.remote = m.remote
           /\ n.auth_path = m.auth_path /\ n.link_version = m.link_version
           /\ n.link_capabilities = m.link_capabilities /\ n.selected_protocols = m.selected_protocols
           /\ n.pending = m.pending /\ n.session_id = m.session_id
  <1>1. IsMachine(n)
    BY FieldUpdates
  <1> QED BY <1>1 DEF IsMachine

\* The machine changes its state and its path.
LEMMA PathUpdate ==
    ASSUME NEW m, IsMachine(m), NEW x, NEW y, NEW n, n = WithPath(InState(m, x), y)
    PROVE  IsMachine(n) /\ n.state = x /\ n.auth_path = y
  <1>1. PICK m1 : m1 = InState(m, x)
    OBVIOUS
  <1>2. IsMachine(m1) /\ m1.state = x
    BY <1>1, StateUpdate DEF InState
  <1>3. n = [m1 EXCEPT !.auth_path = y]
    BY <1>1 DEF WithPath
  <1>4. IsMachine([m1 EXCEPT !.auth_path = y])
    BY <1>2, FieldUpdates
  <1> QED BY <1>2, <1>3, <1>4 DEF IsMachine

\* The machine takes a selection.
LEMMA SelectionUpdate ==
    ASSUME NEW m, IsMachine(m), NEW x, NEW y, NEW z,
           NEW n, n = WithProtocols(WithSessionId(InState(m, x), y), z)
    PROVE  /\ IsMachine(n)
           /\ n.state = x /\ n.remote = m.remote
           /\ n.auth_path = m.auth_path /\ n.link_version = m.link_version
           /\ n.link_capabilities = m.link_capabilities /\ n.selected_protocols = z
           /\ n.session_id = y
  <1>1. PICK m1, m2 : m1 = InState(m, x) /\ m2 = WithSessionId(m1, y)
    OBVIOUS
  <1>2. /\ IsMachine(m1) /\ m1.state = x /\ m1.remote = m.remote
        /\ m1.auth_path = m.auth_path /\ m1.link_version = m.link_version
        /\ m1.link_capabilities = m.link_capabilities
    BY <1>1, StateUpdate DEF InState
  <1>3. /\ IsMachine(m2) /\ m2.state = x /\ m2.remote = m.remote
        /\ m2.auth_path = m.auth_path /\ m2.link_version = m.link_version
        /\ m2.link_capabilities = m.link_capabilities /\ m2.session_id = y
    <2>1. IsMachine([m1 EXCEPT !.session_id = y])
      BY <1>2, FieldUpdates
    <2>2. m2 = [m1 EXCEPT !.session_id = y]
      BY <1>1 DEF WithSessionId
    <2> QED BY <1>2, <2>1, <2>2 DEF IsMachine
  <1>4. n = [m2 EXCEPT !.selected_protocols = z]
    BY <1>1 DEF WithProtocols
  <1>5. IsMachine([m2 EXCEPT !.selected_protocols = z])
    BY <1>3, FieldUpdates
  <1> QED BY <1>3, <1>4, <1>5 DEF IsMachine

\* The machine takes a Hello.
LEMMA HelloUpdate ==
    ASSUME NEW m, IsMachine(m), NEW policy, NEW hello,
           NEW n, n = AfterHello(m, policy, hello)
    PROVE  /\ IsMachine(n)
           /\ n.state = "AwaitingProof" /\ n.remote = hello.identity
           /\ n.auth_path = hello.requested_auth
           /\ n.link_version = SharedVersion(policy.link_versions, hello.link_versions)
           /\ n.link_capabilities = policy.link_capabilities \cap hello.link_capabilities
           /\ n.selected_protocols =
                NegotiateProtocols(Catalog(policy, hello.requested_auth), hello.protocols)
           /\ n.session_id = m.session_id
  <1>1. PICK v, c, p :
          /\ v = SharedVersion(policy.link_versions, hello.link_versions)
          /\ c = policy.link_capabilities \cap hello.link_capabilities
          /\ p = NegotiateProtocols(Catalog(policy, hello.requested_auth), hello.protocols)
    OBVIOUS
  <1>2. PICK m0, m1 : /\ m0 = [m EXCEPT !.state = "AwaitingProof"]
                      /\ m1 = [m0 EXCEPT !.auth_path = hello.requested_auth]
    OBVIOUS
  <1>3. /\ IsMachine(m1) /\ m1.state = "AwaitingProof"
        /\ m1.auth_path = hello.requested_auth /\ m1.session_id = m.session_id
    <2>1. IsMachine(m0) /\ m0.state = "AwaitingProof" /\ m0.session_id = m.session_id
      BY <1>2, StateUpdate
    <2>2. IsMachine([m0 EXCEPT !.auth_path = hello.requested_auth])
      BY <2>1, FieldUpdates
    <2> QED BY <1>2, <2>1, <2>2 DEF IsMachine
  <1>4. PICK m2 : m2 = [m1 EXCEPT !.remote = hello.identity]
    OBVIOUS
  <1>5. /\ IsMachine(m2) /\ m2.state = m1.state /\ m2.auth_path = m1.auth_path
        /\ m2.session_id = m1.session_id /\ m2.remote = hello.identity
    <2>1. IsMachine([m1 EXCEPT !.remote = hello.identity])
      BY <1>3, FieldUpdates
    <2> QED BY <1>3, <1>4, <2>1 DEF IsMachine
  <1>6. PICK m3 : m3 = [m2 EXCEPT !.link_version = v]
    OBVIOUS
  <1>7. /\ IsMachine(m3) /\ m3.state = m1.state /\ m3.auth_path = m1.auth_path
        /\ m3.session_id = m1.session_id /\ m3.remote = hello.identity /\ m3.link_version = v
    <2>1. IsMachine([m2 EXCEPT !.link_version = v])
      BY <1>5, FieldUpdates
    <2> QED BY <1>5, <1>6, <2>1 DEF IsMachine
  <1>8. PICK m4 : m4 = [m3 EXCEPT !.link_capabilities = c]
    OBVIOUS
  <1>9. /\ IsMachine(m4) /\ m4.state = m1.state /\ m4.auth_path = m1.auth_path
        /\ m4.session_id = m1.session_id /\ m4.remote = hello.identity /\ m4.link_version = v
        /\ m4.link_capabilities = c
    <2>1. IsMachine([m3 EXCEPT !.link_capabilities = c])
      BY <1>7, FieldUpdates
    <2> QED BY <1>7, <1>8, <2>1 DEF IsMachine
  <1>10. PICK m5 : m5 = [m4 EXCEPT !.selected_protocols = p]
    OBVIOUS
  <1>11. /\ IsMachine(m5) /\ m5.state = m1.state /\ m5.auth_path = m1.auth_path
         /\ m5.session_id = m1.session_id /\ m5.remote = hello.identity /\ m5.link_version = v
         /\ m5.link_capabilities = c /\ m5.selected_protocols = p
    <2>1. IsMachine([m4 EXCEPT !.selected_protocols = p])
      BY <1>9, FieldUpdates
    <2> QED BY <1>9, <1>10, <2>1 DEF IsMachine
  <1>12. n = m5
    <2>1. n = [m EXCEPT !.state = "AwaitingProof", !.remote = hello.identity,
                        !.auth_path = hello.requested_auth, !.link_version = v,
                        !.link_capabilities = c, !.selected_protocols = p]
      BY <1>1 DEF AfterHello
    <2> QED BY <1>2, <1>4, <1>6, <1>8, <1>10, <2>1
  <1> QED BY <1>1, <1>3, <1>11, <1>12

\* The machine takes a Challenge.
LEMMA ChallengeUpdate ==
    ASSUME NEW m, IsMachine(m), NEW policy, NEW challenge,
           NEW n, n = AfterChallenge(m, policy, challenge)
    PROVE  /\ IsMachine(n)
           /\ n.state = "AwaitingSelection" /\ n.remote = challenge.responder
           /\ n.auth_path = m.auth_path
           /\ n.link_version = {challenge.link_version}
           /\ n.link_capabilities = challenge.link_capabilities
  <1>1. PICK m1 : m1 = [m EXCEPT !.state = "AwaitingSelection"]
    OBVIOUS
  <1>2. IsMachine(m1) /\ m1.state = "AwaitingSelection" /\ m1.auth_path = m.auth_path
    BY <1>1, StateUpdate
  <1>3. PICK m2 : m2 = [m1 EXCEPT !.remote = challenge.responder]
    OBVIOUS
  <1>4. /\ IsMachine(m2) /\ m2.state = "AwaitingSelection" /\ m2.auth_path = m.auth_path
        /\ m2.remote = challenge.responder
    <2>1. IsMachine([m1 EXCEPT !.remote = challenge.responder])
      BY <1>2, FieldUpdates
    <2> QED BY <1>2, <1>3, <2>1 DEF IsMachine
  <1>5. PICK m3 : m3 = [m2 EXCEPT !.link_version = {challenge.link_version}]
    OBVIOUS
  <1>6. /\ IsMachine(m3) /\ m3.state = "AwaitingSelection" /\ m3.auth_path = m.auth_path
        /\ m3.remote = challenge.responder /\ m3.link_version = {challenge.link_version}
    <2>1. IsMachine([m2 EXCEPT !.link_version = {challenge.link_version}])
      BY <1>4, FieldUpdates
    <2> QED BY <1>4, <1>5, <2>1 DEF IsMachine
  <1>7. PICK m4 : m4 = [m3 EXCEPT !.link_capabilities = challenge.link_capabilities]
    OBVIOUS
  <1>8. /\ IsMachine(m4) /\ m4.state = "AwaitingSelection" /\ m4.auth_path = m.auth_path
        /\ m4.remote = challenge.responder /\ m4.link_version = {challenge.link_version}
        /\ m4.link_capabilities = challenge.link_capabilities
    <2>1. IsMachine([m3 EXCEPT !.link_capabilities = challenge.link_capabilities])
      BY <1>6, FieldUpdates
    <2> QED BY <1>6, <1>7, <2>1 DEF IsMachine
  <1>9. n = m4
    BY <1>1, <1>3, <1>5, <1>7 DEF AfterChallenge
  <1> QED BY <1>8, <1>9

-----------------------------------------------------------------------------
(* The kinds of step. *)

\* What a machine has negotiated: all of it but its progress.
SameTerms(n, m) ==
    /\ n.remote = m.remote /\ n.auth_path = m.auth_path
    /\ n.link_version = m.link_version /\ n.link_capabilities = m.link_capabilities
    /\ n.selected_protocols = m.selected_protocols /\ n.session_id = m.session_id

\* Only this role's machine changes.
Moves(role) ==
    /\ DOMAIN machine' = Roles
    /\ IsMachine(machine'[role])
    /\ \A r \in Roles \ {role} : machine'[r] = machine[r]

\* The role goes to a state and keeps what it negotiated.
Turns(role, state) ==
    /\ Moves(role)
    /\ machine'[role].state = state
    /\ SameTerms(machine'[role], machine[role])

Announces(role) ==
    /\ DOMAIN sessions' = Roles
    /\ sessions'[role] = sessions[role] \cup {NegotiatedSession(role, machine[role])}
    /\ \A r \in Roles \ {role} : sessions'[r] = sessions[r]

SettingKept == UNCHANGED <<config, disturbance>>

Fails(role) ==
    /\ Turns(role, "Failed")
    /\ NoneArrives
    /\ SettingKept
    /\ UNCHANGED <<requested, verified, sessions>>

\* The machines stay as they are; a frame may come from a failed owner, from a
\* stranger, or be one that was sent before.
Idles ==
    /\ \/ NoneArrives
       \/ \E role \in Roles : \E frame :
             /\ Arrives(role, frame)
             /\ WellTyped(frame)
             /\ frame.type = "Reject" \/ disturbance \in Roles
    /\ SettingKept
    /\ UNCHANGED <<machine, requested, verified, sessions>>

HelloFrame(path) ==
    [ type |-> "Hello", identity |-> config["Initiator"].identity,
      link_versions |-> Policy("Initiator").link_versions,
      link_capabilities |-> Policy("Initiator").link_capabilities,
      protocols |-> Catalog(Policy("Initiator"), path), requested_auth |-> path ]

Starts(path) ==
    /\ machine["Initiator"].state = "Ready"
    /\ Moves("Initiator")
    /\ machine'["Initiator"].state = "AwaitingChallenge"
    /\ machine'["Initiator"].auth_path = path
    /\ Arrives("Responder", HelloFrame(path))
    /\ SettingKept
    /\ UNCHANGED <<requested, verified, sessions>>

\* The challenge of a responder whose machine is m.
ChallengeFrame(m) ==
    [ type |-> "Challenge", responder |-> config["Responder"].identity,
      link_version |-> CHOOSE v \in m.link_version : TRUE,
      link_capabilities |-> m.link_capabilities,
      auth_path |-> m.auth_path ]

Greets(hello) ==
    LET policy == Policy("Responder")
        n      == machine'["Responder"]
    IN  /\ hello \in Sent("Responder") /\ hello.type = "Hello"
        /\ machine["Responder"].state = "AwaitingHello"
        /\ HelloError(policy, hello) = None
        /\ Moves("Responder")
        /\ n.state = "AwaitingProof"
        /\ n.remote = hello.identity
        /\ n.auth_path = hello.requested_auth
        /\ n.link_version = SharedVersion(policy.link_versions, hello.link_versions)
        /\ n.link_capabilities = policy.link_capabilities \cap hello.link_capabilities
        /\ n.selected_protocols =
               NegotiateProtocols(Catalog(policy, hello.requested_auth), hello.protocols)
        /\ Arrives("Initiator", ChallengeFrame(n))
        /\ SettingKept
        /\ UNCHANGED <<requested, verified, sessions>>

Challenged(challenge) ==
    LET n == machine'["Initiator"]
    IN  /\ challenge \in Sent("Initiator") /\ challenge.type = "Challenge"
        /\ machine["Initiator"].state = "AwaitingChallenge"
        /\ ChallengeAcceptable(machine["Initiator"], Policy("Initiator"), challenge)
        /\ Moves("Initiator")
        /\ n.state = "AwaitingSelection"
        /\ n.remote = challenge.responder
        /\ n.auth_path = machine["Initiator"].auth_path
        /\ n.link_version = {challenge.link_version}
        /\ n.link_capabilities = challenge.link_capabilities
        /\ Arrives("Responder",
                   [type |-> "IdentityProof", length |-> config["Initiator"].proof_length])
        /\ SettingKept
        /\ UNCHANGED <<requested, verified, sessions>>

Proves ==
    /\ machine["Responder"].state = "AwaitingProof"
    /\ Turns("Responder", "AwaitingVerification")
    /\ NoneArrives
    /\ requested' = requested + 1
    /\ SettingKept
    /\ UNCHANGED <<verified, sessions>>

Accepts ==
    /\ machine["Responder"].state = "AwaitingVerification"
    /\ Turns("Responder", "AwaitingConfirmation")
    /\ Arrives("Initiator", [type |-> "Selection",
                             session_id |-> machine["Responder"].session_id,
                             protocols |-> machine["Responder"].selected_protocols])
    /\ verified' = TRUE
    /\ SettingKept
    /\ UNCHANGED <<requested, sessions>>

Selects(selection) ==
    LET m == machine["Initiator"]
        n == machine'["Initiator"]
    IN  /\ selection \in Sent("Initiator") /\ selection.type = "Selection"
        /\ m.state = "AwaitingSelection"
        /\ SelectionError(m, Policy("Initiator"), selection.protocols) = None
        /\ Moves("Initiator")
        /\ n.state = "AwaitingConfirmed"
        /\ n.remote = m.remote /\ n.auth_path = m.auth_path
        /\ n.link_version = m.link_version /\ n.link_capabilities = m.link_capabilities
        /\ n.session_id = selection.session_id
        /\ n.selected_protocols = selection.protocols
        /\ Arrives("Responder", [type |-> "Confirm", session_id |-> selection.session_id])
        /\ SettingKept
        /\ UNCHANGED <<requested, verified, sessions>>

Confirms ==
    /\ machine["Responder"].state = "AwaitingConfirmation"
    /\ Turns("Responder", "Established")
    /\ Arrives("Initiator",
               [type |-> "Confirmed", session_id |-> machine["Responder"].session_id])
    /\ Announces("Responder")
    /\ SettingKept
    /\ UNCHANGED <<requested, verified>>

Concludes(confirmed) ==
    /\ confirmed \in Sent("Initiator") /\ confirmed.type = "Confirmed"
    /\ machine["Initiator"].state = "AwaitingConfirmed"
    /\ Turns("Initiator", "Established")
    /\ NoneArrives
    /\ Announces("Initiator")
    /\ SettingKept
    /\ UNCHANGED <<requested, verified>>

StepCase ==
    \/ \E role \in Roles : Fails(role)
    \/ Idles
    \/ \E path \in AuthPaths : Starts(path)
    \/ \E hello : Greets(hello)
    \/ \E challenge : Challenged(challenge)
    \/ Proves
    \/ Accepts
    \/ \E selection : Selects(selection)
    \/ Confirms
    \/ \E confirmed : Concludes(confirmed)

\* One machine is replaced.
LEMMA Replaces ==
    ASSUME Shape, NEW role \in Roles, NEW n, IsMachine(n),
           machine' = [machine EXCEPT ![role] = n]
    PROVE  Moves(role) /\ machine'[role] = n
  BY DEF Shape, Moves

\* fail() keeps everything but the state.
LEMMA FailTurns ==
    ASSUME Shape, NEW role \in Roles, NEW kind, Fail(role, kind)
    PROVE  Turns(role, "Failed")
  <1>1. PICK m, n : m = machine[role] /\ n = [m EXCEPT !.state = "Failed"]
    OBVIOUS
  <1>2. IsMachine(n) /\ n.state = "Failed" /\ SameTerms(n, m)
    <2>1. IsMachine(m)
      BY <1>1 DEF Shape
    <2> QED BY <1>1, <2>1, StateUpdate DEF SameTerms
  <1>3. machine' = [machine EXCEPT ![role] = n]
    BY <1>1 DEF Fail
  <1>4. Moves(role) /\ machine'[role] = n
    BY <1>2, <1>3, Replaces
  <1> QED BY <1>1, <1>2, <1>4 DEF Turns

\* The machine changes its state and whether a verification is pending.
LEMMA PendingUpdate ==
    ASSUME NEW m, IsMachine(m), NEW x, NEW y, NEW n, n = WithPending(InState(m, x), y)
    PROVE  IsMachine(n) /\ n.state = x /\ SameTerms(n, m)
  <1>1. PICK m1 : m1 = InState(m, x)
    OBVIOUS
  <1>2. IsMachine(m1) /\ m1.state = x /\ SameTerms(m1, m)
    BY <1>1, StateUpdate DEF InState, SameTerms
  <1>3. n = [m1 EXCEPT !.pending = y]
    BY <1>1 DEF WithPending
  <1>4. IsMachine([m1 EXCEPT !.pending = y])
    BY <1>2, FieldUpdates
  <1> QED BY <1>2, <1>3, <1>4 DEF IsMachine, SameTerms

\* A machine that keeps its terms takes the place of the role's machine.
LEMMA ReplacesTurns ==
    ASSUME Shape, NEW role \in Roles, NEW x, NEW n,
           IsMachine(n), n.state = x, SameTerms(n, machine[role]),
           machine' = [machine EXCEPT ![role] = n]
    PROVE  Turns(role, x)
  <1>1. Moves(role) /\ machine'[role] = n
    BY Replaces
  <1> QED BY <1>1 DEF Turns

\* A role announces a session of the terms it had.
LEMMA AnnounceFacts ==
    ASSUME Shape, NEW role \in Roles, NEW n, n = [machine[role] EXCEPT !.state = "Established"],
           machine' = [machine EXCEPT ![role] = n], Announce(role, n)
    PROVE  Turns(role, "Established") /\ Announces(role)
  <1>1. PICK m : m = machine[role]
    OBVIOUS
  <1>2. IsMachine(n) /\ n.state = "Established" /\ SameTerms(n, m)
    <2>1. IsMachine(m)
      BY <1>1 DEF Shape
    <2> QED BY <1>1, <2>1, StateUpdate DEF SameTerms
  <1>3. Moves(role) /\ machine'[role] = n
    BY <1>2, Replaces
  <1>4. NegotiatedSession(role, n) = NegotiatedSession(role, m)
    BY <1>2 DEF NegotiatedSession, SameTerms
  <1>5. Announces(role)
    <2>1. PICK t : t = NegotiatedSession(role, m)
      OBVIOUS
    <2>2. sessions' = [sessions EXCEPT ![role] = @ \cup {t}]
      BY <1>4, <2>1 DEF Announce
    <2> QED BY <1>1, <2>1, <2>2 DEF Announces, Shape
  <1> QED BY <1>1, <1>2, <1>3, <1>5 DEF Turns

-----------------------------------------------------------------------------
(* Every step is of one of these kinds. *)

\* start fails, or sends a hello whose offers are within the policy.
LEMMA StartCase ==
    ASSUME Shape, NEW path \in AuthPaths, Start(path)
    PROVE  \/ Fails("Initiator") /\ UNCHANGED inbox
           \/ /\ Starts(path) /\ Send("Initiator", HelloFrame(path))
              /\ Len(Catalog(Policy("Initiator"), path))
                    <= Policy("Initiator").max_protocol_offers
  <1>1. /\ machine["Initiator"].state = "Ready"
        /\ SettingKept
        /\ UNCHANGED <<delivered, requested, verified, sessions>>
    BY DEF Start, SettingKept, setting
  <1>2. CASE UNCHANGED inbox /\ \E kind : Fail("Initiator", kind)
    <2>1. Turns("Initiator", "Failed")
      BY <1>2, FailTurns DEF Roles
    <2>2. NoneArrives
      BY <1>1, <1>2, StillFacts
    <2> QED BY <1>1, <1>2, <2>1, <2>2 DEF Fails
  <1>3. CASE /\ machine' = [machine EXCEPT !["Initiator"].state = "AwaitingChallenge",
                                           !["Initiator"].auth_path = path]
             /\ Send("Initiator", HelloFrame(path))
             /\ Len(Catalog(Policy("Initiator"), path))
                   <= Policy("Initiator").max_protocol_offers
    <2>1. PICK m, n : /\ m = machine["Initiator"]
                      /\ n = WithPath(InState(m, "AwaitingChallenge"), path)
      OBVIOUS
    <2>2. machine' = [machine EXCEPT !["Initiator"] = n]
      BY <1>3, <2>1 DEF InState, WithPath, WithPending
    <2>3. IsMachine(m)
      BY <2>1 DEF Shape, Roles
    <2>4. IsMachine(n) /\ n.state = "AwaitingChallenge" /\ n.auth_path = path
      BY <2>1, <2>3, PathUpdate
    <2>5. Moves("Initiator") /\ machine'["Initiator"] = n
      BY <2>2, <2>4, Replaces DEF Roles
    <2>6. PICK f : f = HelloFrame(path)
      OBVIOUS
    <2>7. inbox' = [inbox EXCEPT !["Responder"] = Append(@, f)]
      BY <1>3, <2>6, OtherFacts DEF Send
    <2>8. Arrives("Responder", f)
      BY <1>1, <2>7, PutFacts DEF Roles
    <2>9. Starts(path)
      BY <1>1, <2>4, <2>5, <2>6, <2>8 DEF Starts
    <2> QED BY <1>3, <2>9
  <1> QED BY <1>2, <1>3 DEF Start, HelloFrame

\* receive of a hello fails, or answers it with a challenge.
LEMMA HelloCase ==
    ASSUME Shape, ReceiveHello
    PROVE  \/ Fails("Responder")
           \/ /\ Greets(Head(inbox["Responder"]))
              /\ TakeAndSend("Responder", "Hello", ChallengeFrame(machine'["Responder"]))
  <1>1. PICK m, hello, policy, next :
          /\ m = machine["Responder"] /\ hello = Head(inbox["Responder"])
          /\ policy = Policy("Responder") /\ next = AfterHello(m, policy, hello)
    OBVIOUS
  <1>2. /\ m.state = "AwaitingHello"
        /\ SettingKept
        /\ UNCHANGED <<requested, verified, sessions>>
    BY <1>1 DEF ReceiveHello, SettingKept, setting
  <1>3. CASE /\ TakeOnly("Responder", "Hello")
             /\ Fail("Responder", HelloError(policy, hello))
    <2>1. Turns("Responder", "Failed")
      BY <1>3, FailTurns DEF Roles
    <2>2. NoneArrives
      BY <1>3, TakeOnlyFacts DEF Roles
    <2> QED BY <1>2, <2>1, <2>2 DEF Fails
  <1>4. PICK f : f = ChallengeFrame(next)
    OBVIOUS
  <1>5. CASE /\ HelloError(policy, hello) = None
             /\ TakeAndSend("Responder", "Hello", f)
             /\ machine' = [machine EXCEPT !["Responder"] = next]
    <2>1. IsMachine(m)
      BY <1>1 DEF Shape, Roles
    <2>2. /\ IsMachine(next)
          /\ next.state = "AwaitingProof"
          /\ next.remote = hello.identity
          /\ next.auth_path = hello.requested_auth
          /\ next.link_version = SharedVersion(policy.link_versions, hello.link_versions)
          /\ next.link_capabilities = policy.link_capabilities \cap hello.link_capabilities
          /\ next.selected_protocols =
               NegotiateProtocols(Catalog(policy, hello.requested_auth), hello.protocols)
      BY <1>1, <2>1, HelloUpdate
    <2>3. Moves("Responder") /\ machine'["Responder"] = next
      BY <1>5, <2>2, Replaces DEF Roles
    <2>4. /\ hello \in Sent("Responder") /\ hello.type = "Hello"
          /\ Arrives("Initiator", f)
      BY <1>1, <1>5, OtherFacts, TakeAndSendFacts DEF Roles
    <2>5. Greets(hello)
      BY <1>1, <1>2, <1>4, <1>5, <2>2, <2>3, <2>4 DEF Greets
    <2> QED BY <1>1, <1>4, <1>5, <2>3, <2>5
  <1> QED BY <1>1, <1>3, <1>4, <1>5 DEF ReceiveHello, ChallengeFrame

\* receive of a challenge fails when the challenge is not acceptable, or answers with a proof.
LEMMA ChallengeCase ==
    ASSUME Shape, ReceiveChallenge
    PROVE  LET challenge == Head(inbox["Initiator"])
               good      == ChallengeAcceptable(machine["Initiator"], Policy("Initiator"), challenge)
           IN  \/ ~ good /\ Fails("Initiator")
               \/ /\ Challenged(challenge)
                  /\ TakeAndSend("Initiator", "Challenge",
                        [type |-> "IdentityProof", length |-> config["Initiator"].proof_length])
  <1>1. PICK m, challenge, policy, next :
          /\ m = machine["Initiator"] /\ challenge = Head(inbox["Initiator"])
          /\ policy = Policy("Initiator") /\ next = AfterChallenge(m, policy, challenge)
    OBVIOUS
  <1>2. /\ m.state = "AwaitingChallenge"
        /\ SettingKept
        /\ UNCHANGED <<requested, verified, sessions>>
    BY <1>1 DEF ReceiveChallenge, SettingKept, setting
  <1>3. CASE /\ TakeOnly("Initiator", "Challenge")
             /\ ~ ChallengeAcceptable(m, policy, challenge)
             /\ Fail("Initiator", "IncompatibleVersion")
    <2>1. Turns("Initiator", "Failed")
      BY <1>3, FailTurns DEF Roles
    <2>2. NoneArrives
      BY <1>3, TakeOnlyFacts DEF Roles
    <2> QED BY <1>1, <1>2, <1>3, <2>1, <2>2 DEF Fails
  <1>4. PICK f : f = [type |-> "IdentityProof", length |-> config["Initiator"].proof_length]
    OBVIOUS
  <1>5. CASE /\ TakeAndSend("Initiator", "Challenge", f)
             /\ ChallengeAcceptable(m, policy, challenge)
             /\ machine' = [machine EXCEPT !["Initiator"] = next]
    <2>1. IsMachine(m)
      BY <1>1 DEF Shape, Roles
    <2>2. /\ IsMachine(next)
          /\ next.state = "AwaitingSelection" /\ next.remote = challenge.responder
          /\ next.auth_path = m.auth_path
          /\ next.link_version = {challenge.link_version}
          /\ next.link_capabilities = challenge.link_capabilities
      BY <1>1, <2>1, ChallengeUpdate
    <2>3. Moves("Initiator") /\ machine'["Initiator"] = next
      BY <1>5, <2>2, Replaces DEF Roles
    <2>4. /\ challenge \in Sent("Initiator") /\ challenge.type = "Challenge"
          /\ Arrives("Responder", f)
      BY <1>1, <1>5, OtherFacts, TakeAndSendFacts DEF Roles
    <2>5. Challenged(challenge)
      BY <1>1, <1>2, <1>4, <1>5, <2>2, <2>3, <2>4 DEF Challenged
    <2> QED BY <1>1, <1>4, <1>5, <2>5
  <1> QED BY <1>1, <1>3, <1>4, <1>5 DEF ReceiveChallenge

\* receive of an identity proof fails, or waits for the owner's decision.
LEMMA ProofCase ==
    ASSUME Shape, ReceiveProof
    PROVE  /\ Fails("Responder") \/ Proves
           /\ TakeOnly("Responder", "IdentityProof")
  <1>1. /\ machine["Responder"].state = "AwaitingProof"
        /\ TakeOnly("Responder", "IdentityProof")
        /\ SettingKept
        /\ UNCHANGED <<verified, sessions>>
    BY DEF ReceiveProof, SettingKept, setting
  <1>2. NoneArrives
    BY <1>1, TakeOnlyFacts DEF Roles
  <1>3. CASE Fail("Responder", "LimitExceeded") /\ UNCHANGED requested
    <2>1. Turns("Responder", "Failed")
      BY <1>3, FailTurns DEF Roles
    <2> QED BY <1>1, <1>2, <1>3, <2>1 DEF Fails
  <1>4. CASE /\ machine' = [machine EXCEPT !["Responder"].state = "AwaitingVerification",
                                           !["Responder"].pending = TRUE]
             /\ requested' = requested + 1
    <2>1. PICK m, n : /\ m = machine["Responder"]
                      /\ n = WithPending(InState(m, "AwaitingVerification"), TRUE)
      OBVIOUS
    <2>2. machine' = [machine EXCEPT !["Responder"] = n]
      BY <1>4, <2>1 DEF InState, WithPath, WithPending
    <2>3. IsMachine(m)
      BY <2>1 DEF Shape, Roles
    <2>4. IsMachine(n) /\ n.state = "AwaitingVerification" /\ SameTerms(n, m)
      BY <2>1, <2>3, PendingUpdate, ZenonT(60)
    <2>5. Turns("Responder", "AwaitingVerification")
      BY <2>1, <2>2, <2>4, ReplacesTurns DEF Roles
    <2> QED BY <1>1, <1>2, <1>4, <2>5 DEF Proves
  <1> QED BY <1>1, <1>3, <1>4 DEF ReceiveProof

\* decide_identity fails, or sends the selection.
LEMMA DecideCase ==
    ASSUME Shape, NEW decision, DecideIdentity(decision)
    PROVE  \/ Fails("Responder")
           \/ /\ Accepts
              /\ Send("Responder", [type |-> "Selection",
                                    session_id |-> machine["Responder"].session_id,
                                    protocols |-> machine["Responder"].selected_protocols])
  <1>1. /\ machine["Responder"].state = "AwaitingVerification"
        /\ SettingKept
        /\ UNCHANGED <<delivered, requested, sessions>>
    BY DEF DecideIdentity, SettingKept, setting
  <1>2. CASE /\ machine' = [machine EXCEPT !["Responder"].state = "Failed",
                                           !["Responder"].pending = FALSE]
             /\ UNCHANGED <<inbox, verified>>
    <2>1. PICK m, n : /\ m = machine["Responder"]
                      /\ n = WithPending(InState(m, "Failed"), FALSE)
      OBVIOUS
    <2>2. machine' = [machine EXCEPT !["Responder"] = n]
      BY <1>2, <2>1 DEF InState, WithPath, WithPending
    <2>3. IsMachine(m)
      BY <2>1 DEF Shape, Roles
    <2>4. IsMachine(n) /\ n.state = "Failed" /\ SameTerms(n, m)
      BY <2>1, <2>3, PendingUpdate, ZenonT(60)
    <2>5. Turns("Responder", "Failed")
      BY <2>1, <2>2, <2>4, ReplacesTurns DEF Roles
    <2>6. NoneArrives
      BY <1>1, <1>2, StillFacts
    <2> QED BY <1>1, <1>2, <2>5, <2>6 DEF Fails
  <1>3. PICK f : f = [type |-> "Selection",
                      session_id |-> machine["Responder"].session_id,
                      protocols |-> machine["Responder"].selected_protocols]
    OBVIOUS
  <1>4. CASE /\ machine' = [machine EXCEPT !["Responder"].state = "AwaitingConfirmation",
                                           !["Responder"].pending = FALSE]
             /\ Send("Responder", f)
             /\ verified' = TRUE
    <2>1. PICK m, n : /\ m = machine["Responder"]
                      /\ n = WithPending(InState(m, "AwaitingConfirmation"), FALSE)
      OBVIOUS
    <2>2. machine' = [machine EXCEPT !["Responder"] = n]
      BY <1>4, <2>1 DEF InState, WithPath, WithPending
    <2>3. IsMachine(m)
      BY <2>1 DEF Shape, Roles
    <2>4. IsMachine(n) /\ n.state = "AwaitingConfirmation" /\ SameTerms(n, m)
      BY <2>1, <2>3, PendingUpdate, ZenonT(60)
    <2>5. Turns("Responder", "AwaitingConfirmation")
      BY <2>1, <2>2, <2>4, ReplacesTurns DEF Roles
    <2>6. inbox' = [inbox EXCEPT !["Initiator"] = Append(@, f)]
      BY <1>4, OtherFacts DEF Send
    <2>7. Arrives("Initiator", f)
      BY <1>1, <2>6, PutFacts DEF Roles
    <2> QED BY <1>1, <1>3, <1>4, <2>5, <2>7 DEF Accepts
  <1> QED BY <1>2, <1>3, <1>4 DEF DecideIdentity

\* receive of a selection fails when validate_selection finds a fault, or confirms.
LEMMA SelectionCase ==
    ASSUME Shape, ReceiveSelection
    PROVE  LET selection == Head(inbox["Initiator"])
               fault     == SelectionError(machine["Initiator"], Policy("Initiator"),
                                           selection.protocols)
           IN  \/ fault # None /\ Fails("Initiator")
               \/ /\ Selects(selection)
                  /\ TakeAndSend("Initiator", "Selection",
                                 [type |-> "Confirm", session_id |-> selection.session_id])
  <1>1. PICK m, selection, policy :
          /\ m = machine["Initiator"] /\ selection = Head(inbox["Initiator"])
          /\ policy = Policy("Initiator")
    OBVIOUS
  <1>2. /\ m.state = "AwaitingSelection"
        /\ SettingKept
        /\ UNCHANGED <<requested, verified, sessions>>
    BY <1>1 DEF ReceiveSelection, SettingKept, setting
  <1>3. CASE /\ TakeOnly("Initiator", "Selection")
             /\ SelectionError(m, policy, selection.protocols) # None
             /\ Fail("Initiator", SelectionError(m, policy, selection.protocols))
    <2>1. Turns("Initiator", "Failed")
      BY <1>3, FailTurns DEF Roles
    <2>2. NoneArrives
      BY <1>3, TakeOnlyFacts DEF Roles
    <2> QED BY <1>1, <1>2, <1>3, <2>1, <2>2 DEF Fails
  <1>4. PICK f, n :
          /\ f = [type |-> "Confirm", session_id |-> selection.session_id]
          /\ n = WithProtocols(WithSessionId(InState(m, "AwaitingConfirmed"),
                                             selection.session_id), selection.protocols)
    OBVIOUS
  <1>5. CASE /\ SelectionError(m, policy, selection.protocols) = None
             /\ TakeAndSend("Initiator", "Selection", f)
             /\ machine' = [machine EXCEPT !["Initiator"] = n]
    <2>1. IsMachine(m)
      BY <1>1 DEF Shape, Roles
    <2>2. /\ IsMachine(n)
          /\ n.state = "AwaitingConfirmed" /\ n.remote = m.remote
          /\ n.auth_path = m.auth_path /\ n.link_version = m.link_version
          /\ n.link_capabilities = m.link_capabilities
          /\ n.selected_protocols = selection.protocols
          /\ n.session_id = selection.session_id
      BY <1>4, <2>1, SelectionUpdate
    <2>3. Moves("Initiator") /\ machine'["Initiator"] = n
      BY <1>5, <2>2, Replaces DEF Roles
    <2>4. /\ selection \in Sent("Initiator") /\ selection.type = "Selection"
          /\ Arrives("Responder", f)
      BY <1>1, <1>5, OtherFacts, TakeAndSendFacts DEF Roles
    <2>5. Selects(selection)
      BY <1>1, <1>2, <1>4, <1>5, <2>2, <2>3, <2>4 DEF Selects
    <2> QED BY <1>1, <1>4, <1>5, <2>5
  <1>6. CASE /\ SelectionError(m, policy, selection.protocols) = None
             /\ TakeAndSend("Initiator", "Selection",
                            [type |-> "Confirm", session_id |-> selection.session_id])
             /\ machine' = [machine EXCEPT !["Initiator"] =
                    [m EXCEPT !.state = "AwaitingConfirmed",
                              !.session_id = selection.session_id,
                              !.selected_protocols = selection.protocols]]
    <2>1. machine' = [machine EXCEPT !["Initiator"] = n]
      BY <1>4, <1>6 DEF InState, WithSessionId, WithProtocols
    <2> QED BY <1>4, <1>5, <1>6, <2>1
  <1> QED BY <1>1, <1>3, <1>6 DEF ReceiveSelection

\* receive of a confirmation fails, or ends the responder's part with an answer.
LEMMA ConfirmCase ==
    ASSUME Shape, ReceiveConfirm
    PROVE  \/ Fails("Responder")
           \/ /\ Confirms
              /\ TakeAndSend("Responder", "Confirm",
                    [type |-> "Confirmed", session_id |-> machine["Responder"].session_id])
  <1>1. PICK m, n : m = machine["Responder"] /\ n = [m EXCEPT !.state = "Established"]
    OBVIOUS
  <1>2. /\ m.state = "AwaitingConfirmation"
        /\ SettingKept
        /\ UNCHANGED <<requested, verified>>
    BY <1>1 DEF ReceiveConfirm, SettingKept, setting
  <1>3. CASE /\ TakeOnly("Responder", "Confirm")
             /\ Fail("Responder", "InvalidConfirmation")
             /\ UNCHANGED sessions
    <2>1. Turns("Responder", "Failed")
      BY <1>3, FailTurns DEF Roles
    <2>2. NoneArrives
      BY <1>3, TakeOnlyFacts DEF Roles
    <2> QED BY <1>2, <1>3, <2>1, <2>2 DEF Fails
  <1>4. PICK f : f = [type |-> "Confirmed", session_id |-> m.session_id]
    OBVIOUS
  <1>5. CASE /\ TakeAndSend("Responder", "Confirm", f)
             /\ machine' = [machine EXCEPT !["Responder"] = n]
             /\ Announce("Responder", n)
    <2>1. Turns("Responder", "Established") /\ Announces("Responder")
      BY <1>1, <1>5, AnnounceFacts DEF Roles
    <2>2. Arrives("Initiator", f)
      BY <1>5, OtherFacts, TakeAndSendFacts DEF Roles
    <2>3. Confirms
      BY <1>1, <1>2, <1>4, <2>1, <2>2 DEF Confirms
    <2> QED BY <1>1, <1>4, <1>5, <2>3
  <1> QED BY <1>1, <1>3, <1>4, <1>5 DEF ReceiveConfirm

\* receive of the last frame fails on another session id, or ends the initiator's part.
LEMMA ConfirmedCase ==
    ASSUME Shape, ReceiveConfirmed
    PROVE  /\ TakeOnly("Initiator", "Confirmed")
           /\ \/ /\ Head(inbox["Initiator"]).session_id # machine["Initiator"].session_id
                 /\ Fails("Initiator")
              \/ Concludes(Head(inbox["Initiator"]))
  <1>1. PICK m, n, f : /\ m = machine["Initiator"] /\ n = [m EXCEPT !.state = "Established"]
                       /\ f = Head(inbox["Initiator"])
    OBVIOUS
  <1>2. /\ m.state = "AwaitingConfirmed"
        /\ TakeOnly("Initiator", "Confirmed")
        /\ SettingKept
        /\ UNCHANGED <<requested, verified>>
    BY <1>1 DEF ReceiveConfirmed, SettingKept, setting
  <1>3. f \in Sent("Initiator") /\ f.type = "Confirmed" /\ NoneArrives
    BY <1>1, <1>2, TakeOnlyFacts DEF Roles
  <1>4. CASE /\ Head(inbox["Initiator"]).session_id # m.session_id
             /\ Fail("Initiator", "InvalidConfirmation")
             /\ UNCHANGED sessions
    <2>1. Turns("Initiator", "Failed")
      BY <1>4, FailTurns DEF Roles
    <2> QED BY <1>1, <1>2, <1>3, <1>4, <2>1 DEF Fails
  <1>5. CASE /\ machine' = [machine EXCEPT !["Initiator"] = n]
             /\ Announce("Initiator", n)
    <2>1. Turns("Initiator", "Established") /\ Announces("Initiator")
      BY <1>1, <1>5, AnnounceFacts DEF Roles
    <2>2. Concludes(f)
      BY <1>1, <1>2, <1>3, <2>1 DEF Concludes
    <2> QED BY <1>1, <1>2, <2>2
  <1> QED BY <1>1, <1>2, <1>4, <1>5 DEF ReceiveConfirmed

\* Rejections, frames out of turn and calls out of turn fail the machine.
LEMMA FailureCase ==
    ASSUME Shape, NEW role \in Roles,
           \/ ReceiveReject(role) \/ ReceiveUnexpected(role)
           \/ StartOutOfTurn(role) \/ DecideOutOfTurn(role)
    PROVE  Fails(role)
  <1>1. /\ \E kind : Fail(role, kind)
        /\ SettingKept
        /\ UNCHANGED <<requested, verified, sessions>>
    BY DEF ReceiveReject, ReceiveUnexpected, StartOutOfTurn, DecideOutOfTurn, SettingKept, setting
  <1>2. (\E type : TakeOnly(role, type)) \/ UNCHANGED <<inbox, delivered>>
    BY DEF ReceiveReject, ReceiveUnexpected, StartOutOfTurn, DecideOutOfTurn
  <1>3. NoneArrives
    BY <1>2, TakeOnlyFacts, StillFacts
  <1>4. Turns(role, "Failed")
    BY <1>1, FailTurns
  <1> QED BY <1>1, <1>3, <1>4 DEF Fails

\* The owners' and the network's steps leave both machines alone.
LEMMA IdleCase ==
    ASSUME Shape,
           \/ \E role \in Roles : SendReject(role) \/ Duplicate(role)
           \/ Foreign
           \/ UNCHANGED vars
    PROVE  Idles
  <1>1. /\ SettingKept
        /\ UNCHANGED <<machine, delivered, requested, verified, sessions>>
    BY DEF SendReject, Duplicate, Foreign, vars, setting, SettingKept
  <1>2. ASSUME NEW role \in Roles, SendReject(role)
        PROVE  Idles
    <2> DEFINE f == [type |-> "Reject", kind |-> error[role]]
    <2>1. PICK other \in Roles : other = Other(role)
      BY OtherFacts DEF Roles
    <2>2. inbox' = [inbox EXCEPT ![other] = Append(@, f)]
      BY <1>2, <2>1 DEF SendReject, Send
    <2>3. Arrives(other, f)
      <3> HIDE DEF f
      <3> QED BY <1>1, <2>2, PutFacts
    <2>4. f.type = "Reject"
      OBVIOUS
    <2>5. WellTyped(f)
      BY <2>4 DEF WellTyped
    <2> HIDE DEF f
    <2> QED BY <1>1, <2>3, <2>4, <2>5 DEF Idles
  <1>3. ASSUME NEW role \in Roles, Duplicate(role)
        PROVE  Idles
    <2>1. PICK f \in delivered[role] : inbox' = [inbox EXCEPT ![role] = <<f>> \o @]
      BY <1>3 DEF Duplicate
    <2>2. Arrives(role, f)
      BY <1>1, <2>1, PutFacts
    <2>3. f \in Sent(role)
      BY DEF Sent
    <2>4. NoneArrives
      BY <2>2, <2>3 DEF Arrives, NoneArrives
    <2> QED BY <1>1, <2>4 DEF Idles
  <1>4. ASSUME Foreign
        PROVE  Idles
    <2>1. PICK g \in ForeignFrames : /\ g.to = disturbance
                                     /\ inbox' = [inbox EXCEPT ![g.to] = <<g.frame>> \o @]
      BY <1>4 DEF Foreign
    <2>2. PICK to, f : to = g.to /\ f = g.frame
      OBVIOUS
    <2>3. to \in Roles /\ WellTyped(f) /\ disturbance \in Roles
      BY <2>1, <2>2, TypesAssumption
    <2>4. inbox' = [inbox EXCEPT ![to] = <<f>> \o @]
      BY <2>1, <2>2
    <2>5. Arrives(to, f)
      BY <1>1, <2>3, <2>4, PutFacts
    <2> QED BY <1>1, <2>3, <2>5 DEF Idles
  <1>5. ASSUME UNCHANGED vars
        PROVE  Idles
    <2>1. NoneArrives
      BY <1>5, StillFacts DEF vars
    <2> QED BY <1>1, <2>1 DEF Idles
  <1> QED BY <1>2, <1>3, <1>4, <1>5

\* Every step is one of the cases.
LEMMA StepCases ==
    ASSUME Shape, [Next]_vars
    PROVE  StepCase
  <1>1. \/ \E path \in AuthPaths : Start(path)
        \/ ReceiveHello \/ ReceiveChallenge \/ ReceiveProof
        \/ ReceiveSelection \/ ReceiveConfirm \/ ReceiveConfirmed
        \/ \E decision : DecideIdentity(decision)
        \/ \E role \in Roles : \/ ReceiveReject(role) \/ ReceiveUnexpected(role)
                               \/ StartOutOfTurn(role) \/ DecideOutOfTurn(role)
        \/ \E role \in Roles : SendReject(role) \/ Duplicate(role)
        \/ Foreign
        \/ UNCHANGED vars
    BY Zenon DEF Next, Receive
  <1>2. ASSUME NEW path \in AuthPaths, Start(path)
        PROVE  Fails("Initiator") \/ Starts(path)
    BY <1>2, StartCase
  <1>3. ASSUME NEW decision, DecideIdentity(decision)
        PROVE  Fails("Responder") \/ Accepts
    BY <1>3, DecideCase
  <1>4. ASSUME NEW role \in Roles, \/ ReceiveReject(role) \/ ReceiveUnexpected(role)
                                   \/ StartOutOfTurn(role) \/ DecideOutOfTurn(role)
        PROVE  Fails(role)
    BY <1>4, FailureCase
  <1>5. ASSUME \/ \E role \in Roles : SendReject(role) \/ Duplicate(role)
               \/ Foreign \/ UNCHANGED vars
        PROVE  Idles
    BY <1>5, IdleCase
  <1>6. ASSUME ReceiveHello PROVE Fails("Responder") \/ \E hello : Greets(hello)
    BY <1>6, HelloCase
  <1>7. ASSUME ReceiveChallenge PROVE Fails("Initiator") \/ \E challenge : Challenged(challenge)
    BY <1>7, ChallengeCase
  <1>8. ASSUME ReceiveProof PROVE Fails("Responder") \/ Proves
    BY <1>8, ProofCase
  <1>9. ASSUME ReceiveSelection PROVE Fails("Initiator") \/ \E selection : Selects(selection)
    BY <1>9, SelectionCase
  <1>10. ASSUME ReceiveConfirm PROVE Fails("Responder") \/ Confirms
    BY <1>10, ConfirmCase
  <1>11. ASSUME ReceiveConfirmed PROVE Fails("Initiator") \/ \E confirmed : Concludes(confirmed)
    BY <1>11, ConfirmedCase
  <1>12. "Initiator" \in Roles /\ "Responder" \in Roles
    BY DEF Roles
  <1> QED BY <1>1, <1>2, <1>3, <1>4, <1>5, <1>6, <1>7, <1>8, <1>9, <1>10, <1>11, <1>12,
             Zenon DEF StepCase

-----------------------------------------------------------------------------
(* The inductive invariants. *)

\* What the initiator has taken over is within its policy.
InitiatorWithin ==
    LET m      == machine["Initiator"]
        policy == Policy("Initiator")
    IN  /\ m.state \in {"AwaitingChallenge", "AwaitingSelection", "AwaitingConfirmed"}
             => m.auth_path \in AuthPaths
        /\ m.state \in {"AwaitingSelection", "AwaitingConfirmed"}
             => /\ m.link_capabilities \subseteq policy.link_capabilities
                /\ \A v \in m.link_version : Admits(policy.link_versions, v)
        /\ m.state = "AwaitingConfirmed"
             => /\ m.selected_protocols # {}
                /\ \A p \in m.selected_protocols : Supports(Exposed(policy, m.auth_path), p)

\* The path is open to this peer.
PathOpen(m) ==
    /\ m.auth_path = "FirstPairing" => Policy("Responder").allow_pairing
    /\ m.auth_path = "TrustedReconnect" => m.remote \in Policy("Responder").trusted_peers

\* What the responder has granted is within its policy, and the verification it
\* asks for and the owner's answer come one at a time.
ResponderWithin ==
    LET m == machine["Responder"]
    IN  /\ m.state \in {"AwaitingProof", "AwaitingVerification", "AwaitingConfirmation"}
             => WithinPolicy("Responder", NegotiatedSession("Responder", m)) /\ PathOpen(m)
        /\ m.state \in {"AwaitingHello", "AwaitingProof"} => requested = 0
        /\ m.state \in {"AwaitingVerification", "AwaitingConfirmation"} => requested = 1
        /\ m.state = "AwaitingConfirmation" => verified = TRUE
        /\ sessions["Responder"] # {} => m.state \in {"Established", "Failed"}

FramesWellTyped == \A role \in Roles : \A f \in Sent(role) : WellTyped(f)

PolicyInv ==
    /\ Shape
    /\ FramesWellTyped
    /\ InitiatorWithin
    /\ ResponderWithin
    /\ WithinOwnPolicy

\* The initiator holds the responder's link terms.
LinkAgreed ==
    LET i == machine["Initiator"]
        r == machine["Responder"]
    IN  /\ i.remote = config["Responder"].identity
        /\ r.remote = config["Initiator"].identity
        /\ i.link_version = r.link_version
        /\ i.link_capabilities = r.link_capabilities
        /\ i.auth_path = r.auth_path

\* A frame on its way to the initiator says what the responder has decided for
\* good; r is the responder's machine.
SaysWhatIs(f, r) ==
    /\ f.type \in {"Challenge", "Selection", "Confirmed"} => r.state # "AwaitingHello"
    /\ f.type = "Challenge" =>
         /\ f.responder = config["Responder"].identity
         /\ r.remote = config["Initiator"].identity
         /\ {f.link_version} = r.link_version
         /\ f.link_capabilities = r.link_capabilities
         /\ f.auth_path = r.auth_path
    /\ f.type = "Selection" =>
         /\ f.session_id = r.session_id
         /\ f.protocols = r.selected_protocols
    /\ f.type = "Confirmed" =>
         NegotiatedSession("Responder", r) \in sessions["Responder"]

\* Two machines between owners that repeat frames and call out of turn.
OwnersInv ==
    LET i == machine["Initiator"]
        r == machine["Responder"]
    IN  /\ \A f \in Sent("Initiator") : SaysWhatIs(f, r)
        /\ \A f \in Sent("Responder") :
             f.type = "Hello" => f.identity = config["Initiator"].identity
        /\ i.state \in {"AwaitingSelection", "AwaitingConfirmed"} =>
             r.state # "AwaitingHello" /\ LinkAgreed
        /\ i.state = "AwaitingConfirmed" =>
             i.session_id = r.session_id /\ i.selected_protocols = r.selected_protocols
        /\ i.state \notin {"Established", "Failed"} => sessions["Initiator"] = {}

AgreeInv ==
    /\ disturbance = "owners" => OwnersInv
    /\ Agreement

-----------------------------------------------------------------------------
(* Each side stays within its own policy. *)

\* What every kind of step has in common.
LEMMA CommonStep ==
    ASSUME Shape, StepCase
    PROVE  /\ SettingKept
           /\ DOMAIN machine' = Roles /\ DOMAIN inbox' = Roles
           /\ DOMAIN delivered' = Roles /\ DOMAIN sessions' = Roles
           /\ \A role \in Roles : IsMachine(machine'[role]) /\ IsSequence(inbox'[role])
  <1>1. \/ UNCHANGED machine
        \/ \E role \in Roles : Moves(role)
    BY DEF StepCase, Fails, Idles, Starts, Greets, Challenged, Proves, Accepts, Selects,
           Confirms, Concludes, Turns, Roles
  <1>2. NoneArrives \/ \E role \in Roles : \E frame : Arrives(role, frame)
    BY Zenon DEF StepCase, Fails, Idles, Starts, Greets, Challenged, Proves, Accepts, Selects,
           Confirms, Concludes, Roles
  <1>3. UNCHANGED sessions \/ \E role \in Roles : Announces(role)
    BY DEF StepCase, Fails, Idles, Starts, Greets, Challenged, Proves, Accepts, Selects,
           Confirms, Concludes, Roles
  <1>4. SettingKept
    BY DEF StepCase, Fails, Idles, Starts, Greets, Challenged, Proves, Accepts, Selects,
           Confirms, Concludes
  <1>5. DOMAIN machine' = Roles /\ \A role \in Roles : IsMachine(machine'[role])
    BY <1>1 DEF Moves, Shape
  <1>6. /\ DOMAIN inbox' = Roles /\ DOMAIN delivered' = Roles
        /\ \A role \in Roles : IsSequence(inbox'[role])
    BY <1>2 DEF Arrives, NoneArrives
  <1>7. DOMAIN sessions' = Roles
    BY <1>3 DEF Announces, Shape
  <1> QED BY <1>4, <1>5, <1>6, <1>7

\* Every case keeps the shape of the state.
LEMMA ShapeStep ==
    ASSUME Shape, StepCase
    PROVE  Shape'
  <1>1. \E meeting \in Meetings : config = meeting.peers /\ disturbance = meeting.disturbance
    BY DEF Shape
  <1>2. config' = config /\ disturbance' = disturbance
    BY CommonStep DEF SettingKept
  <1>3. (\E meeting \in Meetings : config = meeting.peers /\ disturbance = meeting.disturbance)'
    BY <1>1, <1>2
  <1> QED BY <1>3, CommonStep DEF Shape

\* The configurations are well typed.
LEMMA ConfigTypes ==
    ASSUME Shape, NEW role \in Roles
    PROVE  /\ HasMinors(Policy(role).link_versions)
           /\ \A path \in AuthPaths :
                \A i \in DOMAIN Catalog(Policy(role), path) :
                    HasMinors(Catalog(Policy(role), path)[i].versions)
  <1>1. PICK meeting \in Meetings : config = meeting.peers
    BY DEF Shape
  <1> QED BY <1>1, TypesAssumption DEF Policy

\* Every case sends well-typed frames only.
LEMMA FramesStep ==
    ASSUME Shape, FramesWellTyped, StepCase
    PROVE  FramesWellTyped'
  <1>1. ASSUME NEW path \in AuthPaths
        PROVE  WellTyped(HelloFrame(path))
    <2>1. /\ HasMinors(Policy("Initiator").link_versions)
          /\ \A i \in DOMAIN Catalog(Policy("Initiator"), path) :
                HasMinors(Catalog(Policy("Initiator"), path)[i].versions)
      BY ConfigTypes DEF Roles
    <2> QED BY <2>1 DEF WellTyped, HelloFrame
  <1>2. \/ NoneArrives
        \/ \E role \in Roles : \E frame : Arrives(role, frame) /\ WellTyped(frame)
    <2>1. ASSUME NEW path \in AuthPaths, Starts(path)
          PROVE  \E frame : Arrives("Responder", frame) /\ WellTyped(frame)
      BY <1>1, <2>1 DEF Starts
    <2>2. ASSUME NEW hello, Greets(hello)
          PROVE  \E frame : Arrives("Initiator", frame) /\ WellTyped(frame)
      <3>1. PICK frame : Arrives("Initiator", frame) /\ frame.type = "Challenge"
        BY <2>2 DEF Greets, ChallengeFrame
      <3> QED BY <3>1 DEF WellTyped
    <2>3. ASSUME NEW challenge, Challenged(challenge)
          PROVE  \E frame : Arrives("Responder", frame) /\ WellTyped(frame)
      <3>1. PICK frame : Arrives("Responder", frame) /\ frame.type = "IdentityProof"
        BY <2>3 DEF Challenged
      <3> QED BY <3>1 DEF WellTyped
    <2>4. ASSUME Accepts
          PROVE  \E frame : Arrives("Initiator", frame) /\ WellTyped(frame)
      <3>1. PICK frame : Arrives("Initiator", frame) /\ frame.type = "Selection"
        BY <2>4 DEF Accepts
      <3> QED BY <3>1 DEF WellTyped
    <2>5. ASSUME NEW selection, Selects(selection)
          PROVE  \E frame : Arrives("Responder", frame) /\ WellTyped(frame)
      <3>1. PICK frame : Arrives("Responder", frame) /\ frame.type = "Confirm"
        BY <2>5 DEF Selects
      <3> QED BY <3>1 DEF WellTyped
    <2>6. ASSUME Confirms
          PROVE  \E frame : Arrives("Initiator", frame) /\ WellTyped(frame)
      <3>1. PICK frame : Arrives("Initiator", frame) /\ frame.type = "Confirmed"
        BY <2>6 DEF Confirms
      <3> QED BY <3>1 DEF WellTyped
    <2>7. ASSUME \/ \E role \in Roles : Fails(role)
                 \/ Idles \/ Proves \/ \E confirmed : Concludes(confirmed)
          PROVE  \/ NoneArrives
                 \/ \E role \in Roles : \E frame : Arrives(role, frame) /\ WellTyped(frame)
      BY <2>7, Zenon DEF Fails, Idles, Proves, Concludes
    <2>8. "Initiator" \in Roles /\ "Responder" \in Roles
      BY DEF Roles
    <2> QED BY <2>1, <2>2, <2>3, <2>4, <2>5, <2>6, <2>7, <2>8, Zenon DEF StepCase
  <1>3. CASE NoneArrives
    BY <1>3 DEF NoneArrives, FramesWellTyped
  <1>4. ASSUME NEW role \in Roles, NEW frame, Arrives(role, frame), WellTyped(frame)
        PROVE  FramesWellTyped'
    <2>1. ASSUME NEW r \in Roles, NEW f \in Sent(r)'
          PROVE  WellTyped(f)
      BY <1>4, <2>1 DEF Arrives, FramesWellTyped
    <2> QED BY <2>1 DEF FramesWellTyped
  <1> QED BY <1>2, <1>3, <1>4

\* A session that was within the policy stays within it: the policy is fixed.
LEMMA WithinKept ==
    ASSUME SettingKept, NEW role, NEW t
    PROVE  WithinPolicy(role, t)' <=> WithinPolicy(role, t)
  BY DEF WithinPolicy, Policy, SettingKept

\* A Hello the responder answers leaves it within its policy.
LEMMA HelloWithin ==
    ASSUME Shape, NEW hello, WellTyped(hello), hello.type = "Hello",
           HelloError(Policy("Responder"), hello) = None
    PROVE  LET policy  == Policy("Responder")
               granted == NegotiateProtocols(Catalog(policy, hello.requested_auth),
                                             hello.protocols)
           IN  /\ \A v \in SharedVersion(policy.link_versions, hello.link_versions) :
                     Admits(policy.link_versions, v)
               /\ granted # {}
               /\ \A p \in granted : Supports(Exposed(policy, hello.requested_auth), p)
               /\ hello.requested_auth = "FirstPairing" => policy.allow_pairing
               /\ hello.requested_auth = "TrustedReconnect" =>
                     hello.identity \in policy.trusted_peers
  <1>1. PICK policy, path, offers :
          /\ policy = Policy("Responder") /\ path = hello.requested_auth
          /\ offers = Catalog(policy, path)
    OBVIOUS
  <1>2. path \in AuthPaths /\ HasMinors(hello.link_versions)
        /\ \A i \in DOMAIN hello.protocols : HasMinors(hello.protocols[i].versions)
    BY <1>1 DEF WellTyped
  <1>3. HasMinors(policy.link_versions) /\ \A i \in DOMAIN offers : HasMinors(offers[i].versions)
    BY <1>1, <1>2, ConfigTypes DEF Roles
  <1>4. Exposed(policy, path) = offers
    BY <1>1, <1>2 DEF Exposed, Catalog, AuthPaths
  <1>5. /\ path = "FirstPairing" => policy.allow_pairing
        /\ path = "TrustedReconnect" => hello.identity \in policy.trusted_peers
        /\ NegotiateProtocols(offers, hello.protocols) # {}
    BY <1>1 DEF HelloError, None
  <1>6. \A v \in SharedVersion(policy.link_versions, hello.link_versions) :
            Admits(policy.link_versions, v)
    BY <1>2, <1>3, SharedIsAdmitted
  <1>7. \A p \in NegotiateProtocols(offers, hello.protocols) : Supports(offers, p)
    BY <1>2, <1>3, GrantIsSupported
  <1> QED BY <1>1, <1>4, <1>5, <1>6, <1>7

\* A selection the initiator confirms is within its policy.
LEMMA SelectionWithin ==
    ASSUME NEW m, m.auth_path \in AuthPaths, NEW policy, NEW selected,
           SelectionError(m, policy, selected) = None
    PROVE  /\ selected # {}
           /\ \A p \in selected : Supports(Exposed(policy, m.auth_path), p)
  <1>1. Exposed(policy, m.auth_path) = Catalog(policy, m.auth_path)
    BY DEF Exposed, Catalog, AuthPaths
  <1>2. /\ selected # {}
        /\ \A p \in selected : Supports(Catalog(policy, m.auth_path), p)
    BY DEF SelectionError, None
  <1> QED BY <1>1, <1>2

\* Every case keeps the initiator within its policy.
LEMMA InitiatorStep ==
    ASSUME PolicyInv, StepCase
    PROVE  InitiatorWithin'
  <1>1. PICK policy, m, n : /\ policy = Policy("Initiator")
                            /\ m = machine["Initiator"] /\ n = machine'["Initiator"]
    OBVIOUS
  <1>2. Policy("Initiator")' = policy
    BY <1>1, CommonStep DEF PolicyInv, Policy, SettingKept
  <1>3. /\ m.state \in {"AwaitingChallenge", "AwaitingSelection", "AwaitingConfirmed"}
             => m.auth_path \in AuthPaths
        /\ m.state \in {"AwaitingSelection", "AwaitingConfirmed"}
             => /\ m.link_capabilities \subseteq policy.link_capabilities
                /\ \A v \in m.link_version : Admits(policy.link_versions, v)
        /\ m.state = "AwaitingConfirmed"
             => /\ m.selected_protocols # {}
                /\ \A p \in m.selected_protocols : Supports(Exposed(policy, m.auth_path), p)
    BY <1>1 DEF PolicyInv, InitiatorWithin
  <1> SUFFICES
        /\ n.state \in {"AwaitingChallenge", "AwaitingSelection", "AwaitingConfirmed"}
             => n.auth_path \in AuthPaths
        /\ n.state \in {"AwaitingSelection", "AwaitingConfirmed"}
             => /\ n.link_capabilities \subseteq policy.link_capabilities
                /\ \A v \in n.link_version : Admits(policy.link_versions, v)
        /\ n.state = "AwaitingConfirmed"
             => /\ n.selected_protocols # {}
                /\ \A p \in n.selected_protocols : Supports(Exposed(policy, n.auth_path), p)
    BY <1>1, <1>2 DEF InitiatorWithin
  <1>4. CASE n = m
    BY <1>3, <1>4
  <1>5. CASE n.state \in {"Failed", "Established"}
    BY <1>5
  <1>6. ASSUME NEW path \in AuthPaths, Starts(path)
        PROVE  n.state = "AwaitingChallenge" /\ n.auth_path \in AuthPaths
    BY <1>1, <1>6 DEF Starts
  <1>7. ASSUME NEW challenge, Challenged(challenge)
        PROVE  /\ n.state = "AwaitingSelection"
               /\ n.auth_path \in AuthPaths
               /\ n.link_capabilities \subseteq policy.link_capabilities
               /\ \A v \in n.link_version : Admits(policy.link_versions, v)
    BY <1>1, <1>3, <1>7 DEF Challenged, ChallengeAcceptable
  <1>8. ASSUME NEW selection, Selects(selection)
        PROVE  /\ n.state = "AwaitingConfirmed"
               /\ n.auth_path \in AuthPaths
               /\ n.link_capabilities \subseteq policy.link_capabilities
               /\ \A v \in n.link_version : Admits(policy.link_versions, v)
               /\ n.selected_protocols # {}
               /\ \A p \in n.selected_protocols : Supports(Exposed(policy, n.auth_path), p)
    <2>1. /\ m.state = "AwaitingSelection"
          /\ SelectionError(m, policy, selection.protocols) = None
          /\ n.state = "AwaitingConfirmed"
          /\ n.auth_path = m.auth_path /\ n.link_version = m.link_version
          /\ n.link_capabilities = m.link_capabilities
          /\ n.selected_protocols = selection.protocols
      BY <1>1, <1>8 DEF Selects
    <2>2. m.auth_path \in AuthPaths
      BY <1>3, <2>1
    <2>3. /\ selection.protocols # {}
          /\ \A p \in selection.protocols : Supports(Exposed(policy, m.auth_path), p)
      BY <2>1, <2>2, SelectionWithin
    <2> QED BY <1>3, <2>1, <2>2, <2>3
  <1>9. ASSUME \/ \E role \in Roles : Fails(role)
               \/ Idles \/ \E hello : Greets(hello) \/ Proves \/ Accepts
               \/ Confirms \/ \E confirmed : Concludes(confirmed)
        PROVE  n = m \/ n.state \in {"Failed", "Established"}
    BY <1>1, <1>9 DEF Fails, Idles, Greets, Proves, Accepts, Confirms, Concludes, Turns, Moves, Roles
  <1>10. \/ n = m \/ n.state \in {"Failed", "Established"}
         \/ \E path \in AuthPaths : Starts(path)
         \/ \E challenge : Challenged(challenge)
         \/ \E selection : Selects(selection)
    BY <1>9, Zenon DEF StepCase
  <1> QED BY <1>4, <1>5, <1>6, <1>7, <1>8, <1>10

\* What the responder has granted, in one formula for before and after a step.
GrantWithin(m) ==
    /\ m.link_capabilities \subseteq Policy("Responder").link_capabilities
    /\ \A v \in m.link_version : Admits(Policy("Responder").link_versions, v)
    /\ m.selected_protocols # {}
    /\ \A p \in m.selected_protocols :
          Supports(Exposed(Policy("Responder"), m.auth_path), p)
    /\ PathOpen(m)

\* What a responder has granted, read from its machine.
LEMMA GrantFacts ==
    ASSUME NEW m
    PROVE  /\ GrantWithin(m) <=>
                 WithinPolicy("Responder", NegotiatedSession("Responder", m)) /\ PathOpen(m)
           /\ SettingKept => (GrantWithin(m)' <=> GrantWithin(m))
           /\ SettingKept => (WithinPolicy("Responder", NegotiatedSession("Responder", m))'
                              <=> WithinPolicy("Responder", NegotiatedSession("Responder", m)))
           /\ SettingKept => (PathOpen(m)' <=> PathOpen(m))
           /\ \A n : SameTerms(n, m) => (GrantWithin(n) <=> GrantWithin(m))
  <1>1. GrantWithin(m) <=>
            WithinPolicy("Responder", NegotiatedSession("Responder", m)) /\ PathOpen(m)
    BY DEF GrantWithin, WithinPolicy, NegotiatedSession
  <1>2. SettingKept => (GrantWithin(m)' <=> GrantWithin(m))
    BY DEF GrantWithin, PathOpen, Policy, SettingKept
  <1>3. SettingKept => (WithinPolicy("Responder", NegotiatedSession("Responder", m))'
                        <=> WithinPolicy("Responder", NegotiatedSession("Responder", m)))
    BY DEF WithinPolicy, NegotiatedSession, Policy, SettingKept
  <1>4. SettingKept => (PathOpen(m)' <=> PathOpen(m))
    BY DEF PathOpen, Policy, SettingKept
  <1>5. \A n : SameTerms(n, m) => (GrantWithin(n) <=> GrantWithin(m))
    BY DEF GrantWithin, PathOpen, SameTerms
  <1> QED BY <1>1, <1>2, <1>3, <1>4, <1>5

\* Every case keeps the responder within its policy.
LEMMA ResponderStep ==
    ASSUME PolicyInv, StepCase
    PROVE  ResponderWithin'
  <1>1. PICK m, n : m = machine["Responder"] /\ n = machine'["Responder"]
    OBVIOUS
  <1>2. SettingKept
    BY CommonStep DEF PolicyInv
  <1>3. /\ m.state \in {"AwaitingProof", "AwaitingVerification", "AwaitingConfirmation"}
             => GrantWithin(m)
        /\ m.state \in {"AwaitingHello", "AwaitingProof"} => requested = 0
        /\ m.state \in {"AwaitingVerification", "AwaitingConfirmation"} => requested = 1
        /\ m.state = "AwaitingConfirmation" => verified = TRUE
        /\ sessions["Responder"] # {} => m.state \in {"Established", "Failed"}
    BY <1>1, GrantFacts DEF PolicyInv, ResponderWithin
  <1> SUFFICES
        /\ n.state \in {"AwaitingProof", "AwaitingVerification", "AwaitingConfirmation"}
             => GrantWithin(n)
        /\ n.state \in {"AwaitingHello", "AwaitingProof"} => requested' = 0
        /\ n.state \in {"AwaitingVerification", "AwaitingConfirmation"} => requested' = 1
        /\ n.state = "AwaitingConfirmation" => verified' = TRUE
        /\ sessions'["Responder"] # {} => n.state \in {"Established", "Failed"}
    <2>1. GrantWithin(n) =>
             /\ WithinPolicy("Responder", NegotiatedSession("Responder", n))'
             /\ PathOpen(n)'
      BY <1>2, GrantFacts
    <2>2. (WithinPolicy("Responder", NegotiatedSession("Responder", machine["Responder"]))
           /\ PathOpen(machine["Responder"]))'
          <=> (WithinPolicy("Responder", NegotiatedSession("Responder", n))' /\ PathOpen(n)')
      BY <1>1 DEF WithinPolicy, NegotiatedSession, PathOpen, Policy
    <2> QED BY <1>1, <2>1, <2>2 DEF ResponderWithin
  <1>4. ASSUME n = m \/ n.state = "Failed",
               UNCHANGED <<requested, verified>>, sessions'["Responder"] = sessions["Responder"]
        PROVE  /\ n.state \in {"AwaitingProof", "AwaitingVerification", "AwaitingConfirmation"}
                    => GrantWithin(n)
               /\ n.state \in {"AwaitingHello", "AwaitingProof"} => requested' = 0
               /\ n.state \in {"AwaitingVerification", "AwaitingConfirmation"} => requested' = 1
               /\ n.state = "AwaitingConfirmation" => verified' = TRUE
               /\ sessions'["Responder"] # {} => n.state \in {"Established", "Failed"}
    BY <1>3, <1>4
  <1>5. ASSUME \/ \E role \in Roles : Fails(role)
               \/ Idles \/ \E path \in AuthPaths : Starts(path)
               \/ \E challenge : Challenged(challenge)
               \/ \E selection : Selects(selection)
               \/ \E confirmed : Concludes(confirmed)
        PROVE  /\ n = m \/ n.state = "Failed"
               /\ UNCHANGED <<requested, verified>>
               /\ sessions'["Responder"] = sessions["Responder"]
    BY <1>1, <1>5 DEF Fails, Idles, Starts, Challenged, Selects, Concludes, Turns, Moves,
                      Announces, Roles
  <1>6. ASSUME NEW hello, Greets(hello)
        PROVE  /\ n.state = "AwaitingProof" /\ GrantWithin(n)
               /\ requested' = 0 /\ sessions'["Responder"] = {}
    <2>1. PICK policy, path : policy = Policy("Responder") /\ path = hello.requested_auth
      OBVIOUS
    <2>2. /\ hello \in Sent("Responder") /\ hello.type = "Hello"
          /\ m.state = "AwaitingHello"
          /\ HelloError(policy, hello) = None
          /\ n.state = "AwaitingProof"
          /\ n.remote = hello.identity
          /\ n.auth_path = path
          /\ n.link_version = SharedVersion(policy.link_versions, hello.link_versions)
          /\ n.link_capabilities = policy.link_capabilities \cap hello.link_capabilities
          /\ n.selected_protocols = NegotiateProtocols(Catalog(policy, path), hello.protocols)
          /\ UNCHANGED <<requested, sessions>>
      BY <1>1, <1>6, <2>1 DEF Greets
    <2>3. WellTyped(hello)
      BY <2>2 DEF PolicyInv, FramesWellTyped, Roles
    <2>4. /\ \A v \in n.link_version : Admits(policy.link_versions, v)
          /\ n.selected_protocols # {}
          /\ \A p \in n.selected_protocols : Supports(Exposed(policy, path), p)
          /\ path = "FirstPairing" => policy.allow_pairing
          /\ path = "TrustedReconnect" => n.remote \in policy.trusted_peers
      BY <2>1, <2>2, <2>3, HelloWithin DEF PolicyInv
    <2>5. n.link_capabilities \subseteq policy.link_capabilities
      BY <2>2
    <2>6. GrantWithin(n)
      BY <2>1, <2>2, <2>4, <2>5 DEF GrantWithin, PathOpen
    <2> QED BY <1>3, <2>2, <2>6
  <1>7. ASSUME Proves \/ Accepts
        PROVE  GrantWithin(n) /\ sessions'["Responder"] = {}
    <2>1. /\ m.state \in {"AwaitingProof", "AwaitingVerification"}
          /\ SameTerms(n, m)
          /\ UNCHANGED sessions
      BY <1>1, <1>7 DEF Proves, Accepts, Turns
    <2> QED BY <1>3, <2>1, GrantFacts
  <1>8. ASSUME Proves
        PROVE  n.state = "AwaitingVerification" /\ requested' = 1
    BY <1>1, <1>3, <1>8 DEF Proves, Turns
  <1>9. ASSUME Accepts
        PROVE  n.state = "AwaitingConfirmation" /\ requested' = 1 /\ verified' = TRUE
    BY <1>1, <1>3, <1>9 DEF Accepts, Turns
  <1>10. ASSUME Confirms
         PROVE  n.state = "Established"
    BY <1>1, <1>10 DEF Confirms, Turns
  <1>11. CASE \E hello : Greets(hello)
    BY <1>6, <1>11
  <1>12. CASE Proves \/ Accepts \/ Confirms
    BY <1>7, <1>8, <1>9, <1>10, <1>12
  <1> QED BY <1>4, <1>5, <1>11, <1>12 DEF StepCase

\* A session announced by a case is within the policy of who announces it.
LEMMA SessionsStep ==
    ASSUME PolicyInv, StepCase
    PROVE  WithinOwnPolicy'
  <1>1. SettingKept
    BY CommonStep DEF PolicyInv
  <1>2. ASSUME NEW role \in Roles, NEW t, t \in sessions'[role], t \notin sessions[role]
        PROVE  /\ WithinPolicy(role, t)
               /\ role = "Responder" => /\ verified' = TRUE /\ requested' = 1
                                        /\ PathOpen(t)
    <2>1. \/ Confirms /\ role = "Responder"
          \/ (\E confirmed : Concludes(confirmed)) /\ role = "Initiator"
      BY <1>2 DEF StepCase, Fails, Idles, Starts, Greets, Challenged, Proves, Accepts, Selects,
                  Confirms, Concludes, Announces, Roles
    <2>2. CASE Confirms /\ role = "Responder"
      <3>1. PICK m : m = machine["Responder"]
        OBVIOUS
      <3>2. /\ m.state = "AwaitingConfirmation"
            /\ t = NegotiatedSession("Responder", m)
            /\ UNCHANGED <<requested, verified>>
        BY <1>2, <2>2, <3>1 DEF Confirms, Announces
      <3>3. /\ WithinPolicy("Responder", t) /\ PathOpen(m)
            /\ requested = 1 /\ verified = TRUE
        BY <3>1, <3>2 DEF PolicyInv, ResponderWithin
      <3>4. PathOpen(t)
        BY <3>2, <3>3 DEF PathOpen, NegotiatedSession
      <3> QED BY <2>2, <3>2, <3>3, <3>4
    <2>3. CASE (\E confirmed : Concludes(confirmed)) /\ role = "Initiator"
      <3>1. PICK m : m = machine["Initiator"]
        OBVIOUS
      <3>2. /\ m.state = "AwaitingConfirmed"
            /\ t = NegotiatedSession("Initiator", m)
        BY <1>2, <2>3, <3>1 DEF Concludes, Announces
      <3>3. /\ m.link_capabilities \subseteq Policy("Initiator").link_capabilities
            /\ \A v \in m.link_version : Admits(Policy("Initiator").link_versions, v)
            /\ m.selected_protocols # {}
            /\ \A p \in m.selected_protocols :
                  Supports(Exposed(Policy("Initiator"), m.auth_path), p)
        BY <3>1, <3>2 DEF PolicyInv, InitiatorWithin
      <3>4. WithinPolicy("Initiator", t)
        BY <3>2, <3>3 DEF WithinPolicy, NegotiatedSession
      <3> QED BY <2>3, <3>4
    <2> QED BY <2>1, <2>2, <2>3
  <1>3. ASSUME sessions["Responder"] # {}
        PROVE  UNCHANGED requested
    <2>1. machine["Responder"].state \in {"Established", "Failed"}
      BY <1>3 DEF PolicyInv, ResponderWithin
    <2> QED BY <2>1 DEF StepCase, Fails, Idles, Starts, Greets, Challenged, Proves, Accepts,
                        Selects, Confirms, Concludes
  <1>4. verified = TRUE => verified' = TRUE
    BY DEF StepCase, Fails, Idles, Starts, Greets, Challenged, Proves, Accepts,
           Selects, Confirms, Concludes
  <1>5. ASSUME NEW t \in sessions["Responder"]
        PROVE  verified = TRUE /\ requested = 1 /\ PathOpen(t)
    BY <1>5 DEF PolicyInv, WithinOwnPolicy, Authenticated, PathOpen
  <1>6. ASSUME NEW t \in sessions'["Responder"]
        PROVE  Authenticated(t)'
    <2>1. verified' = TRUE /\ requested' = 1 /\ PathOpen(t)
      BY <1>2, <1>3, <1>4, <1>5 DEF Roles
    <2>2. PathOpen(t)'
      BY <1>1, <2>1, GrantFacts
    <2> QED BY <2>1, <2>2 DEF Authenticated, PathOpen
  <1>7. ASSUME NEW role \in Roles, NEW t \in sessions'[role]
        PROVE  WithinPolicy(role, t)'
    <2>1. WithinPolicy(role, t)
      BY <1>2 DEF PolicyInv, WithinOwnPolicy
    <2> QED BY <1>1, <2>1, WithinKept
  <1> QED BY <1>6, <1>7 DEF WithinOwnPolicy

\* Two new machines satisfy the invariant.
LEMMA PolicyInit ==
    ASSUME Init
    PROVE  PolicyInv
  <1>1. /\ DOMAIN machine = Roles /\ DOMAIN inbox = Roles
        /\ DOMAIN delivered = Roles /\ DOMAIN sessions = Roles
        /\ \A role \in Roles : inbox[role] = <<>> /\ delivered[role] = {} /\ sessions[role] = {}
        /\ requested = 0
    BY DEF Init
  <1>2. \E meeting \in Meetings : config = meeting.peers /\ disturbance = meeting.disturbance
    BY DEF Init
  <1>3. /\ IsMachine(machine["Initiator"]) /\ machine["Initiator"].state = "Ready"
        /\ IsMachine(machine["Responder"]) /\ machine["Responder"].state = "AwaitingHello"
    <2>1. PICK a, b : a = config["Initiator"].session_id /\ b = config["Responder"].session_id
      OBVIOUS
    <2>2. PICK i, r : i = Machine("Ready") /\ r = Machine("AwaitingHello")
      OBVIOUS
    <2>3. /\ IsMachine(i) /\ i.state = "Ready"
          /\ IsMachine(r) /\ r.state = "AwaitingHello"
      BY <2>2 DEF Machine, IsMachine
    <2>4. /\ machine["Initiator"] = [i EXCEPT !.session_id = a]
          /\ machine["Responder"] = [r EXCEPT !.session_id = b]
      BY <2>1, <2>2 DEF Init, Roles
    <2>5. /\ IsMachine([i EXCEPT !.session_id = a]) /\ IsMachine([r EXCEPT !.session_id = b])
      BY <2>3, FieldUpdates
    <2>6. /\ [i EXCEPT !.session_id = a].state = i.state
          /\ [r EXCEPT !.session_id = b].state = r.state
      BY <2>3 DEF IsMachine
    <2> QED BY <2>3, <2>4, <2>5, <2>6
  <1>4. Shape
    <2>1. IsSequence(<<>>)
      <3>1. <<>> \in Seq({})
        BY EmptySeq
      <3> QED BY <3>1, SequenceOfOwn
    <2> QED BY <1>1, <1>2, <1>3, <2>1 DEF Shape, Roles
  <1>5. FramesWellTyped
    BY <1>1 DEF FramesWellTyped, Sent, FramesIn
  <1>6. InitiatorWithin /\ ResponderWithin
    BY <1>1, <1>3 DEF InitiatorWithin, ResponderWithin, Roles
  <1>7. WithinOwnPolicy
    BY <1>1 DEF WithinOwnPolicy, Roles
  <1> QED BY <1>4, <1>5, <1>6, <1>7 DEF PolicyInv

\* PolicyInv is an invariant.
THEOREM PolicyInvariant == Spec => []PolicyInv
  <1>1. Init => PolicyInv
    BY PolicyInit
  <1>2. PolicyInv /\ [Next]_vars => PolicyInv'
    <2> SUFFICES ASSUME PolicyInv, [Next]_vars PROVE PolicyInv'
      OBVIOUS
    <2>1. StepCase
      BY StepCases DEF PolicyInv
    <2>2. Shape' /\ FramesWellTyped'
      BY <2>1, ShapeStep, FramesStep DEF PolicyInv
    <2>3. InitiatorWithin' /\ ResponderWithin' /\ WithinOwnPolicy'
      BY <2>1, InitiatorStep, ResponderStep, SessionsStep
    <2> QED BY <2>2, <2>3 DEF PolicyInv
  <1> QED BY <1>1, <1>2, PTL DEF Spec

\* Against any peer, each side announces only sessions within its own policy,
\* and the responder only those of a peer its policy admits and whose one proof
\* its owner accepted (receive_hello, receive_challenge, validate_selection and
\* decide_identity).
THEOREM StaysWithinPolicy == Spec => []WithinOwnPolicy
  <1>1. PolicyInv => WithinOwnPolicy
    BY DEF PolicyInv
  <1> QED BY <1>1, PolicyInvariant, PTL

-----------------------------------------------------------------------------
(* Two machines agree. *)

\* Ranges share one version at most.
LEMMA SharedIsSingle ==
    ASSUME NEW a, NEW b, SharedVersion(a, b) # {}
    PROVE  {CHOOSE v \in SharedVersion(a, b) : TRUE} = SharedVersion(a, b)
  <1>1. PICK w : SharedVersion(a, b) = {w}
    BY DEF SharedVersion
  <1> QED BY <1>1

\* The initiator's session and the responder's, with the roles swapped.
LEMMA SwappedSession ==
    ASSUME LinkAgreed,
           machine["Initiator"].session_id = machine["Responder"].session_id,
           machine["Initiator"].selected_protocols = machine["Responder"].selected_protocols,
           NEW t, t = NegotiatedSession("Initiator", machine["Initiator"])
    PROVE  [t EXCEPT !.local = t.remote, !.remote = t.local]
              = NegotiatedSession("Responder", machine["Responder"])
  <1>1. PICK i, r : i = machine["Initiator"] /\ r = machine["Responder"]
    OBVIOUS
  <1>2. /\ i.remote = config["Responder"].identity
        /\ r.remote = config["Initiator"].identity
        /\ i.link_version = r.link_version
        /\ i.link_capabilities = r.link_capabilities
        /\ i.auth_path = r.auth_path
        /\ i.session_id = r.session_id
        /\ i.selected_protocols = r.selected_protocols
    BY <1>1 DEF LinkAgreed
  <1>3. t = [ session_id |-> r.session_id, local |-> r.remote,
              remote |-> config["Responder"].identity, link_version |-> r.link_version,
              link_capabilities |-> r.link_capabilities, protocols |-> r.selected_protocols,
              auth_path |-> r.auth_path ]
    BY <1>1, <1>2 DEF NegotiatedSession
  <1>4. PICK c, d : c = t.remote /\ d = t.local
    OBVIOUS
  <1>5. c = config["Responder"].identity /\ d = r.remote
    BY <1>3, <1>4
  <1>6. PICK u : u = [t EXCEPT !.local = c]
    OBVIOUS
  <1>7. u = [ session_id |-> r.session_id, local |-> c,
              remote |-> c, link_version |-> r.link_version,
              link_capabilities |-> r.link_capabilities, protocols |-> r.selected_protocols,
              auth_path |-> r.auth_path ]
    BY <1>3, <1>5, <1>6
  <1>8. [u EXCEPT !.remote = d] =
            [ session_id |-> r.session_id, local |-> c,
              remote |-> d, link_version |-> r.link_version,
              link_capabilities |-> r.link_capabilities, protocols |-> r.selected_protocols,
              auth_path |-> r.auth_path ]
    BY <1>7
  <1>9. [t EXCEPT !.local = t.remote, !.remote = t.local] = [u EXCEPT !.remote = d]
    BY <1>4, <1>6
  <1> QED BY <1>1, <1>5, <1>8, <1>9 DEF NegotiatedSession

\* What a frame says of a decided responder stays true of it.
LEMMA SaysKept ==
    ASSUME SettingKept, NEW f, NEW r, NEW n, SaysWhatIs(f, r),
           n = r \/ (SameTerms(n, r) /\ n.state # "AwaitingHello"),
           sessions["Responder"] \subseteq sessions'["Responder"]
    PROVE  SaysWhatIs(f, n)'
  <1>1. NegotiatedSession("Responder", n)' = NegotiatedSession("Responder", r)
    BY DEF NegotiatedSession, SameTerms, SettingKept
  <1>2. config' = config
    BY DEF SettingKept
  <1>3. f.type = "Confirmed" =>
           NegotiatedSession("Responder", n)' \in sessions'["Responder"]
    BY <1>1 DEF SaysWhatIs
  <1> QED BY <1>2, <1>3 DEF SaysWhatIs, SameTerms

\* Of the steps, only the answer to a Hello changes the responder's terms, and
\* sessions are never taken back.
LEMMA ResponderKeeps ==
    ASSUME Shape, StepCase, NEW r, r = machine["Responder"], NEW n, n = machine'["Responder"]
    PROVE  /\ \/ \E hello : Greets(hello)
              \/ n = r
              \/ SameTerms(n, r) /\ n.state # "AwaitingHello"
           /\ sessions["Responder"] \subseteq sessions'["Responder"]
           /\ (\E confirmed : Concludes(confirmed)) \/ sessions'["Initiator"] = sessions["Initiator"]
  <1>1. \/ \E hello : Greets(hello)
        \/ n = r
        \/ SameTerms(n, r) /\ n.state # "AwaitingHello"
    BY DEF StepCase, Fails, Idles, Starts, Challenged, Proves, Accepts, Selects,
           Confirms, Concludes, Turns, Moves, Roles
  <1>2. /\ sessions["Responder"] \subseteq sessions'["Responder"]
        /\ (\E confirmed : Concludes(confirmed)) \/ sessions'["Initiator"] = sessions["Initiator"]
    BY DEF StepCase, Fails, Idles, Starts, Greets, Challenged, Proves, Accepts, Selects,
           Confirms, Concludes, Announces, Roles
  <1> QED BY <1>1, <1>2

\* Frames that reach the initiator say what is.
LEMMA ToInitiatorStep ==
    ASSUME Shape, disturbance = "owners", OwnersInv, StepCase,
           NEW f \in Sent("Initiator")'
    PROVE  SaysWhatIs(f, machine["Responder"])'
  <1>1. PICK r, n : r = machine["Responder"] /\ n = machine'["Responder"]
    OBVIOUS
  <1>2. SettingKept /\ config' = config
    BY CommonStep DEF SettingKept
  <1>3. \A g \in Sent("Initiator") : SaysWhatIs(g, r)
    BY <1>1 DEF OwnersInv
  <1> SUFFICES SaysWhatIs(f, n)'
    BY <1>1 DEF SaysWhatIs, NegotiatedSession
  <1>4. ASSUME NEW hello, Greets(hello)
        PROVE  SaysWhatIs(f, n)'
    <2>1. PICK policy, challenge :
            /\ policy = Policy("Responder")
            /\ challenge = ChallengeFrame(n)
      OBVIOUS
    <2>2. /\ r.state = "AwaitingHello" /\ n.state = "AwaitingProof"
          /\ hello \in Sent("Responder") /\ hello.type = "Hello"
          /\ HelloError(policy, hello) = None
          /\ n.remote = hello.identity
          /\ n.link_version = SharedVersion(policy.link_versions, hello.link_versions)
          /\ Arrives("Initiator", challenge)
      BY <1>1, <1>4, <2>1 DEF Greets
    <2>3. CASE f \in Sent("Initiator")
      BY <1>3, <2>2, <2>3 DEF SaysWhatIs
    <2>4. CASE f = challenge
      <3>1. n.link_version # {}
        BY <2>2 DEF HelloError, None
      <3>2. {CHOOSE v \in n.link_version : TRUE} = n.link_version
        BY <2>2, <3>1, SharedIsSingle
      <3>3. n.remote = config["Initiator"].identity
        BY <2>2 DEF OwnersInv
      <3>4. /\ f.type = "Challenge" /\ f.responder = config["Responder"].identity
            /\ {f.link_version} = n.link_version
            /\ f.link_capabilities = n.link_capabilities /\ f.auth_path = n.auth_path
        BY <2>1, <2>4, <3>2 DEF ChallengeFrame
      <3> QED BY <1>2, <2>2, <3>3, <3>4 DEF SaysWhatIs
    <2> QED BY <2>2, <2>3, <2>4 DEF Arrives, Roles
  <1>5. ASSUME n = r \/ (SameTerms(n, r) /\ n.state # "AwaitingHello"), f \in Sent("Initiator")
        PROVE  SaysWhatIs(f, n)'
    <2>1. sessions["Responder"] \subseteq sessions'["Responder"]
      BY <1>1, ResponderKeeps
    <2> QED BY <1>2, <1>3, <1>5, <2>1, SaysKept
  <1>6. ASSUME Accepts, f \notin Sent("Initiator")
        PROVE  SaysWhatIs(f, n)'
    <2>1. /\ f = [type |-> "Selection", session_id |-> r.session_id,
                  protocols |-> r.selected_protocols]
          /\ n.state = "AwaitingConfirmation" /\ SameTerms(n, r)
      BY <1>1, <1>6 DEF Accepts, Arrives, Turns
    <2>2. f.type = "Selection" /\ f.session_id = n.session_id /\ f.protocols = n.selected_protocols
      BY <2>1 DEF SameTerms
    <2> QED BY <2>1, <2>2 DEF SaysWhatIs
  <1>7. ASSUME Confirms, f \notin Sent("Initiator")
        PROVE  SaysWhatIs(f, n)'
    <2>1. /\ f = [type |-> "Confirmed", session_id |-> r.session_id]
          /\ n.state = "Established" /\ SameTerms(n, r)
          /\ NegotiatedSession("Responder", r) \in sessions'["Responder"]
      BY <1>1, <1>7 DEF Confirms, Arrives, Turns, Announces
    <2>2. NegotiatedSession("Responder", n)' = NegotiatedSession("Responder", r)
      BY <1>2, <2>1 DEF NegotiatedSession, SameTerms
    <2>3. f.type = "Confirmed"
      BY <2>1
    <2> QED BY <2>1, <2>2, <2>3 DEF SaysWhatIs
  <1>8. ASSUME Idles, f \notin Sent("Initiator")
        PROVE  SaysWhatIs(f, n)'
    <2>1. f.type = "Reject"
      BY <1>8 DEF Idles, Arrives, NoneArrives, Roles
    <2> QED BY <2>1 DEF SaysWhatIs
  <1>9. ASSUME f \notin Sent("Initiator")
        PROVE  (\E hello : Greets(hello)) \/ Accepts \/ Confirms \/ Idles
    BY <1>9 DEF StepCase, Fails, Starts, Challenged, Proves, Selects, Concludes,
                Arrives, NoneArrives, Roles
  <1>10. \/ \E hello : Greets(hello)
         \/ n = r
         \/ SameTerms(n, r) /\ n.state # "AwaitingHello"
    BY <1>1, ResponderKeeps
  <1> QED BY <1>4, <1>5, <1>6, <1>7, <1>8, <1>9, <1>10

\* Every Hello names the initiator.
LEMMA ToResponderStep ==
    ASSUME Shape, disturbance = "owners", OwnersInv, StepCase,
           NEW f \in Sent("Responder")', f.type = "Hello"
    PROVE  f.identity = config'["Initiator"].identity
  <1>1. config' = config
    BY CommonStep DEF SettingKept
  <1>2. CASE f \in Sent("Responder")
    BY <1>1, <1>2 DEF OwnersInv
  <1>3. CASE f \notin Sent("Responder")
    <2>1. PICK path \in AuthPaths : Starts(path)
      BY <1>3 DEF StepCase, Fails, Idles, Greets, Challenged, Proves, Accepts, Selects,
                  Confirms, Concludes, Arrives, NoneArrives, Roles
    <2>2. f = HelloFrame(path)
      BY <1>3, <2>1 DEF Starts, Arrives
    <2> QED BY <1>1, <2>2 DEF HelloFrame
  <1> QED BY <1>2, <1>3

\* What the initiator took over agrees with the responder.
LEMMA InitiatorAgrees ==
    ASSUME Shape, disturbance = "owners", OwnersInv, StepCase,
           NEW i, i = machine'["Initiator"], NEW r, r = machine'["Responder"]
    PROVE  /\ i.state \in {"AwaitingSelection", "AwaitingConfirmed"} =>
                r.state # "AwaitingHello" /\ LinkAgreed'
           /\ i.state = "AwaitingConfirmed" =>
                i.session_id = r.session_id /\ i.selected_protocols = r.selected_protocols
           /\ i.state \notin {"Established", "Failed"} => sessions'["Initiator"] = {}
  <1>1. PICK j, q : j = machine["Initiator"] /\ q = machine["Responder"]
    OBVIOUS
  <1>2. SettingKept /\ config' = config
    BY CommonStep DEF SettingKept
  <1>3. /\ \A f \in Sent("Initiator") : SaysWhatIs(f, q)
        /\ j.state \in {"AwaitingSelection", "AwaitingConfirmed"} =>
             q.state # "AwaitingHello" /\ LinkAgreed
        /\ j.state = "AwaitingConfirmed" =>
             j.session_id = q.session_id /\ j.selected_protocols = q.selected_protocols
        /\ j.state \notin {"Established", "Failed"} => sessions["Initiator"] = {}
    BY <1>1 DEF OwnersInv
  <1>4. \/ \E hello : Greets(hello)
        \/ r = q
        \/ SameTerms(r, q) /\ r.state # "AwaitingHello"
    BY <1>1, ResponderKeeps
  <1>5. ASSUME i.remote = j.remote, i.link_version = j.link_version,
               i.link_capabilities = j.link_capabilities, i.auth_path = j.auth_path,
               r = q \/ (SameTerms(r, q) /\ r.state # "AwaitingHello"),
               q.state # "AwaitingHello", LinkAgreed
        PROVE  r.state # "AwaitingHello" /\ LinkAgreed'
    BY <1>1, <1>2, <1>5 DEF LinkAgreed, SameTerms
  <1>6. ASSUME i = j, sessions'["Initiator"] = sessions["Initiator"]
        PROVE  /\ i.state \in {"AwaitingSelection", "AwaitingConfirmed"} =>
                    r.state # "AwaitingHello" /\ LinkAgreed'
               /\ i.state = "AwaitingConfirmed" =>
                    i.session_id = r.session_id /\ i.selected_protocols = r.selected_protocols
               /\ i.state \notin {"Established", "Failed"} => sessions'["Initiator"] = {}
    <2>1. ASSUME NEW hello, Greets(hello)
          PROVE  i.state \notin {"AwaitingSelection", "AwaitingConfirmed"}
      BY <1>1, <1>3, <1>6, <2>1 DEF Greets
    <2>2. ASSUME r = q \/ (SameTerms(r, q) /\ r.state # "AwaitingHello"),
                 i.state \in {"AwaitingSelection", "AwaitingConfirmed"}
          PROVE  r.state # "AwaitingHello" /\ LinkAgreed'
      BY <1>3, <1>5, <1>6, <2>2
    <2>3. ASSUME r = q \/ (SameTerms(r, q) /\ r.state # "AwaitingHello"),
                 i.state = "AwaitingConfirmed"
          PROVE  i.session_id = r.session_id /\ i.selected_protocols = r.selected_protocols
      BY <1>3, <1>6, <2>3 DEF SameTerms
    <2> QED BY <1>3, <1>4, <1>6, <2>1, <2>2, <2>3
  <1>7. ASSUME NEW challenge, Challenged(challenge)
        PROVE  /\ i.state = "AwaitingSelection" /\ r.state # "AwaitingHello" /\ LinkAgreed'
               /\ sessions'["Initiator"] = {}
    <2>1. /\ j.state = "AwaitingChallenge" /\ i.state = "AwaitingSelection"
          /\ challenge \in Sent("Initiator") /\ challenge.type = "Challenge"
          /\ j.auth_path = challenge.auth_path
          /\ i.remote = challenge.responder /\ i.auth_path = j.auth_path
          /\ i.link_version = {challenge.link_version}
          /\ i.link_capabilities = challenge.link_capabilities
          /\ r = q
          /\ UNCHANGED sessions
      BY <1>1, <1>7 DEF Challenged, ChallengeAcceptable, Moves, Roles
    <2>2. /\ q.state # "AwaitingHello"
          /\ challenge.responder = config["Responder"].identity
          /\ q.remote = config["Initiator"].identity
          /\ {challenge.link_version} = q.link_version
          /\ challenge.link_capabilities = q.link_capabilities
          /\ challenge.auth_path = q.auth_path
      BY <1>3, <2>1 DEF SaysWhatIs
    <2> QED BY <1>2, <1>3, <2>1, <2>2 DEF LinkAgreed
  <1>8. ASSUME NEW selection, Selects(selection)
        PROVE  /\ i.state = "AwaitingConfirmed" /\ r.state # "AwaitingHello" /\ LinkAgreed'
               /\ i.session_id = r.session_id /\ i.selected_protocols = r.selected_protocols
               /\ sessions'["Initiator"] = {}
    <2>1. /\ j.state = "AwaitingSelection" /\ i.state = "AwaitingConfirmed"
          /\ selection \in Sent("Initiator") /\ selection.type = "Selection"
          /\ i.remote = j.remote /\ i.auth_path = j.auth_path
          /\ i.link_version = j.link_version /\ i.link_capabilities = j.link_capabilities
          /\ i.session_id = selection.session_id
          /\ i.selected_protocols = selection.protocols
          /\ r = q
          /\ UNCHANGED sessions
      BY <1>1, <1>8 DEF Selects, Moves, Roles
    <2>2. selection.session_id = q.session_id /\ selection.protocols = q.selected_protocols
      BY <1>3, <2>1 DEF SaysWhatIs
    <2>3. r.state # "AwaitingHello" /\ LinkAgreed'
      BY <1>3, <1>5, <2>1
    <2> QED BY <1>3, <2>1, <2>2, <2>3
  <1>9. ASSUME NEW path \in AuthPaths, Starts(path)
        PROVE  i.state = "AwaitingChallenge" /\ sessions'["Initiator"] = {}
    BY <1>1, <1>3, <1>9 DEF Starts
  <1>10. \/ i = j /\ sessions'["Initiator"] = sessions["Initiator"]
         \/ i.state \in {"Established", "Failed"}
         \/ \E path \in AuthPaths : Starts(path)
         \/ \E challenge : Challenged(challenge)
         \/ \E selection : Selects(selection)
    <2>1. ASSUME \/ \E role \in Roles : Fails(role)
                 \/ Idles \/ \E hello : Greets(hello) \/ Proves \/ Accepts
                 \/ Confirms \/ \E confirmed : Concludes(confirmed)
          PROVE  \/ i = j /\ sessions'["Initiator"] = sessions["Initiator"]
                 \/ i.state \in {"Established", "Failed"}
      BY <1>1, <2>1 DEF Fails, Idles, Greets, Proves, Accepts, Confirms, Concludes,
                        Turns, Moves, Announces, Roles
    <2> QED BY <2>1, Zenon DEF StepCase
  <1> QED BY <1>6, <1>7, <1>8, <1>9, <1>10

\* With these two machines alone, a frame on its way keeps to what its sender has decided.
LEMMA OwnersStep ==
    ASSUME Shape, disturbance = "owners", OwnersInv, StepCase
    PROVE  OwnersInv'
  <1>1. \A f \in Sent("Initiator")' : SaysWhatIs(f, machine["Responder"])'
    BY ToInitiatorStep
  <1>2. \A f \in Sent("Responder")' :
           f.type = "Hello" => f.identity = config'["Initiator"].identity
    BY ToResponderStep
  <1>3. PICK i, r : i = machine'["Initiator"] /\ r = machine'["Responder"]
    OBVIOUS
  <1>4. /\ i.state \in {"AwaitingSelection", "AwaitingConfirmed"} =>
             r.state # "AwaitingHello" /\ LinkAgreed'
        /\ i.state = "AwaitingConfirmed" =>
             i.session_id = r.session_id /\ i.selected_protocols = r.selected_protocols
        /\ i.state \notin {"Established", "Failed"} => sessions'["Initiator"] = {}
    BY <1>3, InitiatorAgrees
  <1> QED BY <1>1, <1>2, <1>3, <1>4 DEF OwnersInv

\* Every case keeps the agreement of the two sessions.
LEMMA AgreementStep ==
    ASSUME Shape, AgreeInv, StepCase
    PROVE  Agreement'
  <1>1. SUFFICES ASSUME disturbance = "owners"
                 PROVE  /\ Cardinality(sessions'["Initiator"]) <= 1
                        /\ \A t \in sessions'["Initiator"] :
                             [t EXCEPT !.local = t.remote, !.remote = t.local]
                                 \in sessions'["Responder"]
    <2>1. disturbance' = disturbance
      BY CommonStep DEF SettingKept
    <2> QED BY <2>1 DEF Agreement
  <1>2. OwnersInv
    BY <1>1 DEF AgreeInv
  <1>3. /\ sessions["Responder"] \subseteq sessions'["Responder"]
        /\ (\E confirmed : Concludes(confirmed)) \/ sessions'["Initiator"] = sessions["Initiator"]
    BY ResponderKeeps
  <1>4. CASE sessions'["Initiator"] = sessions["Initiator"]
    BY <1>1, <1>3, <1>4 DEF AgreeInv, Agreement
  <1>5. ASSUME NEW confirmed, Concludes(confirmed)
        PROVE  /\ Cardinality(sessions'["Initiator"]) <= 1
               /\ \A t \in sessions'["Initiator"] :
                    [t EXCEPT !.local = t.remote, !.remote = t.local] \in sessions'["Responder"]
    <2>1. PICK t : t = NegotiatedSession("Initiator", machine["Initiator"])
      OBVIOUS
    <2>2. /\ confirmed \in Sent("Initiator") /\ confirmed.type = "Confirmed"
          /\ machine["Initiator"].state = "AwaitingConfirmed"
          /\ sessions'["Initiator"] = sessions["Initiator"] \cup {t}
      BY <1>5, <2>1 DEF Concludes, Announces
    <2>3. sessions'["Initiator"] = {t}
      BY <1>2, <2>2 DEF OwnersInv
    <2>4. Cardinality({t}) = 1
      BY FS_Singleton
    <2>5. NegotiatedSession("Responder", machine["Responder"]) \in sessions["Responder"]
      BY <1>2, <2>2 DEF OwnersInv, SaysWhatIs
    <2>6. [t EXCEPT !.local = t.remote, !.remote = t.local]
             = NegotiatedSession("Responder", machine["Responder"])
      BY <1>2, <2>1, <2>2, SwappedSession DEF OwnersInv
    <2> QED BY <1>3, <2>3, <2>4, <2>5, <2>6
  <1> QED BY <1>3, <1>4, <1>5

\* AgreeInv is an invariant.
THEOREM AgreeInvariant == Spec => []AgreeInv
  <1>1. Init => AgreeInv
    <2> SUFFICES ASSUME Init PROVE AgreeInv
      OBVIOUS
    <2>1. PolicyInv
      BY PolicyInit
    <2>2. /\ sessions["Initiator"] = {} /\ sessions["Responder"] = {}
          /\ inbox["Initiator"] = <<>> /\ inbox["Responder"] = <<>>
          /\ delivered["Initiator"] = {} /\ delivered["Responder"] = {}
      BY DEF Init, Roles
    <2>3. machine["Initiator"].state = "Ready"
      <3>1. PICK i, a : i = Machine("Ready") /\ a = config["Initiator"].session_id
        OBVIOUS
      <3>2. IsMachine(i) /\ i.state = "Ready"
        BY <3>1 DEF Machine, IsMachine
      <3>3. machine["Initiator"] = [i EXCEPT !.session_id = a]
        BY <3>1 DEF Init, Roles
      <3> QED BY <3>2, <3>3 DEF IsMachine
    <2>4. Sent("Initiator") = {} /\ Sent("Responder") = {}
      BY <2>2 DEF Sent, FramesIn
    <2>5. OwnersInv
      BY <2>2, <2>3, <2>4 DEF OwnersInv
    <2>6. Agreement
      <3>1. Cardinality({}) = 0
        BY FS_EmptySet
      <3> QED BY <2>2, <3>1 DEF Agreement
    <2> QED BY <2>5, <2>6 DEF AgreeInv
  <1>2. PolicyInv /\ AgreeInv /\ [Next]_vars => AgreeInv'
    <2> SUFFICES ASSUME PolicyInv, AgreeInv, [Next]_vars PROVE AgreeInv'
      OBVIOUS
    <2>1. Shape /\ StepCase
      BY StepCases DEF PolicyInv
    <2>2. disturbance' = disturbance
      BY <2>1, CommonStep DEF SettingKept
    <2>3. disturbance = "owners" => OwnersInv'
      BY <2>1, OwnersStep DEF AgreeInv
    <2>4. Agreement'
      BY <2>1, AgreementStep
    <2> QED BY <2>2, <2>3, <2>4 DEF AgreeInv
  <1> QED BY <1>1, <1>2, PolicyInvariant, PTL DEF Spec

\* Two machines agree on the session, whatever frames their owners repeat and
\* whatever they call out of turn: the initiator announces at most one session,
\* and only one the responder announced before it (HandshakeMachine::receive).
THEOREM MachinesAgree == Spec => []Agreement
  <1>1. AgreeInv => Agreement
    BY DEF AgreeInv
  <1> QED BY <1>1, AgreeInvariant, PTL

-----------------------------------------------------------------------------
(* Peers that follow the protocol. *)

\* No frame was repeated or came from a stranger, and no call was out of turn.
Quiet == injected = [duplicates |-> 0, foreign |-> 0, misuses |-> FALSE]

InjectedOK ==
    /\ injected = [duplicates |-> injected.duplicates, foreign |-> injected.foreign,
                   misuses |-> injected.misuses]
    /\ injected.duplicates \in Nat /\ injected.foreign \in Nat

\* The initiator will confirm what the responder has granted.
Selectable ==
    SelectionError(machine["Initiator"], Policy("Initiator"),
                   machine["Responder"].selected_protocols) = None

\* One frame is under way, to this role, and of this type.
OnlyFrame(role, type) ==
    /\ inbox[Other(role)] = <<>>
    /\ inbox[role] # <<>> /\ Tail(inbox[role]) = <<>>
    /\ Head(inbox[role]).type = type

NoFrame == inbox["Initiator"] = <<>> /\ inbox["Responder"] = <<>>

\* The two machines are in these states.
InStates(i, r) == machine["Initiator"].state = i /\ machine["Responder"].state = r

\* The phases of a handshake whose responder has not failed.
Unstarted ==
    InStates("Ready", "AwaitingHello") /\ NoFrame /\ machine["Initiator"].auth_path = None

GaveUp ==
    /\ InStates("Failed", "AwaitingHello") /\ machine["Initiator"].auth_path = None
    /\ NoFrame \/ OnlyFrame("Responder", "Reject")

Greeting ==
    LET path == machine["Initiator"].auth_path
    IN  /\ InStates("AwaitingChallenge", "AwaitingHello")
        /\ OnlyFrame("Responder", "Hello")
        /\ path \in AuthPaths
        /\ Head(inbox["Responder"]) = HelloFrame(path)
        /\ Len(Catalog(Policy("Initiator"), path)) <= Policy("Initiator").max_protocol_offers

Challenging ==
    /\ InStates("AwaitingChallenge", "AwaitingProof")
    /\ OnlyFrame("Initiator", "Challenge")
    /\ ChallengeAcceptable(machine["Initiator"], Policy("Initiator"), Head(inbox["Initiator"]))
    /\ Selectable

Proving ==
    /\ InStates("AwaitingSelection", "AwaitingProof")
    /\ OnlyFrame("Responder", "IdentityProof")
    /\ Selectable

Verifying ==
    InStates("AwaitingSelection", "AwaitingVerification") /\ NoFrame /\ Selectable

Selecting ==
    /\ InStates("AwaitingSelection", "AwaitingConfirmation")
    /\ OnlyFrame("Initiator", "Selection")
    /\ Head(inbox["Initiator"]).session_id = machine["Responder"].session_id
    /\ Head(inbox["Initiator"]).protocols = machine["Responder"].selected_protocols
    /\ Selectable

Confirming ==
    /\ InStates("AwaitingConfirmed", "AwaitingConfirmation")
    /\ OnlyFrame("Responder", "Confirm")
    /\ machine["Initiator"].session_id = machine["Responder"].session_id

Concluding ==
    /\ InStates("AwaitingConfirmed", "Established")
    /\ OnlyFrame("Initiator", "Confirmed")
    /\ Head(inbox["Initiator"]).session_id = machine["Initiator"].session_id

Done == InStates("Established", "Established") /\ NoFrame

Phase ==
    \/ Unstarted \/ GaveUp \/ Greeting \/ Challenging \/ Proving
    \/ Verifying \/ Selecting \/ Confirming \/ Concluding \/ Done

HonestInv ==
    /\ InjectedOK
    /\ Quiet /\ machine["Responder"].state # "Failed" => Phase

\* A list has one first offer of each stable id.
LEMMA FirstsUnique ==
    ASSUME NEW offers, IsSequence(offers), NEW i \in Firsts(offers), NEW j \in Firsts(offers),
           offers[i].stable_id = offers[j].stable_id
    PROVE  i = j
  <1>1. /\ i \in 1 .. Len(offers) /\ j \in 1 .. Len(offers) /\ Len(offers) \in Nat
    BY DEF Firsts, IsSequence
  <1>2. /\ \A l \in 1 .. (i - 1) : offers[l].stable_id # offers[i].stable_id
        /\ \A l \in 1 .. (j - 1) : offers[l].stable_id # offers[j].stable_id
    BY DEF Firsts
  <1>3. ~ (j < i) /\ ~ (i < j)
    BY <1>1, <1>2
  <1> QED BY <1>1, <1>3

\* Where a grant comes from.
LEMMA GrantOrigin ==
    ASSUME NEW local, NEW remote, NEW p \in NegotiateProtocols(local, remote)
    PROVE  \E i \in Firsts(local), j \in Firsts(remote) :
             /\ local[i].stable_id = remote[j].stable_id
             /\ \E v \in SharedVersion(local[i].versions, remote[j].versions) :
                    p = Grant(local[i], remote[j], v)
             /\ <<local[i], remote[j]>> \in Matches(local, remote)
  <1>1. PICK m \in Matches(local, remote) :
          \E v \in SharedVersion(m[1].versions, m[2].versions) : p = Grant(m[1], m[2], v)
    BY DEF NegotiateProtocols
  <1>2. PICK q \in Firsts(local) \X Firsts(remote) :
          /\ local[q[1]].stable_id = remote[q[2]].stable_id
          /\ m = <<local[q[1]], remote[q[2]]>>
    BY DEF Matches
  <1>3. PICK i \in Firsts(local), j \in Firsts(remote) : i = q[1] /\ j = q[2]
    BY <1>2
  <1>4. local[i].stable_id = remote[j].stable_id /\ m = <<local[i], remote[j]>>
    BY <1>2, <1>3
  <1>5. m[1] = local[i] /\ m[2] = remote[j]
    BY <1>4
  <1> QED BY <1>1, <1>4, <1>5

\* No stable id is granted twice.
LEMMA GrantsUnique ==
    ASSUME NEW local, IsSequence(local), NEW remote, IsSequence(remote),
           NEW p \in NegotiateProtocols(local, remote),
           NEW q \in NegotiateProtocols(local, remote), p.stable_id = q.stable_id
    PROVE  p = q
  <1>1. PICK i \in Firsts(local), j \in Firsts(remote) :
          /\ local[i].stable_id = remote[j].stable_id
          /\ \E v \in SharedVersion(local[i].versions, remote[j].versions) :
                 p = Grant(local[i], remote[j], v)
          /\ <<local[i], remote[j]>> \in Matches(local, remote)
    BY GrantOrigin
  <1>2. PICK k \in Firsts(local), l \in Firsts(remote) :
          /\ local[k].stable_id = remote[l].stable_id
          /\ \E v \in SharedVersion(local[k].versions, remote[l].versions) :
                 q = Grant(local[k], remote[l], v)
          /\ <<local[k], remote[l]>> \in Matches(local, remote)
    BY GrantOrigin
  <1>3. p.stable_id = local[i].stable_id /\ q.stable_id = local[k].stable_id
    BY <1>1, <1>2 DEF Grant
  <1>4. i = k
    BY <1>3, FirstsUnique
  <1>5. j = l
    BY <1>1, <1>2, <1>3, FirstsUnique
  <1>6. \A v, w \in SharedVersion(local[i].versions, remote[j].versions) : v = w
    BY DEF SharedVersion
  <1> QED BY <1>1, <1>2, <1>4, <1>5, <1>6

\* What is granted without conflict, the remote catalog supports as well.
LEMMA GrantSupportedByRemote ==
    ASSUME NEW local, NEW remote, ~ ProtocolsConflict(local, remote),
           NEW p \in NegotiateProtocols(local, remote),
           \A i \in DOMAIN local : HasMinors(local[i].versions),
           \A j \in DOMAIN remote : HasMinors(remote[j].versions)
    PROVE  Supports(remote, p)
  <1>1. PICK i \in Firsts(local), j \in Firsts(remote) :
          /\ local[i].stable_id = remote[j].stable_id
          /\ \E v \in SharedVersion(local[i].versions, remote[j].versions) :
                 p = Grant(local[i], remote[j], v)
          /\ <<local[i], remote[j]>> \in Matches(local, remote)
    BY GrantOrigin
  <1>2. i \in DOMAIN local /\ j \in DOMAIN remote
    BY DEF Firsts
  <1>3. PICK x, y : x = local[i] /\ y = remote[j]
    OBVIOUS
  <1>4. PICK v \in SharedVersion(x.versions, y.versions) : p = Grant(x, y, v)
    BY <1>1, <1>3
  <1>5. Admits(y.versions, v)
    BY <1>2, <1>3, SharedIsAdmitted
  <1>6. ~ Conflict(x, y)
    <2>1. PICK m : m = <<x, y>>
      OBVIOUS
    <2>2. m \in Matches(local, remote) /\ m[1] = x /\ m[2] = y
      BY <1>1, <1>3, <2>1
    <2> QED BY <2>2 DEF ProtocolsConflict
  <1>7. x.schema = y.schema /\ x.capabilities.protocol_id = y.capabilities.protocol_id
    BY <1>4, <1>6 DEF Conflict
  <1>8. /\ p.stable_id = x.stable_id /\ p.schema = x.schema /\ p.version = v
        /\ p.capabilities.protocol_id = x.capabilities.protocol_id
        /\ p.capabilities.words = x.capabilities.words \cap y.capabilities.words
    BY <1>4 DEF Grant
  <1> QED BY <1>1, <1>2, <1>3, <1>5, <1>7, <1>8 DEF Supports

\* No more is granted than the remote offered.
LEMMA GrantsBounded ==
    ASSUME NEW local, IsSequence(local), NEW remote, IsSequence(remote)
    PROVE  /\ Cardinality(NegotiateProtocols(local, remote)) \in Nat
           /\ Cardinality(NegotiateProtocols(local, remote)) <= Len(remote)
  <1>1. PICK G : G = NegotiateProtocols(local, remote)
    OBVIOUS
  <1>2. PICK of : of = [j \in 1 .. Len(remote) |->
                           CHOOSE p \in G : p.stable_id = remote[j].stable_id]
    OBVIOUS
  <1>3. PICK image : image = {of[j] : j \in 1 .. Len(remote)}
    OBVIOUS
  <1>4. Len(remote) \in Nat /\ DOMAIN remote = 1 .. Len(remote)
    BY DEF IsSequence
  <1>5. G \subseteq image
    <2> SUFFICES ASSUME NEW p \in G PROVE p \in image
      OBVIOUS
    <2>1. PICK i \in Firsts(local), j \in Firsts(remote) :
            /\ local[i].stable_id = remote[j].stable_id
            /\ \E v \in SharedVersion(local[i].versions, remote[j].versions) :
                   p = Grant(local[i], remote[j], v)
            /\ <<local[i], remote[j]>> \in Matches(local, remote)
      BY <1>1, GrantOrigin
    <2>2. j \in 1 .. Len(remote) /\ p.stable_id = remote[j].stable_id
      BY <1>4, <2>1 DEF Firsts, Grant
    <2>3. PICK q : q = CHOOSE g \in G : g.stable_id = remote[j].stable_id
      OBVIOUS
    <2>4. q \in G /\ q.stable_id = remote[j].stable_id
      BY <2>2, <2>3
    <2>5. q = p
      BY <1>1, <2>2, <2>4, GrantsUnique
    <2>6. of[j] = q
      BY <1>2, <2>2, <2>3
    <2> QED BY <1>3, <2>2, <2>5, <2>6
  <1>6. IsFiniteSet(1 .. Len(remote)) /\ Cardinality(1 .. Len(remote)) = Len(remote)
    <2>1. IsFiniteSet(1 .. Len(remote))
      BY <1>4, FS_Interval
    <2>2. Cardinality(1 .. Len(remote)) = IF 1 > Len(remote) THEN 0 ELSE Len(remote) - 1 + 1
      BY <1>4, FS_Interval
    <2> QED BY <1>4, <2>1, <2>2
  <1>7. /\ IsFiniteSet(image)
        /\ Cardinality(image) <= Cardinality(1 .. Len(remote))
    <2>1. of \in Surjection(1 .. Len(remote), image)
      BY <1>2, <1>3 DEF Surjection
    <2> QED BY <1>6, <2>1, FS_Surjection
  <1>8. IsFiniteSet(G) /\ Cardinality(G) <= Cardinality(image)
    BY <1>5, <1>7, FS_Subset
  <1>9. Cardinality(G) \in Nat /\ Cardinality(image) \in Nat
    BY <1>7, <1>8, FS_CardinalityType
  <1> QED BY <1>1, <1>4, <1>6, <1>7, <1>8, <1>9

\* The initiator accepts the challenge and the selection that its own Hello
\* leads to.
LEMMA HonestGrant ==
    ASSUME Shape, NEW path \in AuthPaths, NEW m, m.auth_path = path,
           NEW n, n.auth_path = path,
           NEW mine, mine = Policy("Initiator"), NEW theirs, theirs = Policy("Responder"),
           HelloError(theirs, HelloFrame(path)) = None,
           Len(Catalog(mine, path)) <= mine.max_protocol_offers,
           n.link_version = SharedVersion(theirs.link_versions, mine.link_versions),
           n.link_capabilities = theirs.link_capabilities \cap mine.link_capabilities,
           n.selected_protocols = NegotiateProtocols(Catalog(theirs, path), Catalog(mine, path))
    PROVE  /\ ChallengeAcceptable(m, mine, ChallengeFrame(n))
           /\ SelectionError(m, mine, n.selected_protocols) = None
  <1>1. PICK hello, local, remote : /\ hello = HelloFrame(path)
                                    /\ local = Catalog(theirs, path)
                                    /\ remote = Catalog(mine, path)
    OBVIOUS
  <1>2. /\ hello.protocols = remote /\ hello.requested_auth = path
        /\ hello.link_versions = mine.link_versions
    BY <1>1 DEF HelloFrame
  <1>3. /\ SharedVersion(theirs.link_versions, mine.link_versions) # {}
        /\ ~ ProtocolsConflict(local, remote)
        /\ NegotiateProtocols(local, remote) # {}
    <2>1. HelloError(theirs, hello) = None
      BY <1>1
    <2>2. SharedVersion(theirs.link_versions, hello.link_versions) # {}
      BY <2>1 DEF HelloError, None
    <2>3. ~ ProtocolsConflict(Catalog(theirs, hello.requested_auth), hello.protocols)
      BY <2>1 DEF HelloError, None
    <2>4. NegotiateProtocols(Catalog(theirs, hello.requested_auth), hello.protocols) # {}
      BY <2>1 DEF HelloError, None
    <2> QED BY <1>1, <1>2, <2>2, <2>3, <2>4
  <1>4. /\ HasMinors(theirs.link_versions) /\ HasMinors(mine.link_versions)
        /\ \A i \in DOMAIN local : HasMinors(local[i].versions)
        /\ \A i \in DOMAIN remote : HasMinors(remote[i].versions)
    BY <1>1, ConfigTypes DEF Roles
  <1>5. IsSequence(local) /\ IsSequence(remote) /\ mine.max_protocol_offers \in Nat
    <2>1. PICK meeting \in Meetings : config = meeting.peers
      BY DEF Shape
    <2>2. ASSUME NEW role \in Roles
          PROVE  /\ Policy(role).max_protocol_offers \in Nat
                 /\ IsSequence(Catalog(Policy(role), path))
      <3>1. PICK policy, offers : policy = Policy(role) /\ offers = Catalog(policy, path)
        OBVIOUS
      <3>2. policy = meeting.peers[role].policy
        BY <2>1, <3>1 DEF Policy
      <3>3. policy.max_protocol_offers \in Nat
        BY <3>2, TypesAssumption
      <3>4. IsList(offers)
        BY <3>1, <3>2, TypesAssumption
      <3>5. IsSequence(offers)
        BY <3>4, SequenceOfOwn DEF IsList
      <3> QED BY <3>1, <3>3, <3>5
    <2> QED BY <1>1, <2>2 DEF Roles
  <1>6. ChallengeAcceptable(m, mine, ChallengeFrame(n))
    <2>1. PICK v, f : v = (CHOOSE w \in n.link_version : TRUE) /\ f = ChallengeFrame(n)
      OBVIOUS
    <2>2. f.link_version = v /\ f.link_capabilities = n.link_capabilities /\ f.auth_path = path
      BY <2>1 DEF ChallengeFrame
    <2>3. v \in SharedVersion(theirs.link_versions, mine.link_versions)
      BY <1>3, <2>1
    <2>4. Admits(mine.link_versions, v)
      BY <1>4, <2>3, SharedIsAdmitted
    <2> QED BY <2>1, <2>2, <2>4 DEF ChallengeAcceptable
  <1>7. SelectionError(m, mine, n.selected_protocols) = None
    <2>1. PICK granted : granted = NegotiateProtocols(local, remote)
      OBVIOUS
    <2>2. granted # {} /\ n.selected_protocols = granted
      BY <1>1, <1>3, <2>1
    <2>3. ~ (Cardinality(granted) > mine.max_protocol_offers)
      <3>1. Cardinality(granted) \in Nat /\ Cardinality(granted) <= Len(remote)
        BY <1>5, <2>1, GrantsBounded
      <3>2. Len(remote) \in Nat /\ Len(remote) <= mine.max_protocol_offers
        BY <1>1, <1>5 DEF IsSequence
      <3> QED BY <1>5, <3>1, <3>2
    <2>4. \A s, t \in granted : s.stable_id = t.stable_id => s = t
      BY <1>5, <2>1, GrantsUnique
    <2>5. \A s \in granted : Supports(Catalog(mine, m.auth_path), s)
      BY <1>1, <1>3, <1>4, <2>1, GrantSupportedByRemote
    <2> QED BY <2>2, <2>3, <2>4, <2>5 DEF SelectionError, None
  <1> QED BY <1>6, <1>7

\* The one frame is taken, and one is sent.
LEMMA HandOver ==
    ASSUME Shape, NEW role \in Roles, NEW other \in Roles, other = Other(role), other # role,
           NEW type, NEW frame,
           \/ /\ OnlyFrame(role, type)
              /\ TakeAndSend(role, type, frame)
           \/ NoFrame /\ Send(role, frame)
    PROVE  /\ inbox'[role] = <<>>
           /\ inbox'[other] # <<>> /\ Tail(inbox'[other]) = <<>> /\ Head(inbox'[other]) = frame
  <1>1. Append(<<>>, frame) = <<frame>>
    OBVIOUS
  <1>2. CASE OnlyFrame(role, type) /\ TakeAndSend(role, type, frame)
    <2>1. /\ inbox[other] = <<>> /\ Tail(inbox[role]) = <<>>
          /\ inbox' = [inbox EXCEPT ![role] = Tail(@), ![other] = Append(@, frame)]
      BY <1>2 DEF OnlyFrame, TakeAndSend
    <2>2. inbox'[role] = <<>> /\ inbox'[other] = <<frame>>
      BY <1>1, <2>1 DEF Shape
    <2> QED BY <2>2
  <1>3. CASE NoFrame /\ Send(role, frame)
    <2>1. /\ inbox[other] = <<>> /\ inbox[role] = <<>>
          /\ inbox' = [inbox EXCEPT ![other] = Append(@, frame)]
      BY <1>3 DEF NoFrame, Send, Roles
    <2>2. inbox'[role] = <<>> /\ inbox'[other] = <<frame>>
      BY <1>1, <2>1 DEF Shape
    <2> QED BY <2>2
  <1> QED BY <1>2, <1>3

\* The one frame is taken.
LEMMA TakenAway ==
    ASSUME Shape, NEW role \in Roles, NEW type, OnlyFrame(role, type), TakeOnly(role, type)
    PROVE  NoFrame'
  <1>1. /\ inbox[Other(role)] = <<>> /\ Tail(inbox[role]) = <<>>
        /\ inbox' = [inbox EXCEPT ![role] = Tail(@)]
    BY DEF OnlyFrame, TakeOnly
  <1> QED BY <1>1, OtherFacts DEF Shape, NoFrame, Roles

\* What was selectable stays so while the policies, the path and the selection stay.
LEMMA SelectableKept ==
    ASSUME Selectable, SettingKept,
           machine'["Initiator"].auth_path = machine["Initiator"].auth_path,
           machine'["Responder"].selected_protocols = machine["Responder"].selected_protocols
    PROVE  Selectable'
  BY DEF Selectable, SelectionError, Policy, SettingKept

\* A failed responder stays failed.
LEMMA FailedStays ==
    ASSUME Shape, StepCase, machine["Responder"].state = "Failed"
    PROVE  machine'["Responder"].state = "Failed"
  BY DEF StepCase, Fails, Idles, Starts, Greets, Challenged, Proves, Accepts, Selects,
         Confirms, Concludes, Turns, Moves, Roles

\* A step after which nothing was disturbed is one of the protocol.
LEMMA QuietStep ==
    ASSUME InjectedOK, [Next]_vars
    PROVE  /\ InjectedOK'
           /\ Quiet' =>
                /\ Quiet
                /\ \/ \E path \in AuthPaths : Start(path)
                   \/ ReceiveHello \/ ReceiveChallenge \/ ReceiveProof
                   \/ ReceiveSelection \/ ReceiveConfirm \/ ReceiveConfirmed
                   \/ \E decision : DecideIdentity(decision)
                   \/ \E role \in Roles : \/ ReceiveReject(role) \/ ReceiveUnexpected(role)
                                          \/ SendReject(role)
                   \/ UNCHANGED vars
  <1>1. ASSUME NEW role \in Roles, StartOutOfTurn(role) \/ DecideOutOfTurn(role)
        PROVE  InjectedOK' /\ ~ Quiet'
    <2>1. injected' = [injected EXCEPT !.misuses = TRUE]
      BY <1>1 DEF StartOutOfTurn, DecideOutOfTurn
    <2>2. injected' = [duplicates |-> injected.duplicates, foreign |-> injected.foreign,
                       misuses |-> TRUE]
      BY <2>1 DEF InjectedOK
    <2>3. injected'.misuses = TRUE
      BY <2>2
    <2> QED BY <2>2, <2>3 DEF InjectedOK, Quiet
  <1>2. ASSUME NEW role \in Roles, Duplicate(role)
        PROVE  InjectedOK' /\ ~ Quiet'
    <2>1. PICK d : d = injected.duplicates + 1
      OBVIOUS
    <2>2. d \in Nat /\ d # 0
      BY <2>1 DEF InjectedOK
    <2>3. injected' = [injected EXCEPT !.duplicates = d]
      BY <1>2, <2>1 DEF Duplicate
    <2>4. injected' = [duplicates |-> d, foreign |-> injected.foreign,
                       misuses |-> injected.misuses]
      BY <2>3 DEF InjectedOK
    <2>5. injected'.duplicates = d /\ injected'.foreign = injected.foreign
      BY <2>4
    <2> QED BY <2>2, <2>4, <2>5 DEF InjectedOK, Quiet
  <1>3. ASSUME Foreign
        PROVE  InjectedOK' /\ ~ Quiet'
    <2>1. PICK d : d = injected.foreign + 1
      OBVIOUS
    <2>2. d \in Nat /\ d # 0
      BY <2>1 DEF InjectedOK
    <2>3. injected' = [injected EXCEPT !.foreign = d]
      BY <1>3, <2>1 DEF Foreign
    <2>4. injected' = [duplicates |-> injected.duplicates, foreign |-> d,
                       misuses |-> injected.misuses]
      BY <2>3 DEF InjectedOK
    <2>5. injected'.foreign = d /\ injected'.duplicates = injected.duplicates
      BY <2>4
    <2> QED BY <2>2, <2>4, <2>5 DEF InjectedOK, Quiet
  <1>4. ASSUME UNCHANGED injected
        PROVE  InjectedOK' /\ (Quiet' => Quiet)
    BY <1>4 DEF InjectedOK, Quiet
  <1>5. \/ \E path \in AuthPaths : Start(path)
        \/ ReceiveHello \/ ReceiveChallenge \/ ReceiveProof
        \/ ReceiveSelection \/ ReceiveConfirm \/ ReceiveConfirmed
        \/ \E decision : DecideIdentity(decision)
        \/ \E role \in Roles : ReceiveReject(role) \/ ReceiveUnexpected(role) \/ SendReject(role)
        \/ UNCHANGED vars
        \/ \E role \in Roles : StartOutOfTurn(role) \/ DecideOutOfTurn(role)
        \/ \E role \in Roles : Duplicate(role)
        \/ Foreign
    BY Zenon DEF Next, Receive
  <1>6. ASSUME \/ \E path \in AuthPaths : Start(path)
               \/ ReceiveHello \/ ReceiveChallenge \/ ReceiveProof
               \/ ReceiveSelection \/ ReceiveConfirm \/ ReceiveConfirmed
               \/ \E decision : DecideIdentity(decision)
               \/ \E role \in Roles : ReceiveReject(role) \/ ReceiveUnexpected(role) \/ SendReject(role)
               \/ UNCHANGED vars
        PROVE  UNCHANGED injected
    BY <1>6 DEF Start, ReceiveHello, ReceiveChallenge, ReceiveProof, ReceiveSelection,
                ReceiveConfirm, ReceiveConfirmed, DecideIdentity, ReceiveReject,
                ReceiveUnexpected, SendReject, vars
  <1> QED BY <1>1, <1>2, <1>3, <1>4, <1>5, <1>6, Zenon

\* The first half of the handshake goes from phase to phase.
LEMMA EarlyPhases ==
    ASSUME Shape, Phase, machine'["Responder"].state # "Failed",
           \/ \E path \in AuthPaths : Start(path)
           \/ ReceiveHello \/ ReceiveChallenge \/ ReceiveProof
    PROVE  Phase'
  <1>1. ASSUME NEW path \in AuthPaths, Start(path)
        PROVE  Phase'
    <2>1. Unstarted
      <3>1. machine["Initiator"].state = "Ready"
        BY <1>1 DEF Start
      <3> QED BY <3>1 DEF Phase, Unstarted, GaveUp, Greeting, Challenging, Proving, Verifying,
                          Selecting, Confirming, Concluding, Done, InStates
    <2>2. CASE Fails("Initiator") /\ UNCHANGED inbox
      <3>1. GaveUp'
        BY <2>1, <2>2 DEF Unstarted, GaveUp, Fails, Turns, Moves, SameTerms, InStates, NoFrame, Roles
      <3> QED BY <3>1 DEF Phase
    <2>3. CASE /\ Starts(path) /\ Send("Initiator", HelloFrame(path))
               /\ Len(Catalog(Policy("Initiator"), path))
                     <= Policy("Initiator").max_protocol_offers
      <3>1. PICK f : f = HelloFrame(path)
        OBVIOUS
      <3>2. /\ inbox'["Initiator"] = <<>>
            /\ inbox'["Responder"] # <<>> /\ Tail(inbox'["Responder"]) = <<>>
            /\ Head(inbox'["Responder"]) = f
        BY <2>1, <2>3, <3>1, OtherFacts, HandOver DEF Unstarted, Roles
      <3>3. f.type = "Hello" /\ config' = config /\ f = HelloFrame(path)'
        BY <2>3, <3>1 DEF HelloFrame, Policy, Starts, SettingKept
      <3>4. OnlyFrame("Responder", "Hello")'
        BY <3>2, <3>3, OtherFacts DEF OnlyFrame
      <3>5. /\ machine'["Initiator"].state = "AwaitingChallenge"
            /\ machine'["Initiator"].auth_path = path
            /\ machine'["Responder"].state = "AwaitingHello"
        BY <2>1, <2>3 DEF Starts, Moves, Unstarted, InStates, Roles
      <3>6. Len(Catalog(Policy("Initiator"), path))' <= Policy("Initiator").max_protocol_offers'
        BY <2>3, <3>3 DEF Policy
      <3>7. Greeting'
        BY <3>2, <3>3, <3>4, <3>5, <3>6 DEF Greeting, InStates, HelloFrame, Policy
      <3> QED BY <3>7 DEF Phase
    <2> QED BY <1>1, <2>2, <2>3, StartCase
  <1>2. ASSUME ReceiveHello
        PROVE  Phase'
    <2>1. Greeting
      <3>1. /\ machine["Responder"].state = "AwaitingHello"
            /\ inbox["Responder"] # <<>> /\ Head(inbox["Responder"]).type = "Hello"
        BY <1>2 DEF ReceiveHello, TakeOnly, Take
      <3> QED BY <3>1 DEF Phase, Unstarted, GaveUp, Greeting, Challenging, Proving, Verifying,
                          Selecting, Confirming, Concluding, Done, InStates, NoFrame, OnlyFrame
    <2>2. PICK path, hello, m, n :
            /\ path \in AuthPaths /\ path = machine["Initiator"].auth_path
            /\ hello = Head(inbox["Responder"]) /\ hello = HelloFrame(path)
            /\ m = machine["Initiator"] /\ n = machine'["Responder"]
      BY <2>1 DEF Greeting
    <2>3. Greets(hello) /\ TakeAndSend("Responder", "Hello", ChallengeFrame(n))
      BY <1>2, <2>2, HelloCase DEF Fails, Turns
    <2>4. PICK f, mine, theirs : /\ f = ChallengeFrame(n)
                                 /\ mine = Policy("Initiator") /\ theirs = Policy("Responder")
      OBVIOUS
    <2>5. /\ hello.protocols = Catalog(mine, path) /\ hello.requested_auth = path
          /\ hello.link_versions = mine.link_versions
          /\ hello.link_capabilities = mine.link_capabilities
      BY <2>2, <2>4 DEF HelloFrame
    <2>6. /\ HelloError(theirs, HelloFrame(path)) = None
          /\ n.state = "AwaitingProof" /\ n.auth_path = path
          /\ n.link_version = SharedVersion(theirs.link_versions, mine.link_versions)
          /\ n.link_capabilities = theirs.link_capabilities \cap mine.link_capabilities
          /\ n.selected_protocols = NegotiateProtocols(Catalog(theirs, path), Catalog(mine, path))
          /\ machine'["Initiator"] = m
          /\ config' = config
      BY <2>2, <2>3, <2>4, <2>5 DEF Greets, Moves, SettingKept, Roles
    <2>7. m.state = "AwaitingChallenge" /\ m.auth_path = path
          /\ Len(Catalog(mine, path)) <= mine.max_protocol_offers
      BY <2>1, <2>2, <2>4 DEF Greeting, InStates
    <2>8. ChallengeAcceptable(m, mine, f) /\ SelectionError(m, mine, n.selected_protocols) = None
      BY <2>2, <2>4, <2>6, <2>7, HonestGrant
    <2>9. /\ inbox'["Responder"] = <<>>
          /\ inbox'["Initiator"] # <<>> /\ Tail(inbox'["Initiator"]) = <<>>
          /\ Head(inbox'["Initiator"]) = f
      BY <2>1, <2>3, <2>4, OtherFacts, HandOver DEF Greeting, Roles
    <2>10. f.type = "Challenge"
      BY <2>4 DEF ChallengeFrame
    <2>11. OnlyFrame("Initiator", "Challenge")'
      BY <2>9, <2>10, OtherFacts DEF OnlyFrame
    <2>12. Policy("Initiator")' = mine
      BY <2>4, <2>6 DEF Policy
    <2>13. Selectable'
      BY <2>2, <2>6, <2>8, <2>12 DEF Selectable
    <2>14. Challenging'
      BY <2>2, <2>6, <2>7, <2>8, <2>9, <2>11, <2>12, <2>13 DEF Challenging, InStates
    <2> QED BY <2>14 DEF Phase
  <1>3. ASSUME ReceiveChallenge
        PROVE  Phase'
    <2>1. Challenging
      <3>1. /\ machine["Initiator"].state = "AwaitingChallenge"
            /\ inbox["Initiator"] # <<>>
        BY <1>3 DEF ReceiveChallenge, TakeOnly, TakeAndSend, Take
      <3> QED BY <3>1, OtherFacts
              DEF Phase, Unstarted, GaveUp, Greeting, Challenging, Proving, Verifying,
                  Selecting, Confirming, Concluding, Done, InStates, NoFrame, OnlyFrame
    <2>2. PICK challenge, f :
            /\ challenge = Head(inbox["Initiator"])
            /\ f = [type |-> "IdentityProof", length |-> config["Initiator"].proof_length]
      OBVIOUS
    <2>3. Challenged(challenge) /\ TakeAndSend("Initiator", "Challenge", f)
      BY <1>3, <2>1, <2>2, ChallengeCase DEF Challenging
    <2>4. /\ inbox'["Initiator"] = <<>>
          /\ inbox'["Responder"] # <<>> /\ Tail(inbox'["Responder"]) = <<>>
          /\ Head(inbox'["Responder"]) = f
      BY <2>1, <2>3, OtherFacts, HandOver DEF Challenging, Roles
    <2>5. OnlyFrame("Responder", "IdentityProof")'
      BY <2>2, <2>4, OtherFacts DEF OnlyFrame
    <2>6. /\ machine'["Initiator"].state = "AwaitingSelection"
          /\ machine'["Initiator"].auth_path = machine["Initiator"].auth_path
          /\ machine'["Responder"] = machine["Responder"]
          /\ SettingKept
      BY <2>3 DEF Challenged, Moves, Roles
    <2>7. Selectable'
      BY <2>1, <2>6, SelectableKept DEF Challenging
    <2>8. Proving'
      BY <2>1, <2>5, <2>6, <2>7 DEF Proving, Challenging, InStates
    <2> QED BY <2>8 DEF Phase
  <1>4. ASSUME ReceiveProof
        PROVE  Phase'
    <2>1. Proving
      <3>1. /\ machine["Responder"].state = "AwaitingProof"
            /\ inbox["Responder"] # <<>>
        BY <1>4 DEF ReceiveProof, TakeOnly, Take
      <3> QED BY <3>1, OtherFacts
              DEF Phase, Unstarted, GaveUp, Greeting, Challenging, Proving, Verifying,
                  Selecting, Confirming, Concluding, Done, InStates, NoFrame, OnlyFrame
    <2>2. Proves /\ TakeOnly("Responder", "IdentityProof")
      BY <1>4, ProofCase DEF Fails, Turns
    <2>3. NoFrame'
      BY <2>1, <2>2, TakenAway DEF Proving, Roles
    <2>4. /\ machine'["Responder"].state = "AwaitingVerification"
          /\ machine'["Responder"].selected_protocols = machine["Responder"].selected_protocols
          /\ machine'["Initiator"] = machine["Initiator"]
          /\ SettingKept
      BY <2>2 DEF Proves, Turns, Moves, SameTerms, Roles
    <2>5. Selectable'
      BY <2>1, <2>4, SelectableKept DEF Proving
    <2>6. Verifying'
      BY <2>1, <2>3, <2>4, <2>5 DEF Proving, Verifying, InStates
    <2> QED BY <2>6 DEF Phase
  <1> QED BY <1>1, <1>2, <1>3, <1>4

\* And so does the second half.
LEMMA LatePhases ==
    ASSUME Shape, Phase, machine'["Responder"].state # "Failed",
           \/ \E decision : DecideIdentity(decision)
           \/ ReceiveSelection \/ ReceiveConfirm \/ ReceiveConfirmed
    PROVE  Phase'
  <1>1. ASSUME NEW decision, DecideIdentity(decision)
        PROVE  Phase'
    <2>1. Verifying
      <3>1. machine["Responder"].state = "AwaitingVerification"
        BY <1>1 DEF DecideIdentity
      <3> QED BY <3>1 DEF Phase, Unstarted, GaveUp, Greeting, Challenging, Proving, Verifying,
                          Selecting, Confirming, Concluding, Done, InStates
    <2>2. PICK f : f = [type |-> "Selection", session_id |-> machine["Responder"].session_id,
                        protocols |-> machine["Responder"].selected_protocols]
      OBVIOUS
    <2>3. Accepts /\ Send("Responder", f)
      BY <1>1, <2>2, DecideCase DEF Fails, Turns
    <2>4. /\ inbox'["Responder"] = <<>>
          /\ inbox'["Initiator"] # <<>> /\ Tail(inbox'["Initiator"]) = <<>>
          /\ Head(inbox'["Initiator"]) = f
      BY <2>1, <2>3, OtherFacts, HandOver DEF Verifying, Roles
    <2>5. /\ f.type = "Selection" /\ f.session_id = machine["Responder"].session_id
          /\ f.protocols = machine["Responder"].selected_protocols
      BY <2>2
    <2>6. OnlyFrame("Initiator", "Selection")'
      BY <2>4, <2>5, OtherFacts DEF OnlyFrame
    <2>7. /\ machine'["Responder"].state = "AwaitingConfirmation"
          /\ machine'["Responder"].selected_protocols = machine["Responder"].selected_protocols
          /\ machine'["Responder"].session_id = machine["Responder"].session_id
          /\ machine'["Initiator"] = machine["Initiator"]
          /\ SettingKept
      BY <2>3 DEF Accepts, Turns, Moves, SameTerms, Roles
    <2>8. Selectable'
      BY <2>1, <2>7, SelectableKept DEF Verifying
    <2>9. Selecting'
      BY <2>1, <2>4, <2>5, <2>6, <2>7, <2>8 DEF Verifying, Selecting, InStates
    <2> QED BY <2>9 DEF Phase
  <1>2. ASSUME ReceiveSelection
        PROVE  Phase'
    <2>1. Selecting
      <3>1. /\ machine["Initiator"].state = "AwaitingSelection"
            /\ inbox["Initiator"] # <<>>
        BY <1>2 DEF ReceiveSelection, TakeOnly, TakeAndSend, Take
      <3> QED BY <3>1, OtherFacts
              DEF Phase, Unstarted, GaveUp, Greeting, Challenging, Proving, Verifying,
                  Selecting, Confirming, Concluding, Done, InStates, NoFrame, OnlyFrame
    <2>2. PICK selection, f :
            /\ selection = Head(inbox["Initiator"])
            /\ f = [type |-> "Confirm", session_id |-> selection.session_id]
      OBVIOUS
    <2>3. /\ selection.protocols = machine["Responder"].selected_protocols
          /\ selection.session_id = machine["Responder"].session_id
          /\ SelectionError(machine["Initiator"], Policy("Initiator"), selection.protocols) = None
      BY <2>1, <2>2 DEF Selecting, Selectable
    <2>4. Selects(selection) /\ TakeAndSend("Initiator", "Selection", f)
      BY <1>2, <2>2, <2>3, SelectionCase
    <2>5. /\ inbox'["Initiator"] = <<>>
          /\ inbox'["Responder"] # <<>> /\ Tail(inbox'["Responder"]) = <<>>
          /\ Head(inbox'["Responder"]) = f
      BY <2>1, <2>4, OtherFacts, HandOver DEF Selecting, Roles
    <2>6. OnlyFrame("Responder", "Confirm")'
      BY <2>2, <2>5, OtherFacts DEF OnlyFrame
    <2>7. /\ machine'["Initiator"].state = "AwaitingConfirmed"
          /\ machine'["Initiator"].session_id = selection.session_id
          /\ machine'["Responder"] = machine["Responder"]
      BY <2>4 DEF Selects, Moves, Roles
    <2>8. Confirming'
      BY <2>1, <2>3, <2>6, <2>7 DEF Selecting, Confirming, InStates
    <2> QED BY <2>8 DEF Phase
  <1>3. ASSUME ReceiveConfirm
        PROVE  Phase'
    <2>1. Confirming
      <3>1. /\ machine["Responder"].state = "AwaitingConfirmation"
            /\ inbox["Responder"] # <<>>
        BY <1>3 DEF ReceiveConfirm, TakeOnly, TakeAndSend, Take
      <3> QED BY <3>1, OtherFacts
              DEF Phase, Unstarted, GaveUp, Greeting, Challenging, Proving, Verifying,
                  Selecting, Confirming, Concluding, Done, InStates, NoFrame, OnlyFrame
    <2>2. PICK f : f = [type |-> "Confirmed", session_id |-> machine["Responder"].session_id]
      OBVIOUS
    <2>3. Confirms /\ TakeAndSend("Responder", "Confirm", f)
      BY <1>3, <2>2, ConfirmCase DEF Fails, Turns
    <2>4. /\ inbox'["Responder"] = <<>>
          /\ inbox'["Initiator"] # <<>> /\ Tail(inbox'["Initiator"]) = <<>>
          /\ Head(inbox'["Initiator"]) = f
      BY <2>1, <2>3, OtherFacts, HandOver DEF Confirming, Roles
    <2>5. f.type = "Confirmed" /\ f.session_id = machine["Responder"].session_id
      BY <2>2
    <2>6. OnlyFrame("Initiator", "Confirmed")'
      BY <2>4, <2>5, OtherFacts DEF OnlyFrame
    <2>7. /\ machine'["Responder"].state = "Established"
          /\ machine'["Initiator"] = machine["Initiator"]
      BY <2>3 DEF Confirms, Turns, Moves, Roles
    <2>8. Concluding'
      BY <2>1, <2>4, <2>5, <2>6, <2>7 DEF Confirming, Concluding, InStates
    <2> QED BY <2>8 DEF Phase
  <1>4. ASSUME ReceiveConfirmed
        PROVE  Phase'
    <2>1. Concluding
      <3>1. /\ machine["Initiator"].state = "AwaitingConfirmed"
            /\ inbox["Initiator"] # <<>>
        BY <1>4 DEF ReceiveConfirmed, TakeOnly, Take
      <3> QED BY <3>1, OtherFacts
              DEF Phase, Unstarted, GaveUp, Greeting, Challenging, Proving, Verifying,
                  Selecting, Confirming, Concluding, Done, InStates, NoFrame, OnlyFrame
    <2>2. /\ TakeOnly("Initiator", "Confirmed")
          /\ Concludes(Head(inbox["Initiator"]))
      BY <1>4, <2>1, ConfirmedCase DEF Concluding
    <2>3. NoFrame'
      BY <2>1, <2>2, TakenAway DEF Concluding, Roles
    <2>4. /\ machine'["Initiator"].state = "Established"
          /\ machine'["Responder"] = machine["Responder"]
      BY <2>2 DEF Concludes, Turns, Moves, Roles
    <2>5. Done'
      BY <2>1, <2>3, <2>4 DEF Concluding, Done, InStates
    <2> QED BY <2>5 DEF Phase
  <1> QED BY <1>1, <1>2, <1>3, <1>4

\* A rejection comes only from an initiator that never sent its Hello, or is
\* taken by the responder; and nothing unexpected reaches the initiator.
LEMMA RejectPhases ==
    ASSUME Shape, Phase, machine["Responder"].state # "Failed",
           machine'["Responder"].state # "Failed", NEW role \in Roles,
           ReceiveReject(role) \/ ReceiveUnexpected(role) \/ SendReject(role)
    PROVE  Phase'
  <1>1. ASSUME ReceiveReject(role) \/ ReceiveUnexpected(role)
        PROVE  FALSE
    <2>1. role = "Initiator"
      <3>1. Fails(role)
        BY <1>1, FailureCase
      <3> QED BY <3>1 DEF Fails, Turns, Roles
    <2>2. /\ inbox["Initiator"] # <<>>
          /\ Head(inbox["Initiator"]).type # Expected(machine["Initiator"].state)
             \/ Head(inbox["Initiator"]).type = "Reject"
      BY <1>1, <2>1 DEF ReceiveReject, ReceiveUnexpected, TakeOnly, Take
    <2>3. /\ Expected("AwaitingChallenge") = "Challenge"
          /\ Expected("AwaitingSelection") = "Selection"
          /\ Expected("AwaitingConfirmed") = "Confirmed"
      BY DEF Expected
    <2>4. Challenging \/ Selecting \/ Concluding
      BY <2>2, OtherFacts
         DEF Phase, Unstarted, GaveUp, Greeting, Proving, Verifying, Confirming, Done,
             NoFrame, OnlyFrame
    <2> QED BY <2>2, <2>3, <2>4 DEF Challenging, Selecting, Concluding, OnlyFrame, InStates
  <1>2. ASSUME SendReject(role)
        PROVE  Phase'
    <2>1. role = "Initiator" /\ machine["Initiator"].state = "Failed"
      BY <1>2 DEF SendReject, Roles
    <2>2. GaveUp
      BY <2>1 DEF Phase, Unstarted, GaveUp, Greeting, Challenging, Proving, Verifying,
                  Selecting, Confirming, Concluding, Done, InStates
    <2>3. NoFrame
      <3>1. \A n \in DOMAIN inbox["Responder"] : inbox["Responder"][n].type # "Reject"
        BY <1>2, <2>1, OtherFacts DEF SendReject
      <3>2. ASSUME inbox["Responder"] # <<>>
            PROVE  Head(inbox["Responder"]).type # "Reject"
        <4>1. PICK q : q = inbox["Responder"]
          OBVIOUS
        <4>2. IsSequence(q)
          BY <4>1 DEF Shape, Roles
        <4>3. Head(q) \in FramesIn(q)
          BY <3>2, <4>1, <4>2, InboxFacts
        <4> QED BY <3>1, <4>1, <4>3 DEF FramesIn
      <3> QED BY <2>2, <3>2 DEF GaveUp, OnlyFrame
    <2>4. PICK f : f = [type |-> "Reject", kind |-> error["Initiator"]]
      OBVIOUS
    <2>5. Send("Initiator", f) /\ UNCHANGED machine
      BY <1>2, <2>1, <2>4 DEF SendReject
    <2>6. /\ inbox'["Initiator"] = <<>>
          /\ inbox'["Responder"] # <<>> /\ Tail(inbox'["Responder"]) = <<>>
          /\ Head(inbox'["Responder"]) = f
      BY <2>3, <2>5, OtherFacts, HandOver DEF Roles
    <2>7. f.type = "Reject"
      BY <2>4
    <2>8. GaveUp'
      BY <2>2, <2>5, <2>6, <2>7, OtherFacts DEF GaveUp, OnlyFrame, InStates
    <2> QED BY <2>8 DEF Phase
  <1> QED BY <1>1, <1>2

\* Every step of an undisturbed handshake leads from one phase to another.
LEMMA HonestStep ==
    ASSUME Shape, HonestInv, [Next]_vars
    PROVE  HonestInv'
  <1>1. StepCase
    BY StepCases
  <1>2. InjectedOK'
    BY QuietStep DEF HonestInv
  <1>3. ASSUME Quiet', machine'["Responder"].state # "Failed"
        PROVE  Phase'
    <2>1. /\ Quiet
          /\ \/ \E path \in AuthPaths : Start(path)
             \/ ReceiveHello \/ ReceiveChallenge \/ ReceiveProof
             \/ ReceiveSelection \/ ReceiveConfirm \/ ReceiveConfirmed
             \/ \E decision : DecideIdentity(decision)
             \/ \E role \in Roles : \/ ReceiveReject(role) \/ ReceiveUnexpected(role)
                                    \/ SendReject(role)
             \/ UNCHANGED vars
      BY <1>3, QuietStep DEF HonestInv
    <2>2. machine["Responder"].state # "Failed"
      BY <1>1, <1>3, FailedStays
    <2>3. Phase
      BY <2>1, <2>2 DEF HonestInv
    <2>4. CASE UNCHANGED vars
      BY <2>3, <2>4 DEF vars, setting, Phase, Unstarted, GaveUp, Greeting, Challenging, Proving,
            Verifying, Selecting, Confirming, Concluding, Done, InStates, NoFrame, OnlyFrame,
            Selectable, HelloFrame, Policy
    <2>5. CASE \/ \E path \in AuthPaths : Start(path)
               \/ ReceiveHello \/ ReceiveChallenge \/ ReceiveProof
      BY <1>3, <2>3, <2>5, EarlyPhases
    <2>6. CASE \/ \E decision : DecideIdentity(decision)
               \/ ReceiveSelection \/ ReceiveConfirm \/ ReceiveConfirmed
      BY <1>3, <2>3, <2>6, LatePhases
    <2>7. ASSUME NEW role \in Roles,
                 ReceiveReject(role) \/ ReceiveUnexpected(role) \/ SendReject(role)
          PROVE  Phase'
      BY <1>3, <2>2, <2>3, <2>7, RejectPhases
    <2> QED BY <2>1, <2>4, <2>5, <2>6, <2>7
  <1> QED BY <1>2, <1>3 DEF HonestInv

\* Between peers that follow the protocol the initiator never refuses what the
\* responder negotiated: its checks of challenge and selection agree with the
\* responder's choices for every pair of policies (negotiate_protocols against
\* validate_selection).
THEOREM HonestInitiatorConfirms == Spec => []HonestPeersAgree
  <1>1. Init => HonestInv
    <2> SUFFICES ASSUME Init PROVE HonestInv
      OBVIOUS
    <2>1. InjectedOK
      <3>1. injected = [duplicates |-> 0, foreign |-> 0, misuses |-> FALSE]
        BY DEF Init
      <3> QED BY <3>1 DEF InjectedOK
    <2>2. /\ machine["Initiator"].state = "Ready" /\ machine["Initiator"].auth_path = None
          /\ machine["Responder"].state = "AwaitingHello"
      <3>1. PICK i, r, a, b : /\ i = Machine("Ready") /\ r = Machine("AwaitingHello")
                              /\ a = config["Initiator"].session_id
                              /\ b = config["Responder"].session_id
        OBVIOUS
      <3>2. /\ IsMachine(i) /\ i.state = "Ready" /\ i.auth_path = None
            /\ IsMachine(r) /\ r.state = "AwaitingHello"
        BY <3>1 DEF Machine, IsMachine
      <3>3. /\ machine["Initiator"] = [i EXCEPT !.session_id = a]
            /\ machine["Responder"] = [r EXCEPT !.session_id = b]
        BY <3>1 DEF Init, Roles
      <3> QED BY <3>2, <3>3 DEF IsMachine
    <2>3. NoFrame
      BY DEF Init, NoFrame, Roles
    <2>4. Unstarted
      BY <2>2, <2>3 DEF Unstarted, InStates
    <2> QED BY <2>1, <2>4 DEF HonestInv, Phase
  <1>2. PolicyInv /\ HonestInv /\ [Next]_vars => HonestInv'
    BY HonestStep DEF PolicyInv
  <1>3. HonestInv => HonestPeersAgree
    BY DEF HonestInv, HonestPeersAgree, Quiet, Phase, Unstarted, GaveUp, Greeting, Challenging,
           Proving, Verifying, Selecting, Confirming, Concluding, Done, InStates
  <1> QED BY <1>1, <1>2, <1>3, PolicyInvariant, PTL DEF Spec


-----------------------------------------------------------------------------
(* The protocol registries: the sum of their channels *)

\* The number of channels of a descriptor, and their sum as the fold computes it.
Weight(d) == Cardinality(d.channels)

First(S) == CHOOSE x \in S : TRUE

IsSum(f, S) ==
    f = [s \in SUBSET S |-> IF s = {} THEN 0 ELSE Weight(First(s)) + f[s \ {First(s)}]]

ChannelSum(S) == MapThenSumSet(LAMBDA d : Cardinality(d.channels), S)

\* The element the fold takes next, and what is left.
LEMMA FirstFacts ==
    ASSUME NEW S, IsFiniteSet(S), S # {}
    PROVE  /\ First(S) \in S /\ IsFiniteSet(S \ {First(S)})
           /\ Cardinality(S) \in Nat /\ Cardinality(S \ {First(S)}) = Cardinality(S) - 1
           /\ Cardinality(S \ {First(S)}) \in Nat
<1>1. First(S) \in S
  BY DEF First
<1>2. IsFiniteSet(S \ {First(S)}) /\ Cardinality(S \ {First(S)}) = Cardinality(S) - 1
  BY <1>1, FS_RemoveElement
<1> QED
  BY <1>1, <1>2, FS_CardinalityType

\* Two sums over one set agree on every part of it.
LEMMA SumUnique ==
    ASSUME NEW S, NEW R, NEW f, NEW g, IsSum(f, S), IsSum(g, R),
           NEW t, t \subseteq S, t \subseteq R, IsFiniteSet(t)
    PROVE  f[t] = g[t]
<1> DEFINE Fits(s) == s \subseteq S /\ s \subseteq R /\ IsFiniteSet(s) /\ f[s] # g[s]
           T == {n \in Nat : \E s \in SUBSET S : Fits(s) /\ Cardinality(s) = n}
<1> SUFFICES ASSUME f[t] # g[t] PROVE FALSE
  OBVIOUS
<1>1. T # {}
  <2>1. Fits(t) /\ t \in SUBSET S /\ Cardinality(t) \in Nat
    BY FS_CardinalityType
  <2> QED
    BY <2>1
<1>2. PICK n \in T : \A m \in T : n <= m
  BY <1>1, LeastElement
<1>3. PICK s \in SUBSET S : Fits(s) /\ Cardinality(s) = n
  BY <1>2
<1>4. /\ f[s] = IF s = {} THEN 0 ELSE Weight(First(s)) + f[s \ {First(s)}]
      /\ g[s] = IF s = {} THEN 0 ELSE Weight(First(s)) + g[s \ {First(s)}]
  BY <1>3 DEF IsSum
<1>5. s # {}
  BY <1>3, <1>4
<1>6. PICK r : r = s \ {First(s)}
  OBVIOUS
<1>7. IsFiniteSet(r) /\ Cardinality(r) = n - 1 /\ n - 1 \in Nat /\ r \in SUBSET S /\ r \subseteq R
  BY <1>3, <1>5, <1>6, FirstFacts
<1>8. ~ Fits(r)
  <2>1. n - 1 \notin T
    BY <1>2, <1>7
  <2> QED
    BY <1>7, <2>1
<1>9. f[r] = g[r]
  BY <1>7, <1>8
<1> QED
  BY <1>3, <1>4, <1>5, <1>6, <1>9

\* The sum over a finite set is defined.
LEMMA SumExists ==
    ASSUME NEW U, IsFiniteSet(U)
    PROVE  \E f : IsSum(f, U)
<1> DEFINE Lacks(S) == IsFiniteSet(S) /\ ~ \E f : IsSum(f, S)
           T == {n \in Nat : \E S \in SUBSET U : Lacks(S) /\ Cardinality(S) = n}
<1> SUFFICES ASSUME Lacks(U) PROVE FALSE
  OBVIOUS
<1>1. T # {}
  BY FS_CardinalityType
<1>2. PICK n \in T : \A m \in T : n <= m
  BY <1>1, LeastElement
<1>3. PICK S \in SUBSET U : Lacks(S) /\ Cardinality(S) = n
  BY <1>2
<1>4. ASSUME NEW s, s \subseteq S, s # S PROVE \E f : IsSum(f, s)
  <2>1. IsFiniteSet(s) /\ Cardinality(s) < n /\ Cardinality(s) \in Nat /\ n \in Nat /\ s \in SUBSET U
    <3>1. IsFiniteSet(s) /\ Cardinality(s) <= Cardinality(S)
      BY <1>3, <1>4, FS_Subset
    <3>2. Cardinality(s) # Cardinality(S)
      BY <1>3, <1>4, FS_Subset
    <3> QED
      BY <1>3, <1>4, <3>1, <3>2, FS_CardinalityType
  <2>2. Cardinality(s) \notin T
    BY <1>2, <2>1
  <2>3. ~ Lacks(s)
    BY <2>1, <2>2
  <2> QED
    BY <2>1, <2>3
<1> DEFINE G(s) == CHOOSE f : IsSum(f, s)
           F(s) == IF s = {} THEN 0 ELSE Weight(First(s)) + G(s \ {First(s)})[s \ {First(s)}]
           h == [s \in SUBSET S |-> F(s)]
<1>5. ASSUME NEW s \in SUBSET S, s # {}
      PROVE  h[s \ {First(s)}] = G(s \ {First(s)})[s \ {First(s)}]
  <2>1. IsFiniteSet(s)
    BY <1>3, FS_Subset
  <2>2. PICK u : u = s \ {First(s)}
    OBVIOUS
  <2>3. u \subseteq S /\ u # S /\ IsFiniteSet(u) /\ h[u] = F(u)
    BY <1>5, <2>1, <2>2, FirstFacts
  <2>4. IsSum(G(u), u)
    BY <1>4, <2>3
  <2>5. PICK g : g = G(u) /\ IsSum(g, u)
    BY <2>4
  <2>6. g[u] = IF u = {} THEN 0 ELSE Weight(First(u)) + g[u \ {First(u)}]
    BY <2>5 DEF IsSum
  <2>7. CASE u = {}
    BY <2>2, <2>3, <2>5, <2>6, <2>7
  <2>8. CASE u # {}
    <3>1. PICK v : v = u \ {First(u)}
      OBVIOUS
    <3>2. v \subseteq S /\ v # S /\ v \subseteq u /\ IsFiniteSet(v)
      BY <2>3, <2>8, <3>1, FirstFacts
    <3>3. IsSum(G(v), v)
      BY <1>4, <3>2
    <3>4. PICK k : k = G(v) /\ IsSum(k, v)
      BY <3>3
    <3>5. k[v] = g[v]
      BY <2>5, <3>2, <3>4, SumUnique
    <3>6. F(u) = Weight(First(u)) + k[v]
      BY <2>8, <3>1, <3>4
    <3> QED
      BY <2>2, <2>3, <2>5, <2>6, <2>8, <3>1, <3>5, <3>6
  <2> QED
    BY <2>7, <2>8
<1>6. IsSum(h, S)
  <2>1. ASSUME NEW s \in SUBSET S
        PROVE  F(s) = IF s = {} THEN 0 ELSE Weight(First(s)) + h[s \ {First(s)}]
    <3>1. CASE s = {}
      BY <3>1
    <3>2. CASE s # {}
      <4>1. h[s \ {First(s)}] = G(s \ {First(s)})[s \ {First(s)}]
        BY <1>5, <3>2
      <4> HIDE DEF G, h
      <4> QED
        BY <3>2, <4>1, Zenon
    <3> QED
      BY <3>1, <3>2
  <2> HIDE DEF F
  <2> QED
    BY <2>1 DEF IsSum
<1> QED
  BY <1>3, <1>6

\* MapThenSumSet is that sum.
LEMMA SumOf ==
    ASSUME NEW S, IsFiniteSet(S)
    PROVE  \E f : IsSum(f, S) /\ ChannelSum(S) = f[S]
<1>1. \E f : IsSum(f, S)
  BY SumExists
<1>2. PICK f : f = CHOOSE g : IsSum(g, S)
  OBVIOUS
<1>3. IsSum(f, S)
  BY <1>1, <1>2
<1>4. ChannelSum(S) = f[S]
  BY <1>2, Zenon DEF ChannelSum, MapThenSumSet, MapThenFoldSet, IsSum, Weight, First
<1> QED
  BY <1>3, <1>4

\* The fold, one element at a time.
LEMMA SumStep ==
    ASSUME NEW S, IsFiniteSet(S)
    PROVE  ChannelSum(S) = IF S = {} THEN 0 ELSE Weight(First(S)) + ChannelSum(S \ {First(S)})
<1>1. PICK f : IsSum(f, S) /\ ChannelSum(S) = f[S]
  BY SumOf
<1>2. f[S] = IF S = {} THEN 0 ELSE Weight(First(S)) + f[S \ {First(S)}]
  BY <1>1 DEF IsSum
<1>3. CASE S = {}
  BY <1>1, <1>2, <1>3
<1>4. CASE S # {}
  <2>1. PICK r : r = S \ {First(S)}
    OBVIOUS
  <2>2. IsFiniteSet(r) /\ r \subseteq S
    BY <1>4, <2>1, FirstFacts
  <2>3. PICK g : IsSum(g, r) /\ ChannelSum(r) = g[r]
    BY <2>2, SumOf
  <2>4. f[r] = g[r]
    BY <1>1, <2>2, <2>3, SumUnique
  <2> QED
    BY <1>1, <1>2, <1>4, <2>1, <2>3, <2>4
<1> QED
  BY <1>3, <1>4

\* The order in which the fold takes the descriptors does not matter.
LEMMA SumTakes ==
    ASSUME NEW U, IsFiniteSet(U), \A d \in U : Weight(d) \in Nat
    PROVE  /\ ChannelSum(U) \in Nat
           /\ \A x \in U : ChannelSum(U) = Weight(x) + ChannelSum(U \ {x})
<1> DEFINE Good(S) == /\ ChannelSum(S) \in Nat
                      /\ \A x \in S : ChannelSum(S) = Weight(x) + ChannelSum(S \ {x})
           T == {n \in Nat : \E S \in SUBSET U : ~ Good(S) /\ Cardinality(S) = n}
<1> SUFFICES ASSUME ~ Good(U) PROVE FALSE
  OBVIOUS
<1> HIDE DEF Good
<1>1. T # {}
  BY FS_CardinalityType
<1>2. PICK n \in T : \A m \in T : n <= m
  BY <1>1, LeastElement
<1>3. PICK S \in SUBSET U : ~ Good(S) /\ Cardinality(S) = n
  BY <1>2
<1>4. IsFiniteSet(S)
  BY FS_Subset
<1>5. ChannelSum(S) = IF S = {} THEN 0 ELSE Weight(First(S)) + ChannelSum(S \ {First(S)})
  BY <1>4, SumStep
<1>6. S # {}
  BY <1>3, <1>5 DEF Good
<1>7. ASSUME NEW x \in S PROVE Good(S \ {x}) /\ IsFiniteSet(S \ {x}) /\ Weight(x) \in Nat
  <2>1. IsFiniteSet(S \ {x}) /\ Cardinality(S \ {x}) = n - 1 /\ n \in Nat
    BY <1>3, <1>4, FS_RemoveElement, FS_CardinalityType
  <2>2. Cardinality(S \ {x}) \in Nat
    BY <2>1, FS_CardinalityType
  <2>3. n - 1 \notin T
    BY <1>2, <2>1, <2>2
  <2> QED
    BY <2>1, <2>2, <2>3
<1>8. PICK c \in S : c = First(S) /\ ChannelSum(S) = Weight(c) + ChannelSum(S \ {c})
  BY <1>4, <1>5, <1>6, FirstFacts
<1>9. ChannelSum(S) \in Nat
  BY <1>7, <1>8 DEF Good
<1>10. ASSUME NEW x \in S PROVE ChannelSum(S) = Weight(x) + ChannelSum(S \ {x})
  <2>1. CASE x = c
    BY <1>8, <2>1
  <2>2. CASE x # c
    <3>1. PICK rest : rest = S \ {x, c}
      OBVIOUS
    <3>2. (S \ {c}) \ {x} = rest /\ (S \ {x}) \ {c} = rest
      BY <3>1
    <3>3. ChannelSum(S \ {c}) = Weight(x) + ChannelSum(rest)
      BY <1>7, <2>2, <3>2 DEF Good
    <3>4. ChannelSum(S \ {x}) = Weight(c) + ChannelSum(rest)
      BY <1>7, <2>2, <3>2 DEF Good
    <3>5. ChannelSum(rest) \in Nat
      <4>1. IsFiniteSet(rest) /\ rest \in SUBSET U
        BY <1>4, <3>1, FS_Subset
      <4>2. PICK m \in Nat : m = Cardinality(rest)
        BY <4>1, FS_CardinalityType
      <4>3. m < n
        <5>1. IsFiniteSet(S \ {c}) /\ Cardinality(S \ {c}) = n - 1
          BY <1>3, <1>4, FS_RemoveElement
        <5>2. Cardinality(rest) <= Cardinality(S \ {c})
          BY <3>2, <5>1, FS_Subset
        <5> QED
          BY <4>2, <5>1, <5>2
      <4>4. m \notin T
        BY <1>2, <4>3
      <4>5. Good(rest)
        BY <4>1, <4>2, <4>4
      <4> QED
        BY <4>5 DEF Good
    <3> QED
      BY <1>7, <1>8, <3>3, <3>4, <3>5
  <2> QED
    BY <2>1, <2>2
<1> QED
  BY <1>3, <1>9, <1>10 DEF Good

\* One descriptor more.
LEMMA SumAdds ==
    ASSUME NEW S, IsFiniteSet(S), NEW d, d \notin S, \A e \in S \cup {d} : Weight(e) \in Nat
    PROVE  ChannelSum(S \cup {d}) = ChannelSum(S) + Weight(d)
<1>1. IsFiniteSet(S \cup {d}) /\ (S \cup {d}) \ {d} = S
  BY FS_AddElement
<1>2. ChannelSum(S \cup {d}) = Weight(d) + ChannelSum(S)
  BY <1>1, SumTakes
<1>3. ChannelSum(S) \in Nat /\ Weight(d) \in Nat
  BY SumTakes
<1> QED
  BY <1>2, <1>3

-----------------------------------------------------------------------------
(* The registry's negotiation and the handshake's *)

\* What register lets in.
Registry(R) ==
    /\ R \subseteq Descriptors /\ IsFiniteSet(R)
    /\ \A d \in R : ValidDescriptor(d)
    /\ \A d, e \in R : d.stable_id = e.stable_id => d = e

\* The descriptors of two registries that are about one protocol.
Pairs(R, S) == {p \in R \X S : p[1].stable_id = p[2].stable_id}

\* The offers list every descriptor once.
LEMMA OffersOf ==
    ASSUME NEW R, Registry(R), NEW o, o = SetToSeq(R)
    PROVE  /\ IsSequence(o) /\ Len(o) = Cardinality(R) /\ Cardinality(R) \in Nat
           /\ DOMAIN o = 1 .. Len(o)
           /\ \A i \in DOMAIN o : o[i] \in R
           /\ \A d \in R : \E i \in DOMAIN o : o[i] = d
           /\ Firsts(o) = DOMAIN o
<1>1. PICK n \in Nat : n = Cardinality(R) /\ ExistsBijection(1 .. n, R)
  BY FS_CardinalityType DEF Registry
<1>2. PICK f : f \in [1 .. n -> R] /\ IsInjective(f)
  BY <1>1 DEF ExistsBijection, Bijection, Injection
<1>3. o \in [1 .. n -> R] /\ IsInjective(o)
  <2>1. o = CHOOSE g \in [1 .. n -> R] : IsInjective(g)
    BY <1>1, Zenon DEF SetToSeq
  <2> QED
    BY <1>2, <2>1, Zenon
<1>4. \A d \in R : \E i \in 1 .. n : o[i] = d
  <2>1. o \in Injection(1 .. n, R) /\ IsFiniteSet(R)
    BY <1>3 DEF Injection, Registry
  <2>2. Cardinality(1 .. n) = n
    <3>1. Cardinality(1 .. n) = IF 1 > n THEN 0 ELSE n - 1 + 1
      BY FS_Interval
    <3> QED
      BY <3>1
  <2>3. o \in Surjection(1 .. n, R)
    BY <1>1, <2>1, <2>2, FS_Injection
  <2> QED
    BY <2>3 DEF Surjection
<1>5. o \in Seq(R) /\ Len(o) = n /\ DOMAIN o = 1 .. n
  BY <1>3, LenProperties, IsASeq
<1>6. IsSequence(o)
  BY <1>5, SequenceOfOwn
<1>7. ASSUME NEW i \in 1 .. n, NEW j \in 1 .. (i - 1) PROVE o[j].stable_id # o[i].stable_id
  <2>1. j \in 1 .. n /\ i # j
    OBVIOUS
  <2>2. o[i] # o[j] /\ o[i] \in R /\ o[j] \in R
    BY <1>3, <2>1 DEF IsInjective
  <2> QED
    BY <2>2 DEF Registry
<1>8. Firsts(o) = DOMAIN o
  BY <1>5, <1>7 DEF Firsts
<1> QED
  BY <1>1, <1>3, <1>4, <1>5, <1>6, <1>8

\* Both negotiations compare the same pairs.
LEMMA MatchesArePairs ==
    ASSUME NEW R, Registry(R), NEW S, Registry(S)
    PROVE  Matches(SetToSeq(R), SetToSeq(S)) = Pairs(R, S)
<1>1. PICK o, q : o = SetToSeq(R) /\ q = SetToSeq(S)
  OBVIOUS
<1>2. /\ \A i \in DOMAIN o : o[i] \in R
      /\ \A d \in R : \E i \in DOMAIN o : o[i] = d
      /\ Firsts(o) = DOMAIN o
  BY <1>1, OffersOf
<1>3. /\ \A i \in DOMAIN q : q[i] \in S
      /\ \A d \in S : \E i \in DOMAIN q : q[i] = d
      /\ Firsts(q) = DOMAIN q
  BY <1>1, OffersOf
<1>4. ASSUME NEW m \in Matches(o, q) PROVE m \in Pairs(R, S)
  <2>1. PICK p \in (DOMAIN o) \X (DOMAIN q) :
          m = <<o[p[1]], q[p[2]]>> /\ o[p[1]].stable_id = q[p[2]].stable_id
    BY <1>2, <1>3, <1>4 DEF Matches
  <2>2. PICK i \in DOMAIN o, j \in DOMAIN q : i = p[1] /\ j = p[2]
    OBVIOUS
  <2> QED
    BY <1>2, <1>3, <2>1, <2>2 DEF Pairs
<1>5. ASSUME NEW m \in Pairs(R, S) PROVE m \in Matches(o, q)
  <2>1. PICK d \in R, e \in S : m = <<d, e>> /\ d.stable_id = e.stable_id
    BY <1>5 DEF Pairs
  <2>2. PICK i \in DOMAIN o : o[i] = d
    BY <1>2
  <2>3. PICK j \in DOMAIN q : q[j] = e
    BY <1>3
  <2>4. PICK p : p = <<i, j>>
    OBVIOUS
  <2>5. p \in Firsts(o) \X Firsts(q) /\ p[1] = i /\ p[2] = j
    BY <1>2, <1>3, <2>4
  <2>6. m = <<o[p[1]], q[p[2]]>> /\ o[p[1]].stable_id = q[p[2]].stable_id
    BY <2>1, <2>2, <2>3, <2>5
  <2> QED
    BY <2>5, <2>6 DEF Matches
<1> QED
  BY <1>1, <1>4, <1>5

\* The same for the search of the registry's negotiate.
LEMMA FoundArePairs ==
    ASSUME NEW side, Registry(registered[side]), NEW S, Registry(S)
    PROVE  FoundOffers(side, SetToSeq(S)) = Pairs(registered[side], S)
<1>1. PICK q, R : q = SetToSeq(S) /\ R = registered[side]
  OBVIOUS
<1>2. /\ \A i \in DOMAIN q : q[i] \in S
      /\ \A d \in S : \E i \in DOMAIN q : q[i] = d
      /\ Firsts(q) = DOMAIN q
  BY <1>1, OffersOf
<1>3. ASSUME NEW m \in FoundOffers(side, q) PROVE m \in Pairs(R, S)
  <2>1. PICK p \in R \X DOMAIN q :
          m = <<p[1], q[p[2]]>> /\ q[p[2]].stable_id = p[1].stable_id
    BY <1>1, <1>3 DEF FoundOffers
  <2>2. PICK d \in R, j \in DOMAIN q : d = p[1] /\ j = p[2]
    OBVIOUS
  <2> QED
    BY <1>2, <2>1, <2>2 DEF Pairs
<1>4. ASSUME NEW m \in Pairs(R, S) PROVE m \in FoundOffers(side, q)
  <2>1. PICK d \in R, e \in S : m = <<d, e>> /\ d.stable_id = e.stable_id
    BY <1>4 DEF Pairs
  <2>2. PICK j \in DOMAIN q : q[j] = e
    BY <1>2
  <2>3. \A l \in 1 .. (j - 1) : q[l].stable_id # d.stable_id
    BY <1>2, <2>1, <2>2 DEF Firsts
  <2>4. PICK p : p = <<d, j>>
    OBVIOUS
  <2>5. p \in R \X DOMAIN q /\ p[1] = d /\ p[2] = j
    BY <2>4
  <2>6. /\ m = <<p[1], q[p[2]]>> /\ q[p[2]].stable_id = p[1].stable_id
        /\ \A l \in 1 .. (p[2] - 1) : q[l].stable_id # p[1].stable_id
    BY <2>1, <2>2, <2>3, <2>5
  <2> QED
    BY <1>1, <2>5, <2>6 DEF FoundOffers
<1> QED
  BY <1>1, <1>3, <1>4

\* What validation says of one descriptor.
LEMMA RegistryVersions ==
    ASSUME NEW R, Registry(R), NEW d \in R
    PROVE  /\ HasMinors(d.versions) /\ Weight(d) \in Nat
           /\ d.capabilities = [ protocol_id |-> d.capabilities.protocol_id,
                                 words       |-> d.capabilities.words ]
           /\ d.capabilities.protocol_id = d.stable_id
<1>1. d \in Descriptors /\ ValidDescriptor(d)
  BY DEF Registry
<1>2. /\ HasMinors(d.versions) /\ IsFiniteSet(d.channels)
      /\ d.capabilities = [ protocol_id |-> d.capabilities.protocol_id,
                            words       |-> d.capabilities.words ]
  BY <1>1, CatalogAssumption
<1>3. d.capabilities.protocol_id = d.stable_id
  BY <1>1 DEF ValidDescriptor
<1>4. Weight(d) \in Nat
  BY <1>2, FS_CardinalityType DEF Weight
<1> QED
  BY <1>2, <1>3, <1>4

\* Either side finds the same shared version.
LEMMA SharedSwapped ==
    ASSUME NEW a, NEW b, HasMinors(a), HasMinors(b)
    PROVE  SharedVersion(a, b) = SharedVersion(b, a)
<1>1. Lower(a.maximum.minor, b.maximum.minor) = Lower(b.maximum.minor, a.maximum.minor)
  BY DEF Lower, HasMinors
<1> QED
  BY <1>1 DEF SharedVersion

\* The grants, pair by pair.
LEMMA GrantsByPair ==
    ASSUME NEW R, Registry(R), NEW S, Registry(S)
    PROVE  /\ ProtocolsConflict(SetToSeq(R), SetToSeq(S)) <=>
                \E d \in R, e \in S : d.stable_id = e.stable_id /\ Conflict(d, e)
           /\ \A g : g \in NegotiateProtocols(SetToSeq(R), SetToSeq(S)) <=>
                \E d \in R, e \in S :
                    /\ d.stable_id = e.stable_id
                    /\ \E v \in SharedVersion(d.versions, e.versions) : g = Grant(d, e, v)
<1>1. PICK M : M = Matches(SetToSeq(R), SetToSeq(S)) /\ M = Pairs(R, S)
  BY MatchesArePairs
<1>2. ASSUME NEW m \in M PROVE m[1] \in R /\ m[2] \in S /\ m[1].stable_id = m[2].stable_id
  BY <1>1, <1>2 DEF Pairs
<1>3. ASSUME NEW d \in R, NEW e \in S, d.stable_id = e.stable_id
      PROVE  \E m \in M : m[1] = d /\ m[2] = e
  <2>1. PICK m : m = <<d, e>>
    OBVIOUS
  <2>2. m \in R \X S /\ m[1] = d /\ m[2] = e
    BY <2>1
  <2> QED
    BY <1>1, <1>3, <2>2 DEF Pairs
<1>4. ProtocolsConflict(SetToSeq(R), SetToSeq(S)) <=>
        \E d \in R, e \in S : d.stable_id = e.stable_id /\ Conflict(d, e)
  <2>1. ProtocolsConflict(SetToSeq(R), SetToSeq(S)) <=> \E m \in M : Conflict(m[1], m[2])
    BY <1>1, Zenon DEF ProtocolsConflict
  <2> QED
    BY <1>2, <1>3, <2>1
<1>5. ASSUME NEW g
      PROVE  g \in NegotiateProtocols(SetToSeq(R), SetToSeq(S)) <=>
               \E d \in R, e \in S :
                   /\ d.stable_id = e.stable_id
                   /\ \E v \in SharedVersion(d.versions, e.versions) : g = Grant(d, e, v)
  <2>1. g \in NegotiateProtocols(SetToSeq(R), SetToSeq(S)) <=>
          \E m \in M : \E v \in SharedVersion(m[1].versions, m[2].versions) : g = Grant(m[1], m[2], v)
    BY <1>1 DEF NegotiateProtocols
  <2> QED
    BY <1>2, <1>3, <2>1
<1> QED
  BY <1>4, <1>5

\* Without a conflict the two ends grant the same.
LEMMA GrantsSwapped ==
    ASSUME NEW R, Registry(R), NEW S, Registry(S),
           ~ ProtocolsConflict(SetToSeq(R), SetToSeq(S))
    PROVE  /\ ~ ProtocolsConflict(SetToSeq(S), SetToSeq(R))
           /\ NegotiateProtocols(SetToSeq(S), SetToSeq(R)) = NegotiateProtocols(SetToSeq(R), SetToSeq(S))
<1>1. ASSUME NEW d \in R, NEW e \in S, d.stable_id = e.stable_id
      PROVE  /\ ~ Conflict(d, e) /\ ~ Conflict(e, d)
             /\ SharedVersion(d.versions, e.versions) = SharedVersion(e.versions, d.versions)
             /\ \A v : Grant(d, e, v) = Grant(e, d, v)
  <2>1. ~ Conflict(d, e)
    BY <1>1, GrantsByPair
  <2>2. SharedVersion(d.versions, e.versions) = SharedVersion(e.versions, d.versions)
    BY SharedSwapped, RegistryVersions
  <2>3. ~ Conflict(e, d)
    BY <2>1, <2>2 DEF Conflict
  <2>4. d.capabilities.protocol_id = e.capabilities.protocol_id /\ d.schema = e.schema
    BY <1>1, <2>1, RegistryVersions DEF Conflict
  <2>5. d.capabilities.words \cap e.capabilities.words = e.capabilities.words \cap d.capabilities.words
    OBVIOUS
  <2>6. \A v : Grant(d, e, v) = Grant(e, d, v)
    BY <1>1, <2>4, <2>5, Zenon DEF Grant
  <2> QED
    BY <2>1, <2>2, <2>3, <2>6
<1>2. ~ ProtocolsConflict(SetToSeq(S), SetToSeq(R))
  BY <1>1, GrantsByPair
<1>3. \A g : g \in NegotiateProtocols(SetToSeq(S), SetToSeq(R)) <=>
             g \in NegotiateProtocols(SetToSeq(R), SetToSeq(S))
  <2> TAKE g
  <2>1. g \in NegotiateProtocols(SetToSeq(R), SetToSeq(S)) <=>
          \E d \in R, e \in S :
              /\ d.stable_id = e.stable_id
              /\ \E v \in SharedVersion(d.versions, e.versions) : g = Grant(d, e, v)
    BY GrantsByPair
  <2>2. g \in NegotiateProtocols(SetToSeq(S), SetToSeq(R)) <=>
          \E e \in S, d \in R :
              /\ e.stable_id = d.stable_id
              /\ \E v \in SharedVersion(e.versions, d.versions) : g = Grant(e, d, v)
    BY GrantsByPair
  <2> QED
    BY <1>1, <2>1, <2>2
<1>4. PICK A, B : A = NegotiateProtocols(SetToSeq(S), SetToSeq(R))
                  /\ B = NegotiateProtocols(SetToSeq(R), SetToSeq(S))
  OBVIOUS
<1> QED
  BY <1>2, <1>3, <1>4

\* The registry's negotiate and the handshake's grant the same.
LEMMA RegistryGrants ==
    ASSUME NEW side, Registry(registered[side]), NEW S, Registry(S),
           ~ NegotiateFails(side, SetToSeq(S))
    PROVE  /\ ~ ProtocolsConflict(SetToSeq(registered[side]), SetToSeq(S))
           /\ Negotiate(side, SetToSeq(S)) = NegotiateProtocols(SetToSeq(registered[side]), SetToSeq(S))
<1>1. PICK R, F, q : R = registered[side] /\ q = SetToSeq(S) /\ F = FoundOffers(side, q) /\ F = Pairs(R, S)
  BY FoundArePairs
<1>2. ASSUME NEW f \in F PROVE f[1] \in R /\ f[2] \in S /\ f[1].stable_id = f[2].stable_id
  BY <1>1, <1>2 DEF Pairs
<1>3. ASSUME NEW d \in R, NEW e \in S, d.stable_id = e.stable_id
      PROVE  \E f \in F : f[1] = d /\ f[2] = e
  <2>1. PICK f : f = <<d, e>>
    OBVIOUS
  <2>2. f \in R \X S /\ f[1] = d /\ f[2] = e
    BY <2>1
  <2> QED
    BY <1>1, <1>3, <2>2 DEF Pairs
<1>4. ~ ProtocolsConflict(SetToSeq(R), q)
  <2>1. ASSUME NEW d \in R, NEW e \in S, d.stable_id = e.stable_id PROVE ~ Conflict(d, e)
    <3>1. PICK f \in F : f[1] = d /\ f[2] = e
      BY <1>3, <2>1
    <3>2. ~ \/ "None" \notin {f[1].debug_identity, f[2].debug_identity}
               /\ f[1].debug_identity # f[2].debug_identity
            \/ f[1].schema # f[2].schema
            \/ SharedVersion(f[1].versions, f[2].versions) # {}
               /\ f[1].capabilities.protocol_id # f[2].capabilities.protocol_id
      BY <1>1, Zenon DEF NegotiateFails
    <3> QED
      BY <3>1, <3>2 DEF Conflict
  <2> QED
    BY <1>1, <2>1, GrantsByPair
<1>5. ASSUME NEW f \in F, SharedVersion(f[1].versions, f[2].versions) # {}
      PROVE  /\ [ stable_id    |-> f[1].stable_id,
                  version      |-> CHOOSE v \in SharedVersion(f[1].versions, f[2].versions) : TRUE,
                  schema       |-> f[1].schema,
                  capabilities |-> [f[1].capabilities EXCEPT !.words = @ \cap f[2].capabilities.words] ]
                = Grant(f[1], f[2], CHOOSE v \in SharedVersion(f[1].versions, f[2].versions) : TRUE)
             /\ \A v \in SharedVersion(f[1].versions, f[2].versions) :
                  v = CHOOSE w \in SharedVersion(f[1].versions, f[2].versions) : TRUE
             /\ (CHOOSE w \in SharedVersion(f[1].versions, f[2].versions) : TRUE)
                  \in SharedVersion(f[1].versions, f[2].versions)
  <2>1. PICK d \in R, e \in S : d = f[1] /\ e = f[2]
    BY <1>2, <1>5
  <2>2. PICK c : c = d.capabilities /\ c = [protocol_id |-> c.protocol_id, words |-> c.words]
    BY <1>1, RegistryVersions
  <2>3. PICK V, v : V = SharedVersion(d.versions, e.versions) /\ v = CHOOSE w \in V : TRUE
    OBVIOUS
  <2>4. v \in V /\ \A w \in V : w = v
    BY <1>5, <2>1, <2>3, SharedIsSingle
  <2>5. PICK words : words = e.capabilities.words
    OBVIOUS
  <2>6. [c EXCEPT !.words = @ \cap words] = [protocol_id |-> c.protocol_id, words |-> c.words \cap words]
    BY <2>2
  <2>7. [ stable_id |-> d.stable_id, version |-> v, schema |-> d.schema,
          capabilities |-> [d.capabilities EXCEPT !.words = @ \cap e.capabilities.words] ]
         = Grant(d, e, v)
    BY <2>2, <2>5, <2>6, Zenon DEF Grant
  <2> QED
    BY <2>1, <2>3, <2>4, <2>7, Zenon
<1>6. \A g : g \in Negotiate(side, q) <=>
             \E f \in F : \E v \in SharedVersion(f[1].versions, f[2].versions) : g = Grant(f[1], f[2], v)
  <2> TAKE g
  <2>1. g \in Negotiate(side, q) <=>
          \E f \in {f \in F : SharedVersion(f[1].versions, f[2].versions) # {}} :
             g = [ stable_id    |-> f[1].stable_id,
                   version      |-> CHOOSE v \in SharedVersion(f[1].versions, f[2].versions) : TRUE,
                   schema       |-> f[1].schema,
                   capabilities |-> [f[1].capabilities EXCEPT !.words = @ \cap f[2].capabilities.words] ]
    BY <1>1, Zenon DEF Negotiate
  <2> QED
    BY <1>5, <2>1, Zenon
<1>7. \A g : g \in NegotiateProtocols(SetToSeq(R), q) <=>
             \E f \in F : \E v \in SharedVersion(f[1].versions, f[2].versions) : g = Grant(f[1], f[2], v)
  <2> TAKE g
  <2>1. g \in NegotiateProtocols(SetToSeq(R), q) <=>
          \E d \in R, e \in S :
              /\ d.stable_id = e.stable_id
              /\ \E v \in SharedVersion(d.versions, e.versions) : g = Grant(d, e, v)
    BY <1>1, GrantsByPair
  <2> QED
    BY <1>2, <1>3, <2>1
<1>8. PICK A, B : A = Negotiate(side, q) /\ B = NegotiateProtocols(SetToSeq(R), q)
  OBVIOUS
<1>9. A = B
  BY <1>6, <1>7, <1>8
<1> QED
  BY <1>1, <1>4, <1>8, <1>9

\* What is granted without conflict, both ends activate.
LEMMA GrantsActivate ==
    ASSUME NEW side \in Sides, \A s \in Sides : Registry(registered[s]),
           ~ ProtocolsConflict(Offers("responder"), Offers("initiator"))
    PROVE  Activates(side, Negotiated)
<1>1. PICK R, S : R = registered["responder"] /\ S = registered["initiator"] /\ Registry(R) /\ Registry(S)
  BY DEF Sides
<1>2. PICK o, q : o = SetToSeq(R) /\ q = SetToSeq(S)
  OBVIOUS
<1>3. PICK G : G = NegotiateProtocols(o, q) /\ Negotiated = G
  BY <1>1, <1>2 DEF Negotiated, Offers
<1>4. ~ ProtocolsConflict(o, q) /\ G = NegotiateProtocols(q, o)
  BY <1>1, <1>2, <1>3, GrantsSwapped DEF Offers
<1>5. IsSequence(o) /\ IsSequence(q) /\ Len(o) = Cardinality(R) /\ Len(q) = Cardinality(S)
  BY <1>1, <1>2, OffersOf
<1>6. Cardinality(G) <= Cardinality(R) /\ Cardinality(G) <= Cardinality(S)
  BY <1>3, <1>4, <1>5, GrantsBounded
<1>7. ASSUME NEW s \in G, NEW t \in G, s.stable_id = t.stable_id PROVE s = t
  BY <1>3, <1>5, <1>7, GrantsUnique
<1>8. ASSUME NEW Q, Q = R \/ Q = S, NEW s \in G
      PROVE  \E d \in Q :
               /\ d.stable_id = s.stable_id
               /\ d.schema = s.schema
               /\ s.capabilities.protocol_id = s.stable_id
               /\ s.capabilities.words \subseteq d.capabilities.words
               /\ Admits(d.versions, s.version)
  <2>1. PICK d \in R, e \in S : /\ d.stable_id = e.stable_id
                                /\ \E v \in SharedVersion(d.versions, e.versions) : s = Grant(d, e, v)
    BY <1>1, <1>2, <1>3, <1>8, GrantsByPair
  <2>2. PICK v \in SharedVersion(d.versions, e.versions) : s = Grant(d, e, v)
    BY <2>1
  <2>3. Admits(d.versions, v) /\ Admits(e.versions, v)
    BY <1>1, RegistryVersions, SharedIsAdmitted
  <2>4. ~ Conflict(d, e)
    BY <1>1, <1>2, <1>4, <2>1, GrantsByPair
  <2>5. d.schema = e.schema
    BY <2>4 DEF Conflict
  <2>6. d.capabilities.protocol_id = d.stable_id
    BY <1>1, RegistryVersions
  <2>7. /\ s.stable_id = d.stable_id /\ s.schema = d.schema /\ s.version = v
        /\ s.capabilities.protocol_id = d.capabilities.protocol_id
        /\ s.capabilities.words = d.capabilities.words \cap e.capabilities.words
    BY <2>2 DEF Grant
  <2> QED
    BY <1>8, <2>1, <2>3, <2>5, <2>6, <2>7
<1>9. registered[side] = R \/ registered[side] = S
  BY <1>1 DEF Sides
<1>10. Cardinality(G) <= Cardinality(registered[side])
  BY <1>6, <1>9
<1>11. \A s \in G : \E d \in registered[side] :
               /\ d.stable_id = s.stable_id
               /\ d.schema = s.schema
               /\ s.capabilities.protocol_id = s.stable_id
               /\ s.capabilities.words \subseteq d.capabilities.words
               /\ Admits(d.versions, s.version)
  BY <1>8, <1>9
<1> QED
  BY <1>3, <1>7, <1>10, <1>11, Zenon DEF Activates

-----------------------------------------------------------------------------

\* An end is active with what the handshake negotiated between two frozen registries, and
\* validates channels only then.
Activated ==
    \A side \in Sides :
        /\ activated[side].outcome \in {"none", "active"}
        /\ activated[side].outcome = "active" =>
             (\A s \in Sides : frozen[s]) /\ activated[side].selections = Negotiated
        /\ \A channel \in validated[side] :
             activated[side].outcome = "active" /\ SessionAccepts(channel, Negotiated)

CatalogInv ==
    /\ DOMAIN registered = Sides /\ DOMAIN channelTotal = Sides /\ DOMAIN frozen = Sides
    /\ DOMAIN activated = Sides /\ DOMAIN validated = Sides
    /\ \A side \in Sides : Registry(registered[side])
    /\ \A side \in Sides : channelTotal[side] = ChannelSum(registered[side])
    /\ Activated

\* Empty registries satisfy the invariant.
LEMMA CatalogStart ==
    ASSUME CatalogInit PROVE CatalogInv
<1>1. Registry({})
  BY FS_EmptySet DEF Registry
<1>2. ChannelSum({}) = 0
  <2>1. IsFiniteSet({})
    BY FS_EmptySet
  <2> QED
    BY <2>1, SumStep
<1>3. Activated
  BY DEF CatalogInit, Activated
<1> QED
  BY <1>1, <1>2, <1>3 DEF CatalogInit, CatalogInv

\* register adds a valid descriptor of a new protocol, before the registry is frozen.
LEMMA RegisterStep ==
    ASSUME CatalogInv, NEW side \in Sides, NEW d \in Descriptors, Register(side, d)
    PROVE  CatalogInv'
<1>1. PICK R : R = registered[side] /\ Registry(R) /\ d \notin R /\ ValidDescriptor(d)
  BY DEF Register, CatalogInv
<1>2. registered'[side] = R \cup {d} /\ \A s \in Sides : s # side => registered'[s] = registered[s]
  BY <1>1 DEF Register, CatalogInv
<1>3. Registry(R \cup {d})
  <2>1. IsFiniteSet(R \cup {d})
    BY <1>1, FS_AddElement DEF Registry
  <2>2. \A e \in R : e.stable_id # d.stable_id
    BY <1>1 DEF Register
  <2> QED
    BY <1>1, <2>1, <2>2 DEF Registry
<1>4. \A s \in Sides : Registry(registered'[s])
  BY <1>2, <1>3 DEF CatalogInv
<1>5. ASSUME NEW s \in Sides PROVE channelTotal'[s] = ChannelSum(registered'[s])
  <2>1. CASE s = side
    <3>1. channelTotal'[side] = ChannelSum(R) + Weight(d)
      BY <1>1 DEF Register, CatalogInv, Weight
    <3>2. \A e \in R \cup {d} : Weight(e) \in Nat
      BY <1>3, RegistryVersions
    <3>3. ChannelSum(R \cup {d}) = ChannelSum(R) + Weight(d)
      BY <1>1, <3>2, SumAdds DEF Registry
    <3> QED
      BY <1>2, <2>1, <3>1, <3>3
  <2>2. CASE s # side
    <3>1. channelTotal'[s] = channelTotal[s]
      BY <2>2 DEF Register, CatalogInv
    <3> QED
      BY <1>2, <2>2, <3>1 DEF CatalogInv
  <2> QED
    BY <2>1, <2>2
<1>6. \A s \in Sides : activated[s].outcome = "none" /\ validated[s] = {}
  BY DEF Register, CatalogInv, Activated
<1>7. Activated'
  BY <1>6 DEF Register, Activated
<1>8. /\ DOMAIN registered' = Sides /\ DOMAIN channelTotal' = Sides /\ DOMAIN frozen' = Sides
      /\ DOMAIN activated' = Sides /\ DOMAIN validated' = Sides
  BY DEF Register, CatalogInv
<1> QED
  BY <1>4, <1>5, <1>7, <1>8 DEF CatalogInv

\* Nothing registered: the negotiated protocols stay.
LEMMA CatalogKept ==
    ASSUME CatalogInv, UNCHANGED <<registered, channelTotal>>, Activated',
           DOMAIN frozen' = Sides, DOMAIN activated' = Sides, DOMAIN validated' = Sides
    PROVE  CatalogInv'
  BY DEF CatalogInv

\* What is negotiated depends on the registries alone.
LEMMA NegotiatedKept ==
    ASSUME UNCHANGED registered
    PROVE  Negotiated' = Negotiated
  BY DEF Negotiated, Offers

\* freeze keeps the invariant.
LEMMA FreezeStep ==
    ASSUME CatalogInv, NEW side \in Sides, Freeze(side)
    PROVE  CatalogInv'
<1>1. \A s \in Sides : frozen[s] => frozen'[s]
  BY DEF Freeze, CatalogInv
<1>2. Activated'
  <2>1. PICK G : G = Negotiated /\ Negotiated' = G
    BY NegotiatedKept DEF Freeze
  <2>2. UNCHANGED <<activated, validated>> /\ Activated
    BY DEF Freeze, CatalogInv
  <2> QED
    BY <1>1, <2>1, <2>2 DEF Activated, SessionAccepts
<1> QED
  BY <1>2, CatalogKept DEF Freeze, CatalogInv

\* activate keeps the invariant: it is never refused.
LEMMA ActivateStep ==
    ASSUME CatalogInv, NEW side \in Sides, Activate(side)
    PROVE  CatalogInv'
<1>1. PICK G : G = Negotiated /\ Negotiated' = G
  BY NegotiatedKept DEF Activate
<1>2. Activates(side, Negotiated)
  BY GrantsActivate DEF Activate, CatalogInv
<1>3. activated' = [activated EXCEPT ![side] = [outcome |-> "active", selections |-> G]]
  BY <1>1, <1>2 DEF Activate
<1>4. UNCHANGED <<registered, channelTotal, frozen, validated>> /\ (\A s \in Sides : frozen[s]) /\ Activated
      /\ DOMAIN activated = Sides
  BY DEF Activate, CatalogInv
<1>5. Activated'
  <2> SUFFICES ASSUME NEW s \in Sides
               PROVE  /\ activated'[s].outcome \in {"none", "active"}
                      /\ activated'[s].outcome = "active" =>
                           (\A t \in Sides : frozen'[t]) /\ activated'[s].selections = G
                      /\ \A channel \in validated'[s] :
                           activated'[s].outcome = "active" /\ SessionAccepts(channel, G)
    BY <1>1 DEF Activated, SessionAccepts
  <2>1. CASE s = side
    <3>1. activated'[s] = [outcome |-> "active", selections |-> G]
      BY <1>3, <1>4, <2>1
    <3> QED
      BY <1>1, <1>4, <3>1 DEF Activated
  <2>2. CASE s # side
    <3>1. activated'[s] = activated[s]
      BY <1>3, <1>4, <2>2
    <3> QED
      BY <1>1, <1>4, <3>1 DEF Activated
  <2> QED
    BY <2>1, <2>2
<1> QED
  BY <1>3, <1>4, <1>5, CatalogKept DEF CatalogInv

\* A channel of a valid descriptor is one the session takes.
LEMMA OpenCatalogStep ==
    ASSUME CatalogInv, NEW side \in Sides, NEW protocol, NEW channelId, NEW id, NEW capacity,
           OpenCatalogChannel(side, protocol, channelId, id, capacity)
    PROVE  CatalogInv'
<1>1. PICK G : G = Negotiated /\ Negotiated' = G
  BY NegotiatedKept DEF OpenCatalogChannel
<1>2. UNCHANGED <<registered, channelTotal, frozen, activated>> /\ Activated
  BY DEF OpenCatalogChannel, CatalogInv
<1>3. PICK s \in activated[side].selections, d \in registered[side] : \E c \in d.channels :
         /\ capacity \in 1..c.max_in_flight_frames
         /\ validated' = [validated EXCEPT ![side] = @ \cup
              {[ selection |-> s, channel |-> c.id, id |-> id, generation |-> 1, mode |-> c.mode,
                 capacity |-> capacity, max_frame_bytes |-> c.max_frame_bytes,
                 max_stream_bytes |-> c.max_stream_bytes, discardable |-> c.discardable ]}]
  BY DEF OpenCatalogChannel
<1>4. PICK c \in d.channels :
         /\ capacity \in 1..c.max_in_flight_frames
         /\ validated' = [validated EXCEPT ![side] = @ \cup
              {[ selection |-> s, channel |-> c.id, id |-> id, generation |-> 1, mode |-> c.mode,
                 capacity |-> capacity, max_frame_bytes |-> c.max_frame_bytes,
                 max_stream_bytes |-> c.max_stream_bytes, discardable |-> c.discardable ]}]
  BY <1>3
<1>5. PICK new : new = [ selection |-> s, channel |-> c.id, id |-> id, generation |-> 1,
                         mode |-> c.mode, capacity |-> capacity,
                         max_frame_bytes |-> c.max_frame_bytes,
                         max_stream_bytes |-> c.max_stream_bytes, discardable |-> c.discardable ]
  OBVIOUS
<1>6. ValidChannel(c)
  BY DEF CatalogInv, Registry, ValidDescriptor
<1>7. activated[side].outcome = "active" /\ s \in G
  BY <1>1, <1>2 DEF OpenCatalogChannel, Activated
<1>8. SessionAccepts(new, G)
  <2>1. capacity # 0
    BY <1>4
  <2>2. /\ new.generation = 1 /\ new.capacity = capacity /\ new.selection = s /\ new.mode = c.mode
        /\ new.max_frame_bytes = c.max_frame_bytes /\ new.max_stream_bytes = c.max_stream_bytes
        /\ new.discardable = c.discardable
    BY <1>5
  <2> QED
    BY <1>6, <1>7, <2>1, <2>2 DEF SessionAccepts, ValidChannel
<1>9. \A t \in Sides : \A channel \in validated'[t] : channel \in validated[t] \/ (t = side /\ channel = new)
  BY <1>4, <1>5 DEF CatalogInv
<1>10. Activated'
  <2> SUFFICES ASSUME NEW t \in Sides
               PROVE  /\ activated'[t].outcome \in {"none", "active"}
                      /\ activated'[t].outcome = "active" =>
                           (\A u \in Sides : frozen'[u]) /\ activated'[t].selections = G
                      /\ \A channel \in validated'[t] :
                           activated'[t].outcome = "active" /\ SessionAccepts(channel, G)
    BY <1>1 DEF Activated, SessionAccepts
  <2> QED
    BY <1>1, <1>2, <1>7, <1>8, <1>9 DEF Activated
<1>11. DOMAIN validated' = Sides
  BY <1>4 DEF CatalogInv
<1> QED
  BY <1>2, <1>10, <1>11, CatalogKept DEF CatalogInv

\* Every step keeps the invariant.
LEMMA CatalogStep ==
    ASSUME CatalogInv, [CatalogNext]_catalogVars
    PROVE  CatalogInv'
<1>1. CASE UNCHANGED catalogVars
  <2>1. Activated'
    <3>1. PICK G : G = Negotiated /\ Negotiated' = G
      BY <1>1, NegotiatedKept DEF catalogVars
    <3> QED
      BY <1>1, <3>1 DEF catalogVars, CatalogInv, Activated, SessionAccepts
  <2> QED
    BY <1>1, <2>1, CatalogKept DEF catalogVars, CatalogInv
<1>2. CASE CatalogNext
  <2>1. PICK side \in Sides :
        \/ \E d \in Descriptors : Register(side, d)
        \/ Freeze(side)
        \/ Activate(side)
        \/ \E protocol, channelId, id, capacity : OpenCatalogChannel(side, protocol, channelId, id, capacity)
    BY <1>2 DEF CatalogNext
  <2> QED
    BY <2>1, RegisterStep, FreezeStep, ActivateStep, OpenCatalogStep
<1> QED
  BY <1>1, <1>2

\* The inductive invariant of the two registries: what register lets in, the channel count,
\* and what an active end relies on (ProtocolRegistry, FrozenProtocolRegistry, ActiveProtocolSet).
THEOREM CatalogInvariant == CatalogSpec => []CatalogInv
<1>1. CatalogInit => CatalogInv
  BY CatalogStart
<1>2. CatalogInv /\ [CatalogNext]_catalogVars => CatalogInv'
  BY CatalogStep
<1> QED
  BY <1>1, <1>2, PTL DEF CatalogSpec

\* Whatever the owners of the two ends register: the channel count is exact, the registry's
\* negotiate and the handshake's negotiate_protocols select the same from either end, activate
\* never refuses that, and every validated channel is one the session takes.
THEOREM RegistriesAgree == CatalogSpec => []CatalogsAgree
<1>1. ASSUME CatalogInv PROVE CatalogsAgree
  <2> SUFFICES ASSUME NEW side \in Sides
               PROVE  LET remote == Offers(Across(side))
                      IN  /\ channelTotal[side] = MapThenSumSet(LAMBDA d : Cardinality(d.channels), registered[side])
                          /\ frozen[side] /\ frozen[Across(side)] /\ ~NegotiateFails(side, remote) =>
                                 /\ ~ProtocolsConflict(Offers(side), remote)
                                 /\ Negotiate(side, remote) = Negotiated
                          /\ activated[side].outcome # "refused"
                          /\ \A channel \in validated[side] : SessionAccepts(channel, Negotiated)
    BY Zenon DEF CatalogsAgree
  <2>1. channelTotal[side] = MapThenSumSet(LAMBDA d : Cardinality(d.channels), registered[side])
    BY <1>1, Zenon DEF CatalogInv, ChannelSum
  <2>2. PICK S : S = registered[Across(side)] /\ Offers(Across(side)) = SetToSeq(S) /\ Registry(S)
    BY <1>1 DEF Across, Sides, Offers, CatalogInv
  <2>3. PICK R : R = registered[side] /\ Offers(side) = SetToSeq(R) /\ Registry(R)
    BY <1>1 DEF Offers, CatalogInv
  <2>4. ASSUME ~NegotiateFails(side, SetToSeq(S))
        PROVE  ~ProtocolsConflict(SetToSeq(R), SetToSeq(S)) /\ Negotiate(side, SetToSeq(S)) = Negotiated
    <3>1. /\ ~ ProtocolsConflict(SetToSeq(R), SetToSeq(S))
          /\ Negotiate(side, SetToSeq(S)) = NegotiateProtocols(SetToSeq(R), SetToSeq(S))
      BY <2>2, <2>3, <2>4, RegistryGrants
    <3>2. NegotiateProtocols(SetToSeq(S), SetToSeq(R)) = NegotiateProtocols(SetToSeq(R), SetToSeq(S))
      BY <2>2, <2>3, <3>1, GrantsSwapped
    <3>3. Negotiated = NegotiateProtocols(SetToSeq(R), SetToSeq(S))
          \/ Negotiated = NegotiateProtocols(SetToSeq(S), SetToSeq(R))
      <4>1. CASE side = "responder"
        BY <2>2, <2>3, <4>1 DEF Negotiated, Across, Offers
      <4>2. CASE side = "initiator"
        BY <2>2, <2>3, <4>2 DEF Negotiated, Across, Offers
      <4> QED
        BY <4>1, <4>2 DEF Sides
    <3> QED
      BY <3>1, <3>2, <3>3
  <2>5. /\ activated[side].outcome # "refused"
        /\ \A channel \in validated[side] : SessionAccepts(channel, Negotiated)
    BY <1>1 DEF CatalogInv, Activated
  <2> QED
    BY <2>1, <2>2, <2>3, <2>4, <2>5
<1> QED
  BY <1>1, CatalogInvariant, PTL

=============================================================================
