--------------------------- MODULE PairingProofs ---------------------------
(***************************************************************************)
(* How peers find and come to trust each other: the pairing crate's        *)
(* ceremony (Pairing), what is consulted before it (PairingAdmission, over *)
(* AttemptWindow), where its result is kept (TrustFile), and the discovery *)
(* providers (Discovery, over the same windows).                           *)
(***************************************************************************)
EXTENDS Pairing, PairingAdmission, TrustFile, Discovery, DataFacts, FiniteSetTheorems

-----------------------------------------------------------------------------
(* The ceremony *)

Other(device) == IF device = "a" THEN "b" ELSE "a"

IsSession(s) ==
    s = [ local |-> s.local, remote |-> s.remote, challenge |-> s.challenge,
          expires |-> s.expires, state |-> s.state, transcript |-> s.transcript,
          local_confirmed |-> s.local_confirmed, remote_confirmed |-> s.remote_confirmed ]

IsOffer(m) ==
    m = [kind |-> m.kind, from |-> m.from, challenge |-> m.challenge, expires |-> m.expires]

\* The transcript of a session names both devices, its own in its own role.
NamesBoth(device, s) ==
    s.transcript # None =>
        s.transcript = IF device = "a" THEN Transcript("a", s.remote, s.challenge)
                                       ELSE Transcript(s.remote, "b", s.challenge)

\* Its own user confirmed what the other device showed.
LocallyConfirmed(device, s, known) ==
    s.local_confirmed =>
        s.remote = Other(device) /\ <<device, s.transcript>> \in known

\* Only the third device signs what nobody confirmed.
RemotelyConfirmed(s, known) ==
    s.remote_confirmed => s.remote = "m" \/ <<s.remote, s.transcript>> \in known

\* A session at a device, when the users have confirmed `known`.
SessionOK(device, s, known) ==
    /\ IsSession(s)
    /\ s.local = device
    /\ s.local_confirmed \in BOOLEAN /\ s.remote_confirmed \in BOOLEAN
    /\ s.state = "AwaitingResponse" => ~s.local_confirmed /\ ~s.remote_confirmed
    /\ s.state = "Paired" => s.local_confirmed /\ s.remote_confirmed
    /\ NamesBoth(device, s)
    /\ LocallyConfirmed(device, s, known)
    /\ RemotelyConfirmed(s, known)

\* What the two devices sent, they meant.
HonestMessage(m, known) ==
    /\ m.kind = "offer" => IsOffer(m)
    /\ m.kind = "confirmation" => m.signer = "m" \/ <<m.signer, m.transcript>> \in known
    /\ m.kind = "termination" => m.reason \in {"Rejected", "Cancelled"}

CeremonyInv ==
    /\ \A m \in wire : HonestMessage(m, confirmed)
    /\ ini # None => SessionOK("a", ini, confirmed)
    /\ res # None => SessionOK("b", res, confirmed)

\* Two devices without a session satisfy the invariant.
LEMMA CeremonyInitial == CeremonyInit => CeremonyInv
  BY DEF CeremonyInit, CeremonyInv

\* A confirmation is never withdrawn.
LEMMA StaysConfirmed ==
    ASSUME NEW known, NEW later, known \subseteq later
    PROVE  /\ \A device, s : SessionOK(device, s, known) => SessionOK(device, s, later)
           /\ \A m : HonestMessage(m, known) => HonestMessage(m, later)
  BY Zenon DEF SessionOK, LocallyConfirmed, RemotelyConfirmed, HonestMessage

\* Ending a session in any way but pairing keeps what is known of it.
LEMMA EndedOK ==
    ASSUME NEW device, NEW s, NEW known, SessionOK(device, s, known),
           NEW state \in {"Rejected", "Cancelled", "TimedOut", "Failed"}
    PROVE  SessionOK(device, [s EXCEPT !.state = state], known)
<1> DEFINE t == [s EXCEPT !.state = state]
<1>1. /\ IsSession(t) /\ t.state = state /\ t.local = s.local /\ t.remote = s.remote
      /\ t.challenge = s.challenge /\ t.transcript = s.transcript
      /\ t.local_confirmed = s.local_confirmed /\ t.remote_confirmed = s.remote_confirmed
  BY DEF SessionOK, IsSession
<1> HIDE DEF t
<1>2. state \notin {"AwaitingResponse", "Paired"}
  OBVIOUS
<1>3. SessionOK(device, t, known)
  BY <1>1, <1>2, Zenon DEF SessionOK, NamesBoth, LocallyConfirmed, RemotelyConfirmed
<1> QED
  BY <1>3 DEF t

\* A session that times out or fails claims nothing more.
LEMMA TimedOutOK ==
    ASSUME NEW device, NEW s, NEW known, SessionOK(device, s, known)
    PROVE  SessionOK(device, TimedOut(s), known) /\ SessionOK(device, Fail(s), known)
  BY EndedOK DEF TimedOut, Fail

\* receive_response sets the transcript of a session nobody has confirmed.
LEMMA ResponseOK ==
    ASSUME NEW device \in Sessions, NEW s, NEW known, SessionOK(device, s, known), NEW m
    PROVE  SessionOK(device, ReceiveResponse(s, m), known)
<1> DEFINE t == [s EXCEPT !.remote = m.responder, !.transcript = m.transcript,
                          !.state = "AwaitingUserConfirmation"]
<1>1. CASE ReceiveResponse(s, m) = TimedOut(s) \/ ReceiveResponse(s, m) = Fail(s)
  BY <1>1, TimedOutOK
<1>2. CASE /\ ReceiveResponse(s, m) = t
           /\ s.local = "a" /\ s.state = "AwaitingResponse"
           /\ m.transcript = Transcript("a", m.responder, s.challenge)
  <2> DEFINE t1 == [s EXCEPT !.remote = m.responder]
             t2 == [t1 EXCEPT !.transcript = m.transcript]
             t3 == [t2 EXCEPT !.state = "AwaitingUserConfirmation"]
  <2>1. IsSession(s)
    BY DEF SessionOK
  <2>2. t = t3
    BY <2>1 DEF IsSession
  <2>3. /\ IsSession(t) /\ t.local = "a" /\ t.remote = m.responder /\ t.challenge = s.challenge
        /\ t.transcript = m.transcript /\ t.state = "AwaitingUserConfirmation"
        /\ t.local_confirmed = s.local_confirmed /\ t.remote_confirmed = s.remote_confirmed
    BY <1>2, <2>1 DEF IsSession
  <2> HIDE DEF t, t1, t2, t3
  <2>4. ~s.local_confirmed /\ ~s.remote_confirmed /\ device = "a"
        /\ s.local_confirmed \in BOOLEAN /\ s.remote_confirmed \in BOOLEAN
    BY <1>2, Zenon DEF SessionOK
  <2>5. t.state # "AwaitingResponse" /\ t.state # "Paired"
    BY <2>3
  <2>6. NamesBoth(device, t)
    BY <1>2, <2>3, <2>4, Zenon DEF NamesBoth
  <2>7. SessionOK(device, t, known)
    BY <2>3, <2>4, <2>5, <2>6, Zenon DEF SessionOK, LocallyConfirmed, RemotelyConfirmed
  <2> QED
    BY <1>2, <2>7
<1> QED
  BY <1>1, <1>2 DEF ReceiveResponse

\* confirm: the code is the transcript the other device shows, so it names that device.
LEMMA ConfirmOK ==
    ASSUME NEW device \in Sessions, NEW s, NEW known, SessionOK(device, s, known),
           NEW o, SessionOK(Other(device), o, known), o.transcript # None,
           NEW later, known \subseteq later,
           Confirms(s, o.transcript) => <<device, s.transcript>> \in later
    PROVE  SessionOK(device, Confirm(s, o.transcript), later)
<1> DEFINE next == IF s.remote_confirmed THEN "Paired" ELSE "AwaitingPeerConfirmation"
           t == [s EXCEPT !.local_confirmed = TRUE, !.state = next]
<1>1. SessionOK(device, s, later)
  BY StaysConfirmed
<1>2. CASE \/ Confirm(s, o.transcript) = s
           \/ Confirm(s, o.transcript) = TimedOut(s) \/ Confirm(s, o.transcript) = Fail(s)
  BY <1>1, <1>2, TimedOutOK
<1>3. CASE Confirm(s, o.transcript) = t /\ Confirms(s, o.transcript)
  <2>1. o.transcript = s.transcript /\ s.transcript # None
    BY <1>3 DEF Confirms
  <2>2. s.remote = Other(device)
    <3>1. NamesBoth(device, s) /\ NamesBoth(Other(device), o)
      BY DEF SessionOK
    <3> QED
      BY <2>1, <3>1 DEF NamesBoth, Other, Transcript, Sessions
  <2>3. IsSession(s)
    BY DEF SessionOK
  <2> HIDE DEF next
  <2>4. PICK yes : yes = TRUE
    OBVIOUS
  <2> DEFINE t1 == [s EXCEPT !.local_confirmed = yes]
             t2 == [t1 EXCEPT !.state = next]
  <2>5. /\ IsSession(t) /\ t.local = s.local /\ t.remote = s.remote /\ t.challenge = s.challenge
        /\ t.transcript = s.transcript /\ t.state = next
        /\ t.local_confirmed = yes /\ t.remote_confirmed = s.remote_confirmed
    <3>1. t = [s EXCEPT !.local_confirmed = yes, !.state = next]
      BY <2>4, Zenon
    <3> HIDE DEF t
    <3>2. t = t2
      BY <2>3, <3>1 DEF IsSession
    <3> QED
      BY <2>3, <3>2 DEF IsSession
  <2> HIDE DEF t, t1, t2
  <2>6. t.state # "AwaitingResponse" /\ (t.state = "Paired" => s.remote_confirmed)
    BY <2>5 DEF next
  <2>7. SessionOK(device, t, later)
    BY <1>1, <1>3, <2>2, <2>4, <2>5, <2>6, Zenon
       DEF SessionOK, NamesBoth, LocallyConfirmed, RemotelyConfirmed
  <2> QED
    BY <1>3, <2>7
<1> QED
  BY <1>2, <1>3 DEF Confirm, Confirms

\* receive_confirmation: a signature of the remote device under the session's transcript.
LEMMA ConfirmationOK ==
    ASSUME NEW device, NEW s, NEW known, SessionOK(device, s, known),
           NEW m, HonestMessage(m, known), m.kind = "confirmation"
    PROVE  SessionOK(device, ReceiveConfirmation(s, m), known)
<1> DEFINE next == IF s.local_confirmed THEN "Paired" ELSE s.state
           t == [s EXCEPT !.remote_confirmed = TRUE, !.state = next]
<1>1. CASE \/ ReceiveConfirmation(s, m) = s
           \/ ReceiveConfirmation(s, m) = TimedOut(s) \/ ReceiveConfirmation(s, m) = Fail(s)
  BY <1>1, TimedOutOK
<1>2. CASE /\ ReceiveConfirmation(s, m) = t
           /\ m.signer = s.remote /\ m.transcript = s.transcript
           /\ s.state # "AwaitingResponse" /\ s.state # "Paired"
  <2>1. IsSession(s)
    BY DEF SessionOK
  <2> HIDE DEF next
  <2>2. PICK yes : yes = TRUE
    OBVIOUS
  <2> DEFINE t1 == [s EXCEPT !.remote_confirmed = yes]
             t2 == [t1 EXCEPT !.state = next]
  <2>3. /\ IsSession(t) /\ t.local = s.local /\ t.remote = s.remote /\ t.challenge = s.challenge
        /\ t.transcript = s.transcript /\ t.state = next
        /\ t.local_confirmed = s.local_confirmed /\ t.remote_confirmed = yes
    <3>1. t = [s EXCEPT !.remote_confirmed = yes, !.state = next]
      BY <2>2, Zenon
    <3> HIDE DEF t
    <3>2. t = t2
      BY <2>1, <3>1 DEF IsSession
    <3> QED
      BY <2>1, <3>2 DEF IsSession
  <2> HIDE DEF t, t1, t2
  <2>4. t.state # "AwaitingResponse" /\ (t.state = "Paired" => s.local_confirmed)
    BY <1>2, <2>3 DEF next
  <2>5. SessionOK(device, t, known)
    BY <1>2, <2>2, <2>3, <2>4, Zenon
       DEF SessionOK, NamesBoth, LocallyConfirmed, RemotelyConfirmed, HonestMessage
  <2> QED
    BY <1>2, <2>5
<1> QED
  BY <1>1, <1>2 DEF ReceiveConfirmation

\* A termination that is received claims nothing more.
LEMMA TerminationOK ==
    ASSUME NEW device, NEW s, NEW known, SessionOK(device, s, known),
           NEW m, HonestMessage(m, known), m.kind = "termination"
    PROVE  SessionOK(device, ReceiveTermination(s, m), known)
<1>1. m.reason \in {"Rejected", "Cancelled"}
  BY DEF HonestMessage
<1> QED
  BY <1>1, EndedOK, TimedOutOK DEF ReceiveTermination

\* What the third device makes up is no confirmation of a user, and nothing else it makes
\* up can end a session.
LEMMA ArrivingHonest ==
    ASSUME CeremonyInv
    PROVE  \A m \in Arriving : HonestMessage(m, confirmed)
<1> TAKE m \in Arriving
<1>1. CASE m \in wire
  BY <1>1 DEF CeremonyInv
<1>2. CASE \E n \in wire : n.kind = "offer" /\ m = [n EXCEPT !.from = "m"]
  <2>1. PICK n \in wire : n.kind = "offer" /\ m = [n EXCEPT !.from = "m"]
    BY <1>2
  <2>2. IsOffer(n)
    BY <2>1 DEF CeremonyInv, HonestMessage
  <2>3. m.kind = "offer" /\ IsOffer(m)
    BY <2>1, <2>2 DEF IsOffer
  <2> QED
    BY <2>3 DEF HonestMessage
<1>3. CASE \E n : m = Response(n, "m")
  BY <1>3 DEF Response, HonestMessage
<1>4. CASE \E s : m = [ kind |-> "confirmation", challenge |-> s.challenge, signer |-> "m",
                        transcript |-> s.transcript ]
  BY <1>4 DEF HonestMessage
<1> QED
  BY <1>1, <1>2, <1>3, <1>4 DEF Arriving, Meddled

\* Every step of one of the two devices.
LEMMA DeviceStep ==
    ASSUME CeremonyInv, NEW device \in Sessions, At(device) # None,
           NEW s, Becomes(device, s), confirmed \subseteq confirmed',
           SessionOK(device, s, confirmed'),
           \A m \in wire' \ wire : HonestMessage(m, confirmed')
    PROVE  CeremonyInv'
<1>1. \A m \in wire' : HonestMessage(m, confirmed')
  BY StaysConfirmed, Zenon DEF CeremonyInv
<1>2. /\ ini # None => SessionOK("a", ini, confirmed')
      /\ res # None => SessionOK("b", res, confirmed')
  BY StaysConfirmed, Zenon DEF CeremonyInv
<1>3. CASE device = "a"
  <2>1. ini' = s /\ res' = res
    BY <1>3 DEF Becomes
  <2> QED
    BY <1>1, <1>2, <1>3, <2>1, Zenon DEF CeremonyInv
<1>4. CASE device = "b"
  <2>1. res' = s /\ ini' = ini
    BY <1>4 DEF Becomes
  <2> QED
    BY <1>1, <1>2, <1>4, <2>1, Zenon DEF CeremonyInv
<1> QED
  BY <1>3, <1>4 DEF Sessions

\* The session at a device satisfies the invariant.
LEMMA AtOK ==
    ASSUME CeremonyInv, NEW device \in Sessions, At(device) # None
    PROVE  SessionOK(device, At(device), confirmed)
<1>1. device = "a" \/ device = "b"
  BY DEF Sessions
<1> QED
  BY <1>1 DEF CeremonyInv, At

\* Every step of the devices, the users and the third device keeps the invariant.
LEMMA CeremonyStep ==
    ASSUME CeremonyInv, [CeremonyNext]_ceremonyVars
    PROVE  CeremonyInv'
<1>1. ASSUME StartCeremony
      PROVE  CeremonyInv'
  <2> DEFINE offer == [ kind |-> "offer", from |-> "a", challenge |-> started',
                        expires |-> now + Lifetime ]
             s == Session("a", None, started', now + Lifetime, "AwaitingResponse", None)
  <2>1. ini' = s /\ res' = res /\ confirmed' = confirmed /\ wire' = wire \cup {offer}
    BY <1>1 DEF StartCeremony
  <2>2. HonestMessage(offer, confirmed)
    BY DEF HonestMessage, IsOffer
  <2>3. /\ IsSession(s) /\ s.local = "a" /\ s.transcript = None /\ s.state = "AwaitingResponse"
    BY DEF Session, IsSession
  <2>4. s.local_confirmed = FALSE /\ s.remote_confirmed = FALSE
    BY Zenon DEF Session
  <2> HIDE DEF s, offer
  <2>5. SessionOK("a", s, confirmed)
    <3>1. s.state # "Paired"
      BY <2>3
    <3> QED
      BY <2>3, <2>4, <3>1, Zenon DEF SessionOK, NamesBoth, LocallyConfirmed, RemotelyConfirmed
  <2> QED
    BY <2>1, <2>2, <2>5, Zenon DEF CeremonyInv
<1>2. ASSUME NEW offer \in Arriving, RespondToOffer(offer)
      PROVE  CeremonyInv'
  <2> DEFINE s == Session("b", offer.from, offer.challenge, offer.expires,
                          "AwaitingUserConfirmation",
                          Transcript(offer.from, "b", offer.challenge))
             answer == Response(offer, "b")
  <2>1. res' = s /\ ini' = ini /\ confirmed' = confirmed /\ wire' = wire \cup {answer}
    BY <1>2 DEF RespondToOffer
  <2>2. HonestMessage(answer, confirmed)
    BY DEF HonestMessage, Response
  <2>3. /\ IsSession(s) /\ s.local = "b" /\ s.remote = offer.from
        /\ s.challenge = offer.challenge
        /\ s.transcript = Transcript(offer.from, "b", offer.challenge)
        /\ s.state = "AwaitingUserConfirmation"
    BY DEF Session, IsSession
  <2>4. s.local_confirmed = FALSE /\ s.remote_confirmed = FALSE
    BY Zenon DEF Session
  <2> HIDE DEF s, answer
  <2>5. SessionOK("b", s, confirmed)
    <3>1. s.state # "Paired" /\ s.state # "AwaitingResponse" /\ "b" # "a"
      BY <2>3
    <3>2. NamesBoth("b", s)
      BY <2>3, <3>1, Zenon DEF NamesBoth
    <3> QED
      BY <2>3, <2>4, <3>1, <3>2, Zenon DEF SessionOK, LocallyConfirmed, RemotelyConfirmed
  <2> QED
    BY <2>1, <2>2, <2>5, Zenon DEF CeremonyInv
<1>3. ASSUME NEW device \in Sessions,
             \/ Receives(device, "response", ReceiveResponse)
             \/ Receives(device, "confirmation", ReceiveConfirmation)
             \/ Receives(device, "termination", ReceiveTermination)
      PROVE  CeremonyInv'
  <2>1. At(device) # None /\ wire' = wire /\ confirmed' = confirmed
    BY <1>3 DEF Receives
  <2>2. SessionOK(device, At(device), confirmed)
    BY <2>1, AtOK
  <2>3. PICK m \in Arriving :
          \/ Becomes(device, ReceiveResponse(At(device), m))
          \/ m.kind = "confirmation" /\ Becomes(device, ReceiveConfirmation(At(device), m))
          \/ m.kind = "termination" /\ Becomes(device, ReceiveTermination(At(device), m))
    BY <1>3 DEF Receives
  <2>4. HonestMessage(m, confirmed)
    BY ArrivingHonest
  <2>5. PICK s : Becomes(device, s) /\ SessionOK(device, s, confirmed)
    BY <2>2, <2>3, <2>4, ResponseOK, ConfirmationOK, TerminationOK
  <2> QED
    BY <2>1, <2>5, DeviceStep
<1>4. ASSUME NEW device \in Sessions, UserConfirms(device)
      PROVE  CeremonyInv'
  <2> DEFINE s == At(device)
             o == At(Other(device))
             sent == [ kind |-> "confirmation", challenge |-> s.challenge, signer |-> s.local,
                       transcript |-> s.transcript ]
  <2>1. /\ s # None /\ o # None /\ o.transcript # None
        /\ Becomes(device, Confirm(s, o.transcript))
        /\ \/ /\ Confirms(s, o.transcript)
              /\ wire' = wire \cup {sent}
              /\ confirmed' = confirmed \cup {<<device, s.transcript>>}
           \/ ~Confirms(s, o.transcript) /\ wire' = wire /\ confirmed' = confirmed
    BY <1>4 DEF UserConfirms, Other
  <2>2. Other(device) \in Sessions
    BY DEF Other, Sessions
  <2>3. SessionOK(device, s, confirmed) /\ SessionOK(Other(device), o, confirmed)
    BY <2>1, <2>2, AtOK
  <2>4. /\ confirmed \subseteq confirmed'
        /\ Confirms(s, o.transcript) => <<device, s.transcript>> \in confirmed'
    BY <2>1
  <2>5. \A m \in wire' \ wire : HonestMessage(m, confirmed')
    <3>0. s.local = device
      BY <2>3, Zenon DEF SessionOK
    <3> HIDE DEF s, o
    <3>1. sent.kind = "confirmation" /\ sent.signer = device /\ sent.transcript = s.transcript
      BY <3>0
    <3> HIDE DEF sent
    <3>2. Confirms(s, o.transcript) => HonestMessage(sent, confirmed')
      BY <2>4, <3>1 DEF HonestMessage
    <3>3. \A m \in wire' \ wire : m = sent /\ Confirms(s, o.transcript)
      BY <2>1
    <3> QED
      BY <3>2, <3>3, Zenon
  <2> HIDE DEF s, o, sent
  <2>6. SessionOK(device, Confirm(s, o.transcript), confirmed')
    BY <2>1, <2>3, <2>4, ConfirmOK, Zenon
  <2>7. At(device) # None
    BY <2>1 DEF s
  <2> QED
    BY <2>1, <2>4, <2>5, <2>6, <2>7, DeviceStep, Zenon
<1>5. ASSUME NEW device \in Sessions, NEW reason \in {"Rejected", "Cancelled"},
             UserEnds(device, reason)
      PROVE  CeremonyInv'
  <2> DEFINE s == [At(device) EXCEPT !.state = reason]
             sent == [ kind |-> "termination", challenge |-> At(device).challenge,
                       reason |-> reason ]
  <2>1. /\ At(device) # None /\ Becomes(device, s) /\ confirmed' = confirmed
        /\ wire' = wire \cup {sent}
    BY <1>5 DEF UserEnds
  <2>2. SessionOK(device, s, confirmed)
    BY <2>1, AtOK, EndedOK
  <2>3. HonestMessage(sent, confirmed)
    BY DEF HonestMessage
  <2> HIDE DEF s, sent
  <2> QED
    BY <2>1, <2>2, <2>3, DeviceStep
<1>6. ASSUME NEW device \in Sessions, SessionTick(device)
      PROVE  CeremonyInv'
  <2>1. /\ At(device) # None /\ Becomes(device, TimedOut(At(device))) /\ confirmed' = confirmed
        /\ wire' = wire
    BY <1>6 DEF SessionTick
  <2>2. SessionOK(device, TimedOut(At(device)), confirmed)
    BY <2>1, AtOK, TimedOutOK
  <2> QED
    BY <2>1, <2>2, DeviceStep
<1>7. ASSUME CeremonyTime \/ UNCHANGED ceremonyVars
      PROVE  CeremonyInv'
  <2>1. ini' = ini /\ res' = res /\ wire' = wire /\ confirmed' = confirmed
    BY <1>7 DEF CeremonyTime, ceremonyVars
  <2> QED
    BY <2>1 DEF CeremonyInv
<1> QED
  BY <1>1, <1>2, <1>3, <1>4, <1>5, <1>6, <1>7 DEF CeremonyNext

\* Every session names the devices its transcript binds and knows who confirmed it, whatever
\* arrives (receive_response, confirm, receive_confirmation, receive_termination).
THEOREM CeremonyInvariant == CeremonySpec => []CeremonyInv
<1>1. CeremonyInit => CeremonyInv
  BY CeremonyInitial
<1>2. CeremonyInv /\ [CeremonyNext]_ceremonyVars => CeremonyInv'
  BY CeremonyStep
<1> QED
  BY <1>1, <1>2, PTL DEF CeremonySpec

\* A paired session is the work of two users: both confirmed the transcript that binds their
\* two devices (confirm, receive_confirmation).
THEOREM PairingIsMutual == CeremonySpec => []PairedMeansConfirmed
<1>1. CeremonyInv => PairedMeansConfirmed
  <2> SUFFICES ASSUME CeremonyInv, NEW device \in Sessions, At(device) # None,
                      At(device).state = "Paired"
               PROVE  /\ At(device).remote = Other(device)
                      /\ <<At(device).remote, At(device).transcript>> \in confirmed
                      /\ <<device, At(device).transcript>> \in confirmed
    BY Zenon DEF PairedMeansConfirmed, Other
  <2>1. SessionOK(device, At(device), confirmed)
    BY AtOK
  <2>2. Other(device) # "m"
    BY DEF Other
  <2> QED
    BY <2>1, <2>2, Zenon DEF SessionOK, LocallyConfirmed, RemotelyConfirmed
<1> QED
  BY <1>1, CeremonyInvariant, PTL

\* Every call leaves a session that ended without pairing as it is, or fails it.
LEMMA StaysEnded ==
    ASSUME NEW s, IsSession(s), s.state \in Terminal, s.state # "Paired", NEW m, NEW code
    PROVE  /\ ReceiveResponse(s, m).state # "Paired"
           /\ ReceiveConfirmation(s, m) = s
           /\ ReceiveTermination(s, m) = s
           /\ Confirm(s, code) = s
           /\ TimedOut(s) = s
<1>1. TimedOut(s) = s
  BY DEF TimedOut
<1>2. Fail(s).state = "Failed"
  BY DEF Fail, IsSession
<1>3. ReceiveResponse(s, m) = s \/ ReceiveResponse(s, m) = Fail(s)
  BY <1>1 DEF ReceiveResponse, Terminal
<1>4. /\ ReceiveConfirmation(s, m) = s
      /\ ReceiveTermination(s, m) = s
      /\ Confirm(s, code) = s
  BY <1>1 DEF ReceiveConfirmation, ReceiveTermination, Confirm, Terminal
<1> QED
  BY <1>1, <1>2, <1>3, <1>4

\* No message, late or repeated, and no call pairs a session that had ended (set_state,
\* check_time).
THEOREM NoSessionIsResurrected == CeremonySpec => NoResurrection
<1> DEFINE Stays(device) ==
             At(device) # None /\ At(device)' # None /\ At(device).state \in Terminal \ {"Paired"}
                 /\ At(device)'.challenge = At(device).challenge
                 => At(device)'.state # "Paired"
<1>1. ASSUME CeremonyInv, [CeremonyNext]_ceremonyVars, NEW device \in Sessions
      PROVE  Stays(device)
  <2>1. SUFFICES ASSUME At(device) # None, At(device).state \in Terminal,
                        At(device).state # "Paired"
                 PROVE  At(device)'.state # "Paired"
    OBVIOUS
  <2>2. IsSession(At(device))
    BY <2>1, <1>1, AtOK DEF SessionOK
  <2>3. CASE At(device)' = At(device)
    BY <2>1, <2>3
  <2>4. ASSUME NEW s, Becomes(device, s), s.state # "Paired"
        PROVE  At(device)'.state # "Paired"
    BY <2>4 DEF Becomes, At
  <2>5. ASSUME NEW other \in Sessions, other # device, NEW s, Becomes(other, s)
        PROVE  At(device)' = At(device)
    BY <2>5 DEF Becomes, At, Sessions
  <2>6. CASE StartCeremony
    <3>1. /\ ini' = Session("a", None, started', now + Lifetime, "AwaitingResponse", None)
          /\ res' = res
      BY <2>6 DEF StartCeremony
    <3>2. ini'.state # "Paired"
      BY <3>1 DEF Session
    <3> QED
      BY <2>1, <3>1, <3>2 DEF At
  <2>7. CASE \E m \in Arriving : RespondToOffer(m)
    <3>1. PICK m \in Arriving : RespondToOffer(m)
      BY <2>7
    <3>2. /\ res' = Session("b", m.from, m.challenge, m.expires, "AwaitingUserConfirmation",
                            Transcript(m.from, "b", m.challenge))
          /\ ini' = ini
      BY <3>1 DEF RespondToOffer
    <3>3. res'.state # "Paired"
      BY <3>2 DEF Session
    <3> QED
      BY <2>1, <3>2, <3>3 DEF At
  <2>8. ASSUME NEW d \in Sessions,
               \/ Receives(d, "response", ReceiveResponse)
               \/ Receives(d, "confirmation", ReceiveConfirmation)
               \/ Receives(d, "termination", ReceiveTermination)
               \/ UserConfirms(d) \/ SessionTick(d)
        PROVE  At(device)'.state # "Paired"
    <3>1. PICK m, code :
            \/ Becomes(d, ReceiveResponse(At(d), m)) \/ Becomes(d, ReceiveConfirmation(At(d), m))
            \/ Becomes(d, ReceiveTermination(At(d), m)) \/ Becomes(d, Confirm(At(d), code))
            \/ Becomes(d, TimedOut(At(d)))
      BY <2>8, Zenon DEF Receives, UserConfirms, SessionTick
    <3>2. CASE d = device
      BY <2>1, <2>2, <2>4, <3>1, <3>2, StaysEnded
    <3>3. CASE d # device
      BY <2>3, <2>5, <3>1, <3>3
    <3> QED
      BY <3>2, <3>3
  <2>9. ASSUME NEW d \in Sessions, NEW reason, UserEnds(d, reason)
        PROVE  At(device)'.state # "Paired"
    <3>1. At(d).state \notin Terminal /\ \E s : Becomes(d, s)
      BY <2>9 DEF UserEnds
    <3> QED
      BY <2>1, <2>3, <2>5, <3>1
  <2>10. CASE CeremonyTime \/ UNCHANGED ceremonyVars
    <3>1. ini' = ini /\ res' = res
      BY <2>10 DEF CeremonyTime, ceremonyVars
    <3> QED
      BY <2>3, <3>1 DEF At
  <2> QED
    BY <1>1, <2>6, <2>7, <2>8, <2>9, <2>10 DEF CeremonyNext
<1>2. CeremonyInv /\ [CeremonyNext]_ceremonyVars
        => [\A device \in Sessions : Stays(device)]_ceremonyVars
  BY <1>1
<1> QED
  BY <1>2, CeremonyInvariant, PTL DEF CeremonySpec, NoResurrection

-----------------------------------------------------------------------------
(* The attempt windows *)

\* What a limiter keeps of a source (entries) is the end of the log of its admitted
\* attempts, and what it dropped has left the window.
Tracks(entries, log, window, instant) ==
    /\ entries \in Seq(Nat)
    /\ Len(entries) <= Len(log)
    /\ \A i \in 1 .. Len(entries) : entries[i] = log[Len(log) - Len(entries) + i]
    /\ \A i \in 1 .. (Len(log) - Len(entries)) : log[i] + window <= instant

\* Attempts are logged in order, and never more than the maximum in one window.
IsLog(log, maximum, window, instant) ==
    /\ log \in Seq(Nat)
    /\ \A i \in 1 .. Len(log) : log[i] <= instant
    /\ \A i, j \in 1 .. Len(log) : i <= j => log[i] <= log[j]
    /\ \A i \in 1 .. Len(log) : i + maximum <= Len(log) => log[i] + window <= log[i + maximum]

\* A window goes on tracking its log while time passes.
LEMMA TracksLater ==
    ASSUME NEW entries, NEW log, NEW maximum \in Nat, NEW window \in Nat, NEW instant \in Nat,
           NEW later \in Nat, instant <= later,
           IsLog(log, maximum, window, instant), Tracks(entries, log, window, instant)
    PROVE  IsLog(log, maximum, window, later) /\ Tracks(entries, log, window, later)
<1>1. log \in Seq(Nat) /\ entries \in Seq(Nat)
  BY DEF IsLog, Tracks
<1>2. IsLog(log, maximum, window, later)
  BY <1>1 DEF IsLog
<1>3. \A i \in 1 .. (Len(log) - Len(entries)) : log[i] + window <= later
  BY <1>1 DEF Tracks
<1> QED
  BY <1>1, <1>2, <1>3 DEF Tracks

\* A source whose attempts have all left the window may be forgotten.
LEMMA TracksForgotten ==
    ASSUME NEW log \in Seq(Nat), NEW window \in Nat, NEW instant \in Nat,
           \A i \in 1 .. Len(log) : log[i] + window <= instant
    PROVE  Tracks(<<>>, log, window, instant)
<1>1. /\ <<>> \in Seq(Nat) /\ Len(<<>>) = 0 /\ Len(log) \in Nat
  OBVIOUS
<1>2. Len(log) - Len(<<>>) = Len(log)
  BY <1>1
<1> QED
  BY <1>1, <1>2 DEF Tracks

\* The age of an entry, which is never in the future.
LEMMA AgeFacts ==
    ASSUME NEW entry \in Nat, NEW instant \in Nat, NEW window \in Nat, entry <= instant
    PROVE  Age(entry, instant) \in Nat /\ (~(Age(entry, instant) < window) => entry + window <= instant)
  BY DEF Age

\* retain drops a source only when its last attempt, and with it every one, is old.
LEMMA RecentTracks ==
    ASSUME NEW table, NEW source, NEW log, NEW maximum \in Nat, NEW window \in Nat,
           NEW instant \in Nat, IsLog(log, maximum, window, instant),
           Tracks(EntriesOf(table, source), log, window, instant)
    PROVE  Tracks(EntriesOf(Recent(table, window, instant), source), log, window, instant)
<1> DEFINE entries == EntriesOf(table, source)
           recent == Recent(table, window, instant)
<1>0. /\ Len(log) \in Nat /\ Len(entries) \in Nat
      /\ \A i \in 1 .. Len(log) : log[i] \in Nat
      /\ \A i \in 1 .. Len(entries) : entries[i] \in Nat
  <2>1. log \in Seq(Nat) /\ entries \in Seq(Nat)
    BY DEF IsLog, Tracks
  <2> HIDE DEF entries
  <2> QED
    BY <2>1
<1>1. /\ log \in Seq(Nat) /\ entries \in Seq(Nat)
      /\ \A i \in 1 .. Len(log) : log[i] <= instant
      /\ \A i, j \in 1 .. Len(log) : i <= j => log[i] <= log[j]
      /\ Len(entries) <= Len(log)
      /\ \A i \in 1 .. Len(entries) : entries[i] = log[Len(log) - Len(entries) + i]
      /\ \A i \in 1 .. (Len(log) - Len(entries)) : log[i] + window <= instant
  BY DEF IsLog, Tracks
<1>2. CASE source \in DOMAIN recent
  <2>1. EntriesOf(recent, source) = entries
    BY <1>2 DEF EntriesOf, Recent
  <2> QED
    BY <2>1
<1>3. CASE source \notin DOMAIN recent
  <2>1. EntriesOf(recent, source) = <<>>
    BY <1>3 DEF EntriesOf
  <2>2. entries = <<>> \/ ~(Age(Last(entries), instant) < window)
    BY <1>3 DEF EntriesOf, Recent
  <2> HIDE DEF entries
  <2>3. \A i \in 1 .. Len(log) : log[i] + window <= instant
    <3>1. CASE entries = <<>>
      BY <1>0, <1>1, <3>1
    <3>2. CASE entries # <<>>
      <4>1. Len(entries) \in 1 .. Len(log) /\ Last(entries) = log[Len(log)]
        BY <1>0, <1>1, <3>2 DEF Last
      <4>2. log[Len(log)] \in Nat /\ log[Len(log)] <= instant
        BY <1>0, <1>1, <4>1
      <4>3. log[Len(log)] + window <= instant
        BY <2>2, <3>2, <4>1, <4>2, AgeFacts
      <4>4. ASSUME NEW i \in 1 .. Len(log)
            PROVE  log[i] + window <= instant
        <5>1. i \in 1 .. Len(log) /\ Len(log) \in 1 .. Len(log) /\ i <= Len(log)
          BY <1>0, <4>1
        <5>2. log[i] <= log[Len(log)] /\ log[i] \in Nat
          BY <1>0, <1>1, <5>1
        <5> QED
          BY <4>2, <4>3, <5>2
      <4> QED
        BY <4>4
    <3> QED
      BY <3>1, <3>2
  <2> QED
    BY <1>0, <1>1, <2>1, <2>3, TracksForgotten
<1> QED
  BY <1>2, <1>3

\* Popping what has left the window from the front.
LEMMA InWindowTracks ==
    ASSUME NEW entries, NEW log, NEW maximum \in Nat, NEW window \in Nat,
           NEW instant \in Nat, IsLog(log, maximum, window, instant), Tracks(entries, log, window, instant)
    PROVE  Tracks(InWindow(entries, window, instant), log, window, instant)
<1>0. /\ Len(log) \in Nat /\ Len(entries) \in Nat
      /\ \A i \in 1 .. Len(log) : log[i] \in Nat
      /\ \A i \in 1 .. Len(entries) : entries[i] \in Nat
  <2>1. log \in Seq(Nat) /\ entries \in Seq(Nat)
    BY DEF IsLog, Tracks
  <2> QED
    BY <2>1
<1>1. /\ log \in Seq(Nat) /\ entries \in Seq(Nat)
      /\ \A i \in 1 .. Len(log) : log[i] <= instant
      /\ Len(entries) <= Len(log)
      /\ \A i \in 1 .. Len(entries) : entries[i] = log[Len(log) - Len(entries) + i]
      /\ \A i \in 1 .. (Len(log) - Len(entries)) : log[i] + window <= instant
  BY DEF IsLog, Tracks
<1> DEFINE fresh == {i \in DOMAIN entries : Age(entries[i], instant) < window}
           first == CHOOSE i \in fresh : \A j \in fresh : i <= j
<1>2. DOMAIN entries = 1 .. Len(entries)
  BY <1>0, <1>1
<1>3. \A i \in 1 .. Len(entries) :
        entries[i] \in Nat /\ entries[i] <= instant /\ (i \notin fresh => entries[i] + window <= instant)
  <2> TAKE i \in 1 .. Len(entries)
  <2>1. Len(log) - Len(entries) + i \in 1 .. Len(log)
    BY <1>0, <1>1
  <2>2. entries[i] \in Nat /\ entries[i] <= instant
    BY <1>0, <1>1, <2>1
  <2>3. i \notin fresh => ~(Age(entries[i], instant) < window)
    BY <1>2
  <2> QED
    BY <2>2, <2>3, AgeFacts
<1>4. CASE fresh = {}
  <2>1. InWindow(entries, window, instant) = <<>>
    BY <1>4 DEF InWindow
  <2>2. \A i \in 1 .. Len(log) : log[i] + window <= instant
    <3> SUFFICES ASSUME NEW i \in 1 .. Len(log), ~(i <= Len(log) - Len(entries))
                 PROVE  log[i] + window <= instant
      BY <1>0, <1>1
    <3>0. PICK n, m \in Nat : n = Len(log) /\ m = Len(entries) /\ m <= n
      BY <1>0, <1>1
    <3>1. PICK j \in 1 .. Len(entries) : j = i - (Len(log) - Len(entries))
      <4>1. i - (n - m) \in 1 .. m
        BY <3>0
      <4> QED
        BY <3>0, <4>1
    <3>2. entries[j] = log[i]
      BY <1>0, <1>1, <3>1
    <3> QED
      BY <1>3, <1>4, <3>2
  <2> QED
    BY <1>0, <1>1, <2>1, <2>2, TracksForgotten
<1>5. CASE fresh # {}
  <2>1. first \in fresh /\ \A j \in fresh : first <= j
    <3>1. fresh \in SUBSET Nat
      BY <1>2
    <3>2. \E i \in fresh : \A j \in fresh : i <= j
      BY <1>5, <3>1, LeastElement
    <3> QED
      BY <3>2
  <2>2. InWindow(entries, window, instant) = SubSeq(entries, first, Len(entries))
    BY <1>5 DEF InWindow
  <2> HIDE DEF first
  <2>3. first \in 1 .. Len(entries) /\ \A i \in 1 .. (first - 1) : i \notin fresh
    BY <1>2, <2>1
  <2> HIDE DEF fresh
  <2> DEFINE kept == SubSeq(entries, first, Len(entries))
  <2>4. /\ kept \in Seq(Nat) /\ Len(kept) = Len(entries) - first + 1
        /\ \A i \in 1 .. Len(kept) : kept[i] = entries[first + i - 1]
    BY <1>0, <1>1, <2>3, SMTT(60)
  <2> HIDE DEF kept
  <2>5. \A i \in 1 .. Len(kept) : kept[i] = log[Len(log) - Len(kept) + i]
    <3> TAKE i \in 1 .. Len(kept)
    <3>1. first + i - 1 \in 1 .. Len(entries)
      BY <1>0, <1>1, <2>3, <2>4
    <3>2. Len(log) - Len(entries) + (first + i - 1) = Len(log) - Len(kept) + i
      BY <1>0, <1>1, <2>3, <2>4
    <3> QED
      BY <1>0, <1>1, <2>4, <3>1, <3>2
  <2>6. \A i \in 1 .. (Len(log) - Len(kept)) : log[i] + window <= instant
    <3> SUFFICES ASSUME NEW i \in 1 .. (Len(log) - Len(kept)), ~(i <= Len(log) - Len(entries))
                 PROVE  log[i] + window <= instant
      BY <1>0, <1>1
    <3>0. PICK n, m \in Nat : n = Len(log) /\ m = Len(entries) /\ m <= n
      BY <1>0, <1>1
    <3>1. PICK j \in 1 .. (first - 1) : j = i - (n - m)
      <4>1. first \in 1 .. m /\ i \in 1 .. (n - (m - first + 1)) /\ ~(i <= n - m)
        BY <2>3, <2>4, <3>0
      <4>2. i - (n - m) \in 1 .. (first - 1)
        BY <3>0, <4>1
      <4> QED
        BY <4>2
    <3>2. j \in 1 .. Len(entries) /\ entries[j] = log[i]
      <4>1. first \in 1 .. m /\ j \in 1 .. m /\ n - m + j = i
        BY <2>3, <3>0, <3>1
      <4> QED
        BY <1>1, <3>0, <4>1
    <3> QED
      BY <1>3, <2>3, <3>1, <3>2
  <2>7. Len(kept) <= Len(log)
    BY <1>0, <1>1, <2>3, <2>4
  <2>8. Tracks(kept, log, window, instant)
    BY <2>4, <2>5, <2>6, <2>7 DEF Tracks
  <2> QED
    BY <2>2, <2>8 DEF kept
<1> QED
  BY <1>4, <1>5

\* An attempt that is admitted finds fewer than the maximum in the window.
LEMMA AdmittedTracks ==
    ASSUME NEW entries, NEW log, NEW maximum \in Nat \ {0}, NEW window \in Nat,
           NEW instant \in Nat, IsLog(log, maximum, window, instant), Tracks(entries, log, window, instant),
           Len(entries) < maximum
    PROVE  /\ IsLog(Append(log, instant), maximum, window, instant)
           /\ Tracks(Append(entries, instant), Append(log, instant), window, instant)
<1>0. /\ Len(log) \in Nat /\ Len(entries) \in Nat
      /\ \A i \in 1 .. Len(log) : log[i] \in Nat
      /\ \A i \in 1 .. Len(entries) : entries[i] \in Nat
  <2>1. log \in Seq(Nat) /\ entries \in Seq(Nat)
    BY DEF IsLog, Tracks
  <2> QED
    BY <2>1
<1>1. /\ log \in Seq(Nat) /\ entries \in Seq(Nat)
      /\ \A i \in 1 .. Len(log) : log[i] <= instant
      /\ \A i, j \in 1 .. Len(log) : i <= j => log[i] <= log[j]
      /\ \A i \in 1 .. Len(log) : i + maximum <= Len(log) => log[i] + window <= log[i + maximum]
      /\ Len(entries) <= Len(log)
      /\ \A i \in 1 .. Len(entries) : entries[i] = log[Len(log) - Len(entries) + i]
      /\ \A i \in 1 .. (Len(log) - Len(entries)) : log[i] + window <= instant
  BY DEF IsLog, Tracks
<1> DEFINE longer == Append(log, instant)
           kept == Append(entries, instant)
<1>2. /\ longer \in Seq(Nat) /\ Len(longer) = Len(log) + 1 /\ longer[Len(log) + 1] = instant
      /\ \A i \in 1 .. Len(log) : longer[i] = log[i]
  BY <1>1
<1>3. /\ kept \in Seq(Nat) /\ Len(kept) = Len(entries) + 1 /\ kept[Len(entries) + 1] = instant
      /\ \A i \in 1 .. Len(entries) : kept[i] = entries[i]
  BY <1>1
<1> HIDE DEF longer, kept
<1>4. PICK n, m \in Nat : n = Len(log) /\ m = Len(entries)
  BY <1>0
<1>5. /\ Len(longer) = n + 1 /\ Len(kept) = m + 1 /\ m <= n /\ m < maximum
      /\ longer[n + 1] = instant /\ kept[m + 1] = instant
  BY <1>1, <1>2, <1>3, <1>4
<1>6. /\ \A i \in 1 .. n : longer[i] = log[i] /\ log[i] \in Nat /\ log[i] <= instant
      /\ \A i \in 1 .. m : kept[i] = entries[i] /\ entries[i] = log[n - m + i]
      /\ \A i, j \in 1 .. n : i <= j => log[i] <= log[j]
      /\ \A i \in 1 .. n : i + maximum <= n => log[i] + window <= log[i + maximum]
      /\ \A i \in 1 .. (n - m) : log[i] + window <= instant
  BY <1>0, <1>1, <1>2, <1>3, <1>4
<1>7. \A i \in 1 .. (n + 1) : longer[i] <= instant
  BY <1>5, <1>6
<1>8. \A i, j \in 1 .. (n + 1) : i <= j => longer[i] <= longer[j]
  <2> TAKE i, j \in 1 .. (n + 1)
  <2>1. CASE j = n + 1
    BY <1>5, <1>7, <2>1
  <2>2. CASE j # n + 1 /\ i <= j
    <3>1. i \in 1 .. n /\ j \in 1 .. n
      BY <2>2
    <3> QED
      BY <1>6, <2>2, <3>1
  <2> QED
    BY <2>1, <2>2
<1>9. \A i \in 1 .. (n + 1) : i + maximum <= n + 1 => longer[i] + window <= longer[i + maximum]
  <2> SUFFICES ASSUME NEW i \in 1 .. (n + 1), i + maximum <= n + 1
               PROVE  longer[i] + window <= longer[i + maximum]
    OBVIOUS
  <2>1. i \in 1 .. n /\ longer[i] = log[i]
    BY <1>6
  <2>2. CASE i + maximum = n + 1
    <3>1. i \in 1 .. (n - m)
      BY <1>5, <2>1, <2>2
    <3> QED
      BY <1>5, <1>6, <2>1, <2>2, <3>1
  <2>3. CASE i + maximum # n + 1
    <3>1. i + maximum \in 1 .. n
      BY <2>1, <2>3
    <3> QED
      BY <1>6, <2>1, <3>1
  <2> QED
    BY <2>2, <2>3
<1>10. \A i \in 1 .. (m + 1) : kept[i] = longer[(n + 1) - (m + 1) + i]
  <2> TAKE i \in 1 .. (m + 1)
  <2>1. CASE i = m + 1
    <3>1. (n + 1) - (m + 1) + i = n + 1
      BY <2>1
    <3> QED
      BY <1>5, <2>1, <3>1
  <2>2. CASE i # m + 1
    <3>1. /\ i \in 1 .. m /\ (n + 1) - (m + 1) + i = n - m + i /\ n - m + i \in 1 .. n
      BY <1>5, <2>2
    <3> QED
      BY <1>6, <3>1
  <2> QED
    BY <2>1, <2>2
<1>11. \A i \in 1 .. ((n + 1) - (m + 1)) : longer[i] + window <= instant
  <2> TAKE i \in 1 .. ((n + 1) - (m + 1))
  <2>1. i \in 1 .. (n - m) /\ i \in 1 .. n
    OBVIOUS
  <2> QED
    BY <1>6, <2>1
<1>12. IsLog(longer, maximum, window, instant)
  BY <1>2, <1>5, <1>7, <1>8, <1>9 DEF IsLog
<1>13. Tracks(kept, longer, window, instant)
  <2>1. Len(kept) <= Len(longer)
    BY <1>5
  <2>2. /\ \A i \in 1 .. Len(kept) : kept[i] = longer[Len(longer) - Len(kept) + i]
        /\ \A i \in 1 .. (Len(longer) - Len(kept)) : longer[i] + window <= instant
    BY <1>5, <1>10, <1>11, Zenon
  <2> QED
    BY <1>3, <2>1, <2>2, Zenon DEF Tracks
<1> QED
  BY <1>12, <1>13 DEF longer, kept

\* A table of at most maxSources sources that tracks the logs of all peers.
TableOK(table, logs, peers, maximum, maxSources, window, instant) ==
    /\ IsFiniteSet(DOMAIN table) /\ Cardinality(DOMAIN table) <= maxSources
    /\ \A p \in peers :
         /\ IsLog(logs[p], maximum, window, instant)
         /\ Tracks(EntriesOf(table, p), logs[p], window, instant)

\* The logs after an attempt of a source.
LogsAfter(logs, source, outcome, instant) ==
    IF outcome.admitted THEN [logs EXCEPT ![source] = Append(@, instant)] ELSE logs

\* admit (allow) keeps the table within its bounds and tracks what it admitted.
LEMMA OutcomeOK ==
    ASSUME NEW table, NEW peers, NEW source \in peers, NEW logs, logs = [p \in peers |-> logs[p]],
           NEW maximum \in Nat \ {0}, NEW maxSources \in Nat, NEW window \in Nat, NEW instant \in Nat,
           TableOK(table, logs, peers, maximum, maxSources, window, instant)
    PROVE  LET outcome == AttemptOutcome(table, source, maximum, maxSources, window, instant)
           IN  TableOK(outcome.table, LogsAfter(logs, source, outcome, instant), peers, maximum,
                       maxSources, window, instant)
<1> DEFINE recent == Recent(table, window, instant)
           entries == InWindow(EntriesOf(recent, source), window, instant)
           With(value) == [s \in DOMAIN recent \cup {source} |->
                             IF s = source THEN value ELSE recent[s]]
           outcome == AttemptOutcome(table, source, maximum, maxSources, window, instant)
<1>1. /\ IsFiniteSet(DOMAIN table) /\ Cardinality(DOMAIN table) \in Nat
      /\ Cardinality(DOMAIN table) <= maxSources
  BY FS_CardinalityType DEF TableOK
<1>2. /\ IsFiniteSet(DOMAIN recent) /\ Cardinality(DOMAIN recent) \in Nat
      /\ Cardinality(DOMAIN recent) <= maxSources
  <2>1. DOMAIN recent \subseteq DOMAIN table
    BY DEF Recent
  <2> HIDE DEF recent
  <2> QED
    BY <1>1, <2>1, FS_Subset, FS_CardinalityType
<1>3. \A p \in peers : IsLog(logs[p], maximum, window, instant)
  BY DEF TableOK
<1>4. \A p \in peers : Tracks(EntriesOf(recent, p), logs[p], window, instant)
  BY <1>3, RecentTracks DEF TableOK
<1>5. Tracks(entries, logs[source], window, instant)
  BY <1>3, <1>4, InWindowTracks
<1>6. ASSUME NEW value
      PROVE  /\ EntriesOf(With(value), source) = value
             /\ \A p \in peers : p # source => EntriesOf(With(value), p) = EntriesOf(recent, p)
             /\ DOMAIN With(value) = DOMAIN recent \cup {source}
  <2> HIDE DEF recent
  <2> QED
    BY DEF EntriesOf
<1>9. source \notin DOMAIN recent => ~(Len(entries) >= maximum)
  <2>1. source \notin DOMAIN recent => EntriesOf(recent, source) = <<>>
    BY DEF EntriesOf
  <2>2. InWindow(<<>>, window, instant) = <<>>
    BY DEF InWindow
  <2>3. Len(<<>>) = 0 /\ ~(0 >= maximum)
    OBVIOUS
  <2> HIDE DEF recent
  <2> QED
    BY <2>1, <2>2, <2>3, Zenon
<1> HIDE DEF With, recent, entries, outcome
<1>7. CASE source \notin DOMAIN recent /\ Cardinality(DOMAIN recent) >= maxSources
  <2>1. outcome = [admitted |-> FALSE, table |-> recent]
    BY <1>7, <1>9 DEF AttemptOutcome, recent, entries, With, outcome
  <2>2. outcome.table = recent
    BY <2>1
  <2>3. outcome.admitted = FALSE
    BY <2>1, Zenon
  <2>4. LogsAfter(logs, source, outcome, instant) = logs
    BY <2>3, Zenon DEF LogsAfter
  <2> QED
    BY <1>2, <1>3, <1>4, <2>2, <2>4, Zenon DEF TableOK, outcome
<1>8. CASE ~(source \notin DOMAIN recent /\ Cardinality(DOMAIN recent) >= maxSources)
  <2>1. IsFiniteSet(DOMAIN recent \cup {source})
    BY <1>2, FS_AddElement
  <2>2. Cardinality(DOMAIN recent \cup {source}) <= maxSources
    <3>1. CASE source \in DOMAIN recent
      <4>1. DOMAIN recent \cup {source} = DOMAIN recent
        BY <3>1
      <4> QED
        BY <1>2, <4>1
    <3>2. CASE source \notin DOMAIN recent
      <4>1. Cardinality(DOMAIN recent \cup {source}) = Cardinality(DOMAIN recent) + 1
        BY <1>2, <3>2, FS_AddElement
      <4> QED
        BY <1>2, <1>8, <3>2, <4>1
    <3> QED
      BY <3>1, <3>2
  <2>3. CASE Len(entries) >= maximum
    <3>1. outcome = [admitted |-> FALSE, table |-> With(entries)]
      BY <1>8, <2>3 DEF AttemptOutcome, recent, entries, With, outcome
    <3>2. outcome.table = With(entries)
      BY <3>1
    <3>3. outcome.admitted = FALSE
      BY <3>1, Zenon
    <3>4. LogsAfter(logs, source, outcome, instant) = logs
      BY <3>3, Zenon DEF LogsAfter
    <3>5. \A p \in peers : Tracks(EntriesOf(With(entries), p), logs[p], window, instant)
      BY <1>4, <1>5, <1>6, Zenon
    <3>6. DOMAIN With(entries) = DOMAIN recent \cup {source}
      BY <1>6, Zenon
    <3>7. TableOK(With(entries), logs, peers, maximum, maxSources, window, instant)
      BY <1>3, <2>1, <2>2, <3>5, <3>6, Zenon DEF TableOK
    <3> QED
      BY <3>2, <3>4, <3>7, Zenon DEF outcome
  <2>4. CASE ~(Len(entries) >= maximum)
    <3> DEFINE value == Append(entries, instant)
               longer == Append(logs[source], instant)
    <3>1. outcome = [admitted |-> TRUE, table |-> With(value)]
      BY <1>8, <2>4 DEF AttemptOutcome, recent, entries, With, outcome
    <3>2. outcome.table = With(value)
      BY <3>1
    <3>3. outcome.admitted = TRUE
      BY <3>1, Zenon
    <3>4. IsLog(longer, maximum, window, instant) /\ Tracks(value, longer, window, instant)
      <4>1. Len(entries) < maximum
        BY <1>5, <2>4 DEF Tracks
      <4> QED
        BY <1>3, <1>5, <4>1, AdmittedTracks
    <3> HIDE DEF value, longer
    <3> DEFINE after == LogsAfter(logs, source, outcome, instant)
    <3>5. after[source] = longer /\ \A p \in peers : p # source => after[p] = logs[p]
      <4>1. after = [logs EXCEPT ![source] = Append(@, instant)]
        BY <3>3, Zenon DEF LogsAfter
      <4> HIDE DEF after
      <4> QED
        BY <4>1 DEF longer
    <3> HIDE DEF after
    <3>6. \A p \in peers : /\ IsLog(after[p], maximum, window, instant)
                           /\ Tracks(EntriesOf(With(value), p), after[p], window, instant)
      BY <1>3, <1>4, <1>6, <3>4, <3>5, Zenon
    <3>7. DOMAIN With(value) = DOMAIN recent \cup {source}
      BY <1>6, Zenon
    <3>8. TableOK(With(value), after, peers, maximum, maxSources, window, instant)
      BY <2>1, <2>2, <3>6, <3>7, Zenon DEF TableOK
    <3> QED
      BY <3>2, <3>8, Zenon DEF outcome, after
  <2> QED
    BY <2>3, <2>4
<1> QED
  BY <1>7, <1>8

\* The admitted attempts of every peer in one of the two tables.
LogsOf(kind, log) == [p \in Peers |-> log[<<kind, p>>]]

Limited(table, kind, maximum, log, instant) ==
    TableOK(table, LogsOf(kind, log), Peers, maximum, MaxPeers, AttemptsWindow, instant)

LimiterInv ==
    /\ clock \in Nat
    /\ admitted = [k \in {"attempt", "failure"} \X Peers |-> admitted[k]]
    /\ Limited(attempts, "attempt", MaxAttempts, admitted, clock)
    /\ Limited(failures, "failure", MaxFailures, admitted, clock)

\* The guard remembers the last challenges it accepted, capacity of them if it can.
RemembersLast ==
    /\ order \in Seq(Challenges) /\ reserved \in Seq(Challenges)
    /\ Len(order) = IF Len(reserved) <= GuardCapacity THEN Len(reserved) ELSE GuardCapacity
    /\ \A i \in 1 .. Len(order) : order[i] = reserved[Len(reserved) - Len(order) + i]

AdmissionInv == LimiterInv /\ RemembersLast /\ ReplayOnlyBeyondCapacity

\* Empty tables satisfy the invariant.
LEMMA AdmissionInitial == AdmissionInit => AdmissionInv
<1> SUFFICES ASSUME AdmissionInit PROVE AdmissionInv
  OBVIOUS
<1>1. /\ attempts = <<>> /\ failures = <<>> /\ order = <<>> /\ reserved = <<>> /\ clock = 0
      /\ admitted = [k \in {"attempt", "failure"} \X Peers |-> <<>>]
  BY DEF AdmissionInit
<1>2. ASSUME NEW kind \in {"attempt", "failure"}, NEW maximum \in Nat \ {0}
      PROVE  Limited(<<>>, kind, maximum, admitted, clock)
  <2>1. \A p \in Peers : LogsOf(kind, admitted)[p] = <<>>
    BY <1>1 DEF LogsOf
  <2>2. DOMAIN <<>> = {}
    OBVIOUS
  <2>3. IsFiniteSet({}) /\ Cardinality({}) = 0
    BY FS_EmptySet
  <2>4. MaxPeers \in Nat /\ AttemptsWindow \in Nat
    BY AdmissionAssumption
  <2>5. \A p : EntriesOf(<<>>, p) = <<>>
    BY <2>2 DEF EntriesOf
  <2>6. Tracks(<<>>, <<>>, AttemptsWindow, 0) /\ IsLog(<<>>, maximum, AttemptsWindow, 0)
    BY <2>4 DEF Tracks, IsLog
  <2>7. Cardinality(DOMAIN <<>>) <= MaxPeers /\ IsFiniteSet(DOMAIN <<>>)
    BY <2>2, <2>3, <2>4
  <2> QED
    BY <1>1, <2>1, <2>5, <2>6, <2>7, Zenon DEF Limited, TableOK
<1>3. LimiterInv
  <2>1. MaxAttempts \in Nat \ {0} /\ MaxFailures \in Nat \ {0}
    BY AdmissionAssumption
  <2>2. clock \in Nat /\ admitted = [k \in {"attempt", "failure"} \X Peers |-> admitted[k]]
    BY <1>1
  <2> QED
    BY <1>1, <1>2, <2>1, <2>2 DEF LimiterInv
<1>4. RemembersLast
  BY <1>1, AdmissionAssumption DEF RemembersLast
<1>5. ReplayOnlyBeyondCapacity
  BY <1>1 DEF ReplayOnlyBeyondCapacity
<1> QED
  BY <1>3, <1>4, <1>5 DEF AdmissionInv

\* begin and record_failure touch one table and the log of one peer in it.
LEMMA LimiterCall ==
    ASSUME LimiterInv, NEW kind \in {"attempt", "failure"}, NEW peer \in Peers,
           NEW table, NEW maximum \in Nat \ {0},
           Limited(table, kind, maximum, admitted, clock),
           NEW outcome,
           outcome = AttemptOutcome(table, peer, maximum, MaxPeers, AttemptsWindow, clock),
           RecordAdmitted(kind, peer, outcome)
    PROVE  /\ admitted' = [k \in {"attempt", "failure"} \X Peers |-> admitted'[k]]
           /\ Limited(outcome.table, kind, maximum, admitted', clock)
           /\ \A other \in {"attempt", "failure"} :
                other # kind => LogsOf(other, admitted') = LogsOf(other, admitted)
<1>1. admitted = [k \in {"attempt", "failure"} \X Peers |-> admitted[k]]
  BY DEF LimiterInv
<1>2. /\ outcome.admitted => admitted' = [admitted EXCEPT ![<<kind, peer>>] = Append(@, clock)]
      /\ ~outcome.admitted => admitted' = admitted
  BY Zenon DEF RecordAdmitted
<1> DEFINE logs == LogsOf(kind, admitted)
<1>3. LogsOf(kind, admitted') = LogsAfter(logs, peer, outcome, clock)
  <2>1. CASE outcome.admitted
    <3>1. admitted' = [admitted EXCEPT ![<<kind, peer>>] = Append(@, clock)]
      BY <1>2, <2>1
    <3>2. LogsAfter(logs, peer, outcome, clock) = [logs EXCEPT ![peer] = Append(@, clock)]
      BY <2>1, Zenon DEF LogsAfter
    <3> QED
      BY <1>1, <3>1, <3>2 DEF LogsOf
  <2>2. CASE ~outcome.admitted
    BY <1>2, <2>2, Zenon DEF LogsAfter
  <2> QED
    BY <2>1, <2>2
<1>4. logs = [p \in Peers |-> logs[p]]
  BY DEF LogsOf
<1>5. MaxPeers \in Nat /\ AttemptsWindow \in Nat /\ clock \in Nat
  BY AdmissionAssumption DEF LimiterInv
<1> HIDE DEF logs
<1>6. TableOK(outcome.table, LogsAfter(logs, peer, outcome, clock), Peers, maximum, MaxPeers,
              AttemptsWindow, clock)
  <2>1. TableOK(table, logs, Peers, maximum, MaxPeers, AttemptsWindow, clock)
    BY DEF Limited, logs
  <2> QED
    BY <1>4, <1>5, <2>1, OutcomeOK
<1>7. Limited(outcome.table, kind, maximum, admitted', clock)
  BY <1>3, <1>6, Zenon DEF Limited
<1>8. admitted' = [k \in {"attempt", "failure"} \X Peers |-> admitted'[k]]
  <2>1. CASE outcome.admitted
    BY <1>1, <1>2, <2>1
  <2>2. CASE ~outcome.admitted
    BY <1>1, <1>2, <2>2
  <2> QED
    BY <2>1, <2>2
<1>9. \A other \in {"attempt", "failure"} :
        other # kind => LogsOf(other, admitted') = LogsOf(other, admitted)
  <2>1. CASE outcome.admitted
    BY <1>1, <1>2, <2>1 DEF LogsOf
  <2>2. CASE ~outcome.admitted
    BY <1>2, <2>2
  <2> QED
    BY <2>1, <2>2
<1> QED
  BY <1>7, <1>8, <1>9

\* Every step keeps the attempt windows at the end of the history.
LEMMA LimiterStep ==
    ASSUME AdmissionInv, [AdmissionNext]_admissionVars
    PROVE  LimiterInv'
<1>1. /\ LimiterInv /\ clock \in Nat
      /\ Limited(attempts, "attempt", MaxAttempts, admitted, clock)
      /\ Limited(failures, "failure", MaxFailures, admitted, clock)
  BY DEF AdmissionInv, LimiterInv
<1>2. MaxAttempts \in Nat \ {0} /\ MaxFailures \in Nat \ {0} /\ AttemptsWindow \in Nat
  BY AdmissionAssumption
<1>3. ASSUME NEW peer \in Peers, BeginAttempt(peer)
      PROVE  LimiterInv'
  <2> DEFINE outcome == AttemptOutcome(attempts, peer, MaxAttempts, MaxPeers, AttemptsWindow, clock)
  <2>1. /\ attempts' = outcome.table /\ RecordAdmitted("attempt", peer, outcome)
        /\ failures' = failures /\ clock' = clock
    BY <1>3 DEF BeginAttempt
  <2>2. /\ admitted' = [k \in {"attempt", "failure"} \X Peers |-> admitted'[k]]
        /\ Limited(outcome.table, "attempt", MaxAttempts, admitted', clock)
        /\ LogsOf("failure", admitted') = LogsOf("failure", admitted)
    BY <1>1, <1>2, <2>1, LimiterCall
  <2> HIDE DEF outcome
  <2>3. Limited(failures, "failure", MaxFailures, admitted', clock)
    BY <1>1, <2>2, Zenon DEF Limited
  <2> QED
    BY <1>1, <2>1, <2>2, <2>3, Zenon DEF LimiterInv
<1>4. ASSUME NEW peer \in Peers, RecordFailure(peer)
      PROVE  LimiterInv'
  <2> DEFINE outcome == AttemptOutcome(failures, peer, MaxFailures, MaxPeers, AttemptsWindow, clock)
  <2>1. /\ failures' = outcome.table /\ RecordAdmitted("failure", peer, outcome)
        /\ attempts' = attempts /\ clock' = clock
    BY <1>4 DEF RecordFailure
  <2>2. /\ admitted' = [k \in {"attempt", "failure"} \X Peers |-> admitted'[k]]
        /\ Limited(outcome.table, "failure", MaxFailures, admitted', clock)
        /\ LogsOf("attempt", admitted') = LogsOf("attempt", admitted)
    BY <1>1, <1>2, <2>1, LimiterCall
  <2> HIDE DEF outcome
  <2>3. Limited(attempts, "attempt", MaxAttempts, admitted', clock)
    BY <1>1, <2>2, Zenon DEF Limited
  <2> QED
    BY <1>1, <2>1, <2>2, <2>3, Zenon DEF LimiterInv
<1>5. ASSUME \/ (\E challenge \in Challenges : Reserve(challenge)) \/ UNCHANGED admissionVars
      PROVE  LimiterInv'
  <2>1. attempts' = attempts /\ failures' = failures /\ clock' = clock /\ admitted' = admitted
    BY <1>5 DEF Reserve, admissionVars
  <2> QED
    BY <1>1, <2>1, Zenon DEF LimiterInv
<1>6. ASSUME ClockTick
      PROVE  LimiterInv'
  <2>1. /\ attempts' = attempts /\ failures' = failures /\ admitted' = admitted
        /\ clock' \in Nat /\ clock <= clock'
    BY <1>1, <1>6 DEF ClockTick
  <2>2. ASSUME NEW table, NEW kind, NEW maximum \in Nat,
               Limited(table, kind, maximum, admitted, clock)
        PROVE  Limited(table, kind, maximum, admitted, clock')
    BY <1>1, <1>2, <2>1, <2>2, TracksLater DEF Limited, TableOK
  <2> QED
    BY <1>1, <1>2, <2>1, <2>2 DEF LimiterInv
<1> QED
  BY <1>3, <1>4, <1>5, <1>6 DEF AdmissionNext

\* What the guard keeps of a list of challenges, and for how long a challenge is not
\* accepted again.
LastOf(kept, all) ==
    /\ kept \in Seq(Challenges) /\ all \in Seq(Challenges)
    /\ Len(kept) = IF Len(all) <= GuardCapacity THEN Len(all) ELSE GuardCapacity
    /\ \A i \in 1 .. Len(kept) : kept[i] = all[Len(all) - Len(kept) + i]

FarApart(all) ==
    \A i, j \in 1 .. Len(all) : i < j /\ all[i] = all[j] => j - i > GuardCapacity

\* reserve accepts what it does not remember, that is none of the last it accepted.
LEMMA ReserveOK ==
    ASSUME NEW kept, NEW all, LastOf(kept, all), FarApart(all),
           NEW challenge \in Challenges, ~Contains(kept, challenge)
    PROVE  /\ FarApart(Append(all, challenge))
           /\ LET pushed == Append(kept, challenge)
              IN  LastOf(IF Len(pushed) > GuardCapacity THEN Tail(pushed) ELSE pushed,
                         Append(all, challenge))
<1> DEFINE longer == Append(all, challenge)
           pushed == Append(kept, challenge)
<1>1. PICK n, m \in Nat : n = Len(all) /\ m = Len(kept)
  BY DEF LastOf
<1>2. GuardCapacity \in Nat \ {0}
  BY AdmissionAssumption
<1>3. /\ kept \in Seq(Challenges) /\ all \in Seq(Challenges)
      /\ m = IF n <= GuardCapacity THEN n ELSE GuardCapacity
      /\ \A i \in 1 .. m : kept[i] = all[n - m + i]
  BY <1>1 DEF LastOf
<1>4. /\ longer \in Seq(Challenges) /\ Len(longer) = n + 1 /\ longer[n + 1] = challenge
      /\ \A i \in 1 .. n : longer[i] = all[i]
  BY <1>1, <1>3
<1>5. /\ pushed \in Seq(Challenges) /\ Len(pushed) = m + 1 /\ pushed[m + 1] = challenge
      /\ \A i \in 1 .. m : pushed[i] = kept[i]
  <2>1. kept \in Seq(Challenges) /\ m = Len(kept)
    BY <1>1, <1>3
  <2> QED
    BY <2>1
<1> HIDE DEF longer, pushed
<1>6. \A i \in 1 .. m : kept[i] # challenge
  BY <1>1 DEF Contains
<1>7. FarApart(longer)
  <2> SUFFICES ASSUME NEW i \in 1 .. (n + 1), NEW j \in 1 .. (n + 1), i < j, longer[i] = longer[j]
               PROVE  j - i > GuardCapacity
    BY <1>4 DEF FarApart
  <2>1. i \in 1 .. n
    OBVIOUS
  <2>2. CASE j = n + 1
    <3>1. all[i] = challenge
      BY <1>4, <2>1, <2>2
    <3>2. ~(i > n - m)
      <4> SUFFICES ASSUME i > n - m PROVE FALSE
        OBVIOUS
      <4>1. i - (n - m) \in 1 .. m /\ n - m + (i - (n - m)) = i
        BY <1>2, <1>3, <2>1
      <4> QED
        BY <1>3, <1>6, <3>1, <4>1
    <3> QED
      BY <1>2, <1>3, <2>1, <2>2, <3>2
  <2>3. CASE j # n + 1
    <3>1. j \in 1 .. n
      BY <2>3
    <3>2. all[i] = all[j]
      BY <1>4, <2>1, <3>1
    <3> QED
      BY <1>1, <2>1, <3>1, <3>2 DEF FarApart
  <2> QED
    BY <2>2, <2>3
<1>8. \A i \in 1 .. (m + 1) : pushed[i] = longer[(n + 1) - (m + 1) + i]
  <2> TAKE i \in 1 .. (m + 1)
  <2>1. CASE i = m + 1
    <3>1. (n + 1) - (m + 1) + i = n + 1
      BY <2>1
    <3> QED
      BY <1>4, <1>5, <2>1, <3>1
  <2>2. CASE i # m + 1
    <3>1. i \in 1 .. m /\ (n + 1) - (m + 1) + i = n - m + i /\ n - m + i \in 1 .. n
      BY <1>2, <1>3, <2>2, SMTT(60)
    <3> QED
      BY <1>3, <1>4, <1>5, <3>1
  <2> QED
    BY <2>1, <2>2
<1>9. CASE Len(pushed) > GuardCapacity
  <2>1. m = GuardCapacity /\ n >= GuardCapacity
    BY <1>2, <1>3, <1>5, <1>9
  <2> DEFINE rest == Tail(pushed)
  <2>2. /\ rest \in Seq(Challenges) /\ Len(rest) = m
        /\ \A i \in 1 .. m : rest[i] = pushed[i + 1]
    BY <1>5
  <2> HIDE DEF rest
  <2>3. \A i \in 1 .. m : rest[i] = longer[(n + 1) - m + i]
    <3> TAKE i \in 1 .. m
    <3>1. i + 1 \in 1 .. (m + 1) /\ (n + 1) - (m + 1) + (i + 1) = (n + 1) - m + i
      OBVIOUS
    <3> QED
      BY <1>8, <2>2, <3>1
  <2>4. m = IF n + 1 <= GuardCapacity THEN n + 1 ELSE GuardCapacity
    BY <1>2, <2>1
  <2>5. LastOf(rest, longer)
    BY <1>4, <2>2, <2>3, <2>4, Zenon DEF LastOf
  <2> QED
    BY <1>7, <1>9, <2>5 DEF rest, longer, pushed
<1>10. CASE ~(Len(pushed) > GuardCapacity)
  <2>1. m + 1 = IF n + 1 <= GuardCapacity THEN n + 1 ELSE GuardCapacity
    BY <1>2, <1>3, <1>5, <1>10
  <2>2. LastOf(pushed, longer)
    BY <1>4, <1>5, <1>8, <2>1, Zenon DEF LastOf
  <2> QED
    BY <1>7, <1>10, <2>2 DEF longer, pushed
<1> QED
  BY <1>9, <1>10

\* Every step leaves the replay guard with the last challenges accepted.
LEMMA GuardStep ==
    ASSUME AdmissionInv, [AdmissionNext]_admissionVars
    PROVE  RemembersLast' /\ ReplayOnlyBeyondCapacity'
<1>1. LastOf(order, reserved) /\ reserved \in Seq(Challenges)
  BY DEF AdmissionInv, RemembersLast, LastOf
<1>2. FarApart(reserved)
  BY <1>1 DEF AdmissionInv, ReplayOnlyBeyondCapacity, FarApart
<1>3. SUFFICES LastOf(order', reserved') /\ FarApart(reserved')
  <2>1. LastOf(order', reserved') => RemembersLast'
    BY Zenon DEF LastOf, RemembersLast
  <2>2. LastOf(order', reserved') /\ FarApart(reserved') => ReplayOnlyBeyondCapacity'
    BY DEF LastOf, FarApart, ReplayOnlyBeyondCapacity
  <2> QED
    BY <2>1, <2>2
<1>4. ASSUME NEW challenge \in Challenges, Reserve(challenge)
      PROVE  LastOf(order', reserved') /\ FarApart(reserved')
  <2>1. CASE Contains(order, challenge)
    <3>1. order' = order /\ reserved' = reserved
      BY <1>4, <2>1 DEF Reserve
    <3> QED
      BY <1>1, <1>2, <3>1, Zenon
  <2>2. CASE ~Contains(order, challenge)
    <3>1. order' = Remembered(challenge) /\ reserved' = Append(reserved, challenge)
      BY <1>4, <2>2 DEF Reserve
    <3>2. LastOf(Remembered(challenge), Append(reserved, challenge))
          /\ FarApart(Append(reserved, challenge))
      BY <1>1, <1>2, <2>2, ReserveOK DEF Remembered
    <3> QED
      BY <3>1, <3>2, Zenon
  <2> QED
    BY <2>1, <2>2
<1>5. ASSUME \/ (\E peer \in Peers : BeginAttempt(peer) \/ RecordFailure(peer)) \/ ClockTick
             \/ UNCHANGED admissionVars
      PROVE  LastOf(order', reserved') /\ FarApart(reserved')
  <2>1. order' = order /\ reserved' = reserved
    BY <1>5 DEF BeginAttempt, RecordFailure, ClockTick, admissionVars
  <2> QED
    BY <1>1, <1>2, <2>1, Zenon
<1> QED
  BY <1>4, <1>5 DEF AdmissionNext

\* What the limiter's tables track implies what its caller is promised.
LEMMA LimiterPromise == LimiterInv => AttemptsWithinWindow
<1> SUFFICES ASSUME LimiterInv PROVE AttemptsWithinWindow
  OBVIOUS
<1>1. Cardinality(DOMAIN attempts) <= MaxPeers /\ Cardinality(DOMAIN failures) <= MaxPeers
  BY DEF LimiterInv, Limited, TableOK
<1>2. DOMAIN admitted = {"attempt", "failure"} \X Peers
  BY DEF LimiterInv
<1>3. \A p \in Peers :
        /\ IsLog(admitted[<<"attempt", p>>], MaxAttempts, AttemptsWindow, clock)
        /\ IsLog(admitted[<<"failure", p>>], MaxFailures, AttemptsWindow, clock)
  BY DEF LimiterInv, Limited, TableOK, LogsOf
<1>4. ASSUME NEW k \in DOMAIN admitted,
             NEW max, max = IF k[1] = "attempt" THEN MaxAttempts ELSE MaxFailures,
             NEW i \in DOMAIN admitted[k], i + max \in DOMAIN admitted[k]
      PROVE  admitted[k][i + max] - admitted[k][i] >= AttemptsWindow
  <2>1. PICK p \in Peers : k = <<"attempt", p>> \/ k = <<"failure", p>>
    BY <1>2
  <2>3. IsLog(admitted[k], max, AttemptsWindow, clock)
    <3>1. CASE k = <<"attempt", p>>
      <4>1. max = MaxAttempts
        BY <1>4, <3>1
      <4> QED
        BY <1>3, <3>1, <4>1, Zenon
    <3>2. CASE k = <<"failure", p>>
      <4>1. max = MaxFailures
        BY <1>4, <3>2
      <4> QED
        BY <1>3, <3>2, <4>1, Zenon
    <3> QED
      BY <2>1, <3>1, <3>2
  <2> DEFINE log == admitted[k]
  <2>4. max \in Nat /\ AttemptsWindow \in Nat
    BY <1>4, AdmissionAssumption
  <2> HIDE DEF log
  <2>5. log \in Seq(Nat) /\ i \in 1 .. Len(log) /\ i + max \in 1 .. Len(log)
    BY <1>4, <2>3 DEF IsLog, log
  <2>6. log[i] + AttemptsWindow <= log[i + max]
    BY <2>3, <2>5 DEF IsLog, log
  <2>7. log[i] \in Nat /\ log[i + max] \in Nat
    BY <2>5
  <2>8. log[i + max] - log[i] >= AttemptsWindow
    BY <2>4, <2>6, <2>7
  <2> QED
    BY <2>8 DEF log
<1> QED
  BY <1>1, <1>4 DEF AttemptsWithinWindow

\* Both bounds of the admission control hold for every number of peers, attempts and
\* challenges and every clock that does not run backwards (admit, reserve).
THEOREM AdmissionStaysBounded == AdmissionSpec => []AdmissionIsBounded
<1>1. AdmissionInit => AdmissionInv
  BY AdmissionInitial
<1>2. AdmissionInv /\ [AdmissionNext]_admissionVars => AdmissionInv'
  BY LimiterStep, GuardStep DEF AdmissionInv
<1>3. AdmissionInv => AdmissionIsBounded
  BY LimiterPromise DEF AdmissionInv, AdmissionIsBounded
<1> QED
  BY <1>1, <1>2, <1>3, PTL DEF AdmissionSpec

-----------------------------------------------------------------------------
(* The trust file, for every set of devices, every limit and every number of operations, *)
(* failures and crashes.  What a caller sees of an idle store depends on where persist   *)
(* was when it failed, so the invariant says what the two files hold at each step.       *)

Types ==
    /\ platform \in {"unix", "windows"}
    /\ records \in Stores \cup {Absent} /\ file \in Stores \cup {Absent}
    /\ persisting \in Operations \cup {Absent}
    /\ revoked \subseteq Devices

\* What the operation inside persist may rely on at each step.
Progress ==
    persisting # Absent =>
        /\ persisting.at \in {"remove", "rename"} => temporary = persisting.next
        /\ persisting.at = "remove" => platform = "windows"
        /\ persisting.at = "return" => file = persisting.next
        /\ \A device \in revoked \cup persisting.revokes : ~Authorized(persisting.next, device)

\* Until the rename, the file is the one the records in memory were read from or written to.
NotYetReplaced ==
    records # Absent /\ (persisting = Absent \/ persisting.at # "return") =>
        file = records \/ (platform = "windows" /\ file = Absent)

NeverLost == platform = "unix" /\ acknowledged # Absent => file # Absent

TrustInv == Types /\ Progress /\ NotYetReplaced /\ NeverLost /\ RevocationSticks

-----------------------------------------------------------------------------

\* The start of an operation (replace): what it must know of the records it is about to write.
LEMMA ReplaceKeeps ==
    ASSUME TrustInv, persisting = Absent,
           NEW store \in Stores, NEW gone \in SUBSET Devices, Replace(store, gone),
           revoked' \subseteq revoked,
           \A device \in revoked' \cup gone : ~Authorized(store, device)
    PROVE  TrustInv'
<1> DEFINE op == [next |-> store, at |-> "open", revokes |-> gone]
<1>1. persisting' = op /\ op \in Operations /\ op # Absent
  BY AbsentAssumption DEF Replace, Operations
<1>2. op.next = store /\ op.at = "open" /\ op.revokes = gone
  OBVIOUS
<1>3. UNCHANGED <<platform, records, file, temporary, acknowledged>>
  BY DEF Replace
<1> HIDE DEF op
<1>4. Types'
  BY <1>1, <1>3 DEF TrustInv, Types
<1>5. Progress'
  BY <1>1, <1>2 DEF Progress, Authorized
<1>6. NotYetReplaced' /\ NeverLost'
  BY <1>1, <1>3 DEF TrustInv, NotYetReplaced, NeverLost
<1>7. RevocationSticks'
  BY <1>3 DEF TrustInv, RevocationSticks, Authorized
<1> QED BY <1>4, <1>5, <1>6, <1>7 DEF TrustInv

\* The operations of the store: open, upsert, remove, revoke and rotate.
LEMMA OperationsKeep ==
    ASSUME TrustInv,
           \/ OpenStore
           \/ \E device \in Devices :
                \/ Upsert(device) \/ RemoveRecord(device) \/ Revoke(device)
                \/ \E other \in Devices : Rotate(device, other)
    PROVE  TrustInv'
<1>1. CASE OpenStore
  <2>1. CASE file # Absent
    <3>1. /\ records' = file /\ acknowledged' = file
          /\ UNCHANGED <<platform, file, temporary, persisting, revoked>> /\ persisting = Absent
      BY <1>1, <2>1 DEF OpenStore
    <3>2. Types' /\ Progress'
      BY <3>1 DEF TrustInv, Types, Progress
    <3>3. NotYetReplaced' /\ NeverLost'
      BY <3>1, <2>1 DEF TrustInv, NotYetReplaced, NeverLost
    <3>4. RevocationSticks'
      BY <3>1, <2>1 DEF TrustInv, RevocationSticks, Authorized
    <3> QED BY <3>2, <3>3, <3>4 DEF TrustInv
  <2>2. CASE file = Absent
    <3>1. persisting = Absent /\ Replace(NoRecords, {}) /\ revoked' = revoked
      BY <1>1, <2>2 DEF OpenStore
    <3>2. NoRecords \in Stores /\ \A device \in revoked : ~Authorized(NoRecords, device)
      BY AbsentAssumption DEF TrustInv, Types, NoRecords, Stores, Records, Authorized
    <3> QED BY <3>1, <3>2, ReplaceKeeps
  <2> QED BY <2>1, <2>2
<1>2. ASSUME NEW device \in Devices,
             Upsert(device) \/ RemoveRecord(device) \/ Revoke(device)
               \/ \E other \in Devices : Rotate(device, other)
      PROVE  TrustInv'
  <2>1. persisting = Absent /\ records \in Stores /\ revoked \subseteq Devices
    BY <1>2 DEF Upsert, RemoveRecord, Revoke, Rotate, StoreIdle, TrustInv, Types
  <2>2. \A d \in revoked : records[d] # "active"
    BY <1>2 DEF Upsert, RemoveRecord, Revoke, Rotate, StoreIdle, TrustInv, RevocationSticks,
                Authorized
  <2>3. CASE Upsert(device)
    <3> DEFINE store == [records EXCEPT ![device] = "active"]
    <3>1. store \in Stores /\ \A d \in revoked \ {device} : ~Authorized(store, d)
      BY <2>1, <2>2 DEF Stores, Records, Authorized
    <3>2. Replace(store, {}) /\ revoked' = revoked \ {device}
      BY <2>3 DEF Upsert
    <3> HIDE DEF store
    <3> QED BY <2>1, <3>1, <3>2, ReplaceKeeps
  <2>4. CASE RemoveRecord(device)
    <3> DEFINE store == [records EXCEPT ![device] = Absent]
    <3>1. store \in Stores /\ \A d \in revoked : ~Authorized(store, d)
      BY <2>1, <2>2, AbsentAssumption DEF Stores, Records, Authorized
    <3>2. Replace(store, {}) /\ revoked' = revoked
      BY <2>4 DEF RemoveRecord
    <3> HIDE DEF store
    <3> QED BY <2>1, <3>1, <3>2, ReplaceKeeps
  <2>5. CASE Revoke(device)
    <3> DEFINE store == [records EXCEPT ![device] = "revoked"]
    <3>1. store \in Stores /\ \A d \in revoked \cup {device} : ~Authorized(store, d)
      BY <2>1, <2>2 DEF Stores, Records, Authorized
    <3>2. Replace(store, {device}) /\ revoked' = revoked
      BY <2>5 DEF Revoke
    <3> HIDE DEF store
    <3> QED BY <2>1, <3>1, <3>2, ReplaceKeeps
  <2>6. ASSUME NEW other \in Devices, Rotate(device, other) PROVE TrustInv'
    <3> DEFINE store == [records EXCEPT ![device] = "rotated", ![other] = "active"]
    <3>1. store \in Stores /\ device # other
      BY <2>1, <2>6 DEF Stores, Records, Rotate
    <3>2. \A d \in (revoked \ {other}) \cup {device} : ~Authorized(store, d)
      BY <2>1, <2>2, <3>1 DEF Stores, Records, Authorized
    <3>3. Replace(store, {device}) /\ revoked' = revoked \ {other}
      BY <2>6 DEF Rotate
    <3> HIDE DEF store
    <3> QED BY <2>1, <3>1, <3>2, <3>3, ReplaceKeeps
  <2> QED BY <1>2, <2>3, <2>4, <2>5, <2>6
<1> QED BY <1>1, <1>2

\* A step of persist that goes on to `step`, with what it made of the two files.
LEMMA PersistStepKeeps ==
    ASSUME TrustInv, persisting # Absent, persisting.at # "return",
           NEW step \in {"write", "remove", "rename", "return"},
           persisting' = [persisting EXCEPT !.at = step],
           UNCHANGED <<platform, records, acknowledged, revoked>>,
           file' \in {file, persisting.next, Absent},
           step \in {"remove", "rename"} => temporary' = persisting.next,
           step = "remove" => platform = "windows",
           step = "return" => file' = persisting.next,
           step # "return" => file' = file \/ (file' = Absent /\ platform = "windows")
    PROVE  TrustInv'
<1>1. persisting \in Operations /\ persisting.next \in Stores
  BY DEF TrustInv, Types, Operations
<1>2. /\ persisting' \in Operations /\ persisting' # Absent /\ persisting'.at = step
      /\ persisting'.next = persisting.next /\ persisting'.revokes = persisting.revokes
  BY <1>1, AbsentAssumption DEF Operations
<1>3. Types'
  BY <1>1, <1>2 DEF TrustInv, Types
<1>4. Progress'
  BY <1>2 DEF TrustInv, Progress, Authorized
<1>5. NotYetReplaced' /\ NeverLost'
  BY <1>1, <1>2, AbsentAssumption DEF TrustInv, NotYetReplaced, NeverLost
<1>6. RevocationSticks'
  BY <1>1 DEF TrustInv, RevocationSticks, Progress, Authorized
<1> QED BY <1>3, <1>4, <1>5, <1>6 DEF TrustInv

\* The steps of persist, its return, an I/O error in it, and a crash of the process.
LEMMA PersistKeeps ==
    ASSUME TrustInv,
           \/ OpenTemporary \/ WriteTemporary \/ RemoveFile \/ RenameTemporary \/ ReturnOk
           \/ PersistFails \/ CrashProcess
    PROVE  TrustInv'
<1>1. CASE OpenTemporary
  <2>1. /\ persisting # Absent /\ persisting.at = "open"
        /\ persisting' = [persisting EXCEPT !.at = "write"]
        /\ UNCHANGED <<platform, records, file, acknowledged, revoked>>
    BY <1>1 DEF OpenTemporary, AtStep
  <2> QED BY <2>1, PersistStepKeeps
<1>2. CASE WriteTemporary
  <2>1. /\ persisting # Absent /\ persisting.at = "write"
        /\ persisting' = [persisting EXCEPT !.at = AfterWrite]
        /\ UNCHANGED <<platform, records, file, acknowledged, revoked>>
        /\ temporary' = persisting.next
    BY <1>2 DEF WriteTemporary, AtStep
  <2>2. AfterWrite \in {"remove", "rename"} /\ (AfterWrite = "remove" => platform = "windows")
    BY DEF AfterWrite
  <2> QED BY <2>1, <2>2, PersistStepKeeps
<1>3. CASE RemoveFile
  <2>1. /\ persisting # Absent /\ persisting.at = "remove"
        /\ persisting' = [persisting EXCEPT !.at = "rename"]
        /\ UNCHANGED <<platform, records, temporary, acknowledged, revoked>> /\ file' = Absent
    BY <1>3 DEF RemoveFile, AtStep
  <2>2. temporary = persisting.next /\ platform = "windows"
    BY <2>1 DEF TrustInv, Progress
  <2> QED BY <2>1, <2>2, PersistStepKeeps
<1>4. CASE RenameTemporary
  <2>1. /\ persisting # Absent /\ persisting.at = "rename"
        /\ persisting' = [persisting EXCEPT !.at = "return"]
        /\ UNCHANGED <<platform, records, acknowledged, revoked>> /\ file' = temporary
    BY <1>4 DEF RenameTemporary, AtStep
  <2>2. temporary = persisting.next
    BY <2>1 DEF TrustInv, Progress
  <2> QED BY <2>1, <2>2, PersistStepKeeps
<1>5. CASE ReturnOk
  <2>1. /\ persisting # Absent /\ file = persisting.next /\ records' = file /\ persisting' = Absent
        /\ revoked' = revoked \cup persisting.revokes /\ UNCHANGED <<platform, file>>
        /\ \A device \in revoked' : ~Authorized(file, device)
    BY <1>5 DEF ReturnOk, AtStep, TrustInv, Progress
  <2>2. /\ persisting \in Operations /\ file \in Stores /\ file # Absent
        /\ persisting.revokes \subseteq Devices
    BY <2>1, AbsentAssumption DEF TrustInv, Types, Operations
  <2>3. Types' /\ Progress'
    BY <2>1, <2>2 DEF TrustInv, Types, Progress
  <2>4. NotYetReplaced' /\ NeverLost'
    BY <2>1, <2>2 DEF NotYetReplaced, NeverLost
  <2>5. RevocationSticks'
    BY <2>1 DEF RevocationSticks, Authorized
  <2> QED BY <2>3, <2>4, <2>5 DEF TrustInv
<1>6. CASE PersistFails
  <2>1. /\ persisting # Absent /\ persisting.at # "return" /\ persisting' = Absent
        /\ UNCHANGED <<platform, records, file, temporary, acknowledged, revoked>>
    BY <1>6 DEF PersistFails, KeepOnError
  <2>2. Types' /\ Progress'
    BY <2>1 DEF TrustInv, Types, Progress
  <2>3. NotYetReplaced' /\ NeverLost'
    BY <2>1 DEF TrustInv, NotYetReplaced, NeverLost
  <2>4. RevocationSticks'
    BY <2>1 DEF TrustInv, RevocationSticks, Authorized
  <2> QED BY <2>2, <2>3, <2>4 DEF TrustInv
<1>7. CASE CrashProcess
  <2>1. /\ records' = Absent /\ persisting' = Absent
        /\ UNCHANGED <<platform, file, temporary, acknowledged, revoked>>
    BY <1>7 DEF CrashProcess
  <2>2. Types' /\ Progress'
    BY <2>1 DEF TrustInv, Types, Progress
  <2>3. NotYetReplaced' /\ NeverLost'
    BY <2>1 DEF TrustInv, NotYetReplaced, NeverLost
  <2>4. RevocationSticks'
    BY <2>1 DEF TrustInv, RevocationSticks, Authorized
  <2> QED BY <2>2, <2>3, <2>4 DEF TrustInv
<1> QED BY <1>1, <1>2, <1>3, <1>4, <1>5, <1>6, <1>7

\* FileTrustStore: whichever step of persist fails and wherever the process crashes, an open,
\* idle store agrees with its file, a unix build keeps the file it confirmed, and a peer whose
\* revoke or rotate returned Ok is not authorised again before it is paired again.
THEOREM TrustStoreIsDurable == TrustSpec => []TrustIsDurable
<1>1. TrustInit => TrustInv
  BY DEF TrustInit, TrustInv, Types, Progress, NotYetReplaced, NeverLost, RevocationSticks
<1>2. TrustInv /\ [TrustNext]_trustVars => TrustInv'
  <2> SUFFICES ASSUME TrustInv, [TrustNext]_trustVars PROVE TrustInv'
    OBVIOUS
  <2>1. CASE TrustNext
    BY <2>1, OperationsKeep, PersistKeeps DEF TrustNext
  <2>2. CASE UNCHANGED trustVars
    <3>1. UNCHANGED <<platform, records, file, temporary, persisting, acknowledged, revoked>>
      BY <2>2 DEF trustVars
    <3>2. Types' /\ Progress'
      BY <3>1 DEF TrustInv, Types, Progress, Authorized
    <3>3. NotYetReplaced' /\ NeverLost' /\ RevocationSticks'
      BY <3>1 DEF TrustInv, NotYetReplaced, NeverLost, RevocationSticks, Authorized
    <3> QED BY <3>2, <3>3 DEF TrustInv
  <2> QED BY <2>1, <2>2
<1>3. TrustInv => TrustIsDurable
  BY DEF TrustInv, NotYetReplaced, NeverLost, TrustIsDurable, StoreMatchesFile, StoreIdle
<1> QED BY <1>1, <1>2, <1>3, PTL DEF TrustSpec

-----------------------------------------------------------------------------
(* Discovery *)

Found == [id : Ids, expires : Nat]

\* What a poll of ManualDiscovery relies on, beside what its consumer does: one pending
\* event for each candidate.
DiscoveryInv ==
    /\ moment \in Nat
    /\ DOMAIN active \subseteq Ids /\ IsFiniteSet(DOMAIN active)
    /\ pending \in Seq(Found)
    /\ \A i, j \in 1 .. Len(pending) : pending[i].id = pending[j].id => i = j
    /\ CandidatesAreTracked

\* retain: what is left are events of other candidates, each from a place of its own.
LEMMA ForgetPendingFacts ==
    ASSUME NEW events \in Seq(Found), NEW ids,
           \A i, j \in 1 .. Len(events) : events[i].id = events[j].id => i = j
    PROVE  LET kept == ForgetPending(events, ids)
           IN  /\ kept \in Seq(Found)
               /\ \A i \in 1 .. Len(kept) : \E j \in 1 .. Len(events) :
                    kept[i] = events[j] /\ kept[i].id \notin ids
               /\ \A i, j \in 1 .. Len(kept) : kept[i].id = kept[j].id => i = j
<1>0. PICK n \in Nat : n = Len(events)
  OBVIOUS
<1>1. PICK K : K = {i \in 0 .. n : events[i].id \notin ids}
  OBVIOUS
<1> DEFINE IsIt(f) == f = [i \in 0 .. Len(events) |->
                             IF i = 0 THEN <<>>
                             ELSE IF events[i].id \notin ids THEN Append(f[i - 1], events[i])
                             ELSE f[i - 1]]
<1>2. \A f : IsIt(f) => IsFilter(f, events, K, n)
  BY <1>0, <1>1 DEF IsFilter
<1>3. \E f : IsIt(f)
  <2>1. PICK f : IsFilter(f, events, K, n)
    BY FilterExists
  <2>2. IsIt(f)
    BY <1>0, <1>1, <2>1 DEF IsFilter
  <2> QED
    BY <2>2
<1>4. PICK f : IsIt(f) /\ ForgetPending(events, ids) = f[n]
  <2> DEFINE c == CHOOSE f : IsIt(f)
  <2>1. IsIt(c)
    BY <1>3
  <2>2. ForgetPending(events, ids) = c[Len(events)]
    BY DEF ForgetPending
  <2> HIDE DEF c, IsIt
  <2> QED
    BY <1>0, <2>1, <2>2
<1> HIDE DEF IsIt
<1>5. PICK kept \in Seq(Found) : kept = ForgetPending(events, ids)
                                 /\ PickedFrom(kept, events, K, n)
  BY <1>0, <1>2, <1>4, FilterPicks
<1>6. PICK pos \in [1 .. Len(kept) -> K \cap 1 .. n] :
         /\ \A i, j \in 1 .. Len(kept) : pos[i] = pos[j] => i = j
         /\ \A i \in 1 .. Len(kept) : kept[i] = events[pos[i]]
  BY <1>5 DEF PickedFrom
<1>7. \A i \in 1 .. Len(kept) : pos[i] \in 1 .. Len(events) /\ events[pos[i]].id \notin ids
  BY <1>0, <1>1, <1>6
<1>8. \A i, j \in 1 .. Len(kept) : kept[i].id = kept[j].id => i = j
  BY <1>6, <1>7
<1> QED
  BY <1>5, <1>6, <1>7, <1>8

\* The candidates one poll takes are among the expired ones, and no more than it may return.
LEMMA SmallestFacts ==
    ASSUME NEW ids, ids \subseteq Nat, IsFiniteSet(ids), NEW n \in Nat
    PROVE  /\ Smallest(ids, n) \subseteq ids
           /\ IsFiniteSet(Smallest(ids, n)) /\ Cardinality(Smallest(ids, n)) \in 0 .. n
<1>1. PICK S : S = Smallest(ids, n)
  OBVIOUS
<1>2. S \subseteq ids /\ S \subseteq Nat
  BY <1>1 DEF Smallest
<1>3. IsFiniteSet(S) /\ Cardinality(S) \in Nat
  BY <1>2, FS_Subset, FS_CardinalityType
<1>4. CASE S = {}
  BY <1>1, <1>2, <1>3, <1>4, FS_EmptySet
<1>5. CASE S # {}
  <2> DEFINE Above(x) == {y \in S : x < y}
             T == {Cardinality(Above(x)) : x \in S}
  <2>1. \A x \in S : IsFiniteSet(Above(x)) /\ Cardinality(Above(x)) \in Nat
    BY <1>3, FS_Subset, FS_CardinalityType
  <2>2. T \in SUBSET Nat /\ T # {}
    BY <1>5, <2>1
  <2>3. PICK c \in T : \A d \in T : c <= d
    <3> HIDE DEF T
    <3> QED
      BY <2>2, LeastElement
  <2>4. PICK x \in S : c = Cardinality(Above(x))
    BY <2>3
  <2>5. \A y \in S : Cardinality(Above(x)) <= Cardinality(Above(y))
    BY <2>3, <2>4
  <2>6. \A y \in S : y <= x
    <3> SUFFICES ASSUME NEW y \in S, x < y PROVE FALSE
      BY <1>2
    <3>0. x \in Nat /\ y \in Nat /\ \A z \in S : z \in Nat
      BY <1>2
    <3>1. y \in Above(x) /\ y \notin Above(y) /\ Above(y) \subseteq Above(x)
      <4>1. \A z \in S : y < z => x < z
        BY <3>0
      <4>2. ~ (y < y)
        BY <3>0
      <4> QED
        BY <4>1, <4>2
    <3>2. Above(y) \subseteq Above(x) \ {y}
      BY <3>1
    <3> HIDE DEF Above
    <3>3. /\ IsFiniteSet(Above(x) \ {y})
          /\ Cardinality(Above(x) \ {y}) = Cardinality(Above(x)) - 1
      BY <2>1, <3>1, FS_RemoveElement
    <3>4. Cardinality(Above(y)) <= Cardinality(Above(x) \ {y})
      BY <3>2, <3>3, FS_Subset
    <3> QED
      BY <2>1, <2>5, <3>3, <3>4
  <2>7. PICK B : B = {i \in ids : i < x}
    OBVIOUS
  <2>8. IsFiniteSet(B) /\ Cardinality(B) \in Nat /\ Cardinality(B) < n
    <3>1. IsFiniteSet(B) /\ Cardinality(B) \in Nat
      BY <2>7, FS_Subset, FS_CardinalityType
    <3>2. Cardinality(B) < n
      BY <1>1, <2>4, <2>7 DEF Smallest
    <3> QED
      BY <3>1, <3>2
  <2>9. S \ {x} \subseteq B
    BY <1>2, <2>6, <2>7
  <2>10. Cardinality(S \ {x}) = Cardinality(S) - 1 /\ Cardinality(S \ {x}) <= Cardinality(B)
    BY <1>3, <2>8, <2>9, FS_RemoveElement, FS_Subset
  <2> QED
    BY <1>1, <1>2, <1>3, <2>8, <2>10
<1> QED
  BY <1>4, <1>5

\* A provider without candidates satisfies the invariant.
LEMMA DiscoveryInitial == DiscoveryInit => DiscoveryInv
<1> SUFFICES ASSUME DiscoveryInit PROVE DiscoveryInv
  OBVIOUS
<1>1. /\ moment = 0 /\ active = <<>> /\ pending = <<>> /\ view = {}
      /\ resolved = {} /\ mdnsView = {}
  BY DEF DiscoveryInit
<1>2. DOMAIN active = {} /\ pending \in Seq(Found) /\ Len(pending) = 0 /\ DOMAIN pending = {}
  BY <1>1
<1>3. IsFiniteSet(DOMAIN active) /\ Cardinality(DOMAIN active) = 0
  BY <1>2, FS_EmptySet
<1> QED
  BY <1>1, <1>2, <1>3, DiscoveryAssumption DEF DiscoveryInv, CandidatesAreTracked

\* add_address keeps the invariant: a new candidate, a refreshed one, or a refusal.
LEMMA AddAddressStep ==
    ASSUME DiscoveryInv, NEW source \in Sources, NEW id \in Ids, NEW ttl \in Ttls,
           AddAddress(source, id, ttl)
    PROVE  DiscoveryInv'
<1>1. /\ moment' = moment /\ view' = view /\ resolved' = resolved /\ mdnsView' = mdnsView
      /\ moment \in Nat /\ ttl \in Nat /\ id \in Ids
  BY DiscoveryAssumption DEF AddAddress, mdnsVars, DiscoveryInv
<1>2. CASE UNCHANGED <<active, pending>>
  BY <1>1, <1>2 DEF DiscoveryInv, CandidatesAreTracked
<1>3. CASE /\ active' = Update(active, id, moment + ttl)
           /\ pending' = Append(ForgetPending(pending, {id}), [id |-> id, expires |-> moment + ttl])
  <2>1. PICK kept \in Seq(Found) :
          /\ kept = ForgetPending(pending, {id})
          /\ \A i \in 1 .. Len(kept) : \E j \in 1 .. Len(pending) :
               kept[i] = pending[j] /\ kept[i].id # id
          /\ \A i, j \in 1 .. Len(kept) : kept[i].id = kept[j].id => i = j
    BY ForgetPendingFacts DEF DiscoveryInv
  <2>2. PICK e \in Found : /\ e = [id |-> id, expires |-> moment + ttl]
                           /\ e.id = id /\ e.expires = moment + ttl
    <3> DEFINE v == [id |-> id, expires |-> moment + ttl]
    <3>1. moment + ttl \in Nat
      BY <1>1
    <3>2. v \in Found /\ v.id = id /\ v.expires = moment + ttl
      BY <3>1 DEF Found
    <3> QED
      BY <3>2, Zenon
  <2>3. /\ pending' \in Seq(Found) /\ Len(pending') = Len(kept) + 1
        /\ \A i \in 1 .. Len(pending') :
             \/ i \in 1 .. Len(kept) /\ pending'[i] = kept[i]
             \/ i = Len(kept) + 1 /\ pending'[i] = e
    <3>1. pending' = Append(kept, e)
      BY <1>3, <2>1, <2>2
    <3> QED
      BY <3>1
  <2>4. /\ DOMAIN active' = DOMAIN active \cup {id}
        /\ active'[id] = moment + ttl
        /\ \A x \in DOMAIN active \ {id} : active'[x] = active[x]
    BY <1>3 DEF Update
  <2>5. IsFiniteSet(DOMAIN active') /\ Cardinality(DOMAIN active') <= MaxCandidates
    <3>1. /\ IsFiniteSet(DOMAIN active) /\ Cardinality(DOMAIN active) \in Nat
          /\ Cardinality(DOMAIN active) <= MaxCandidates
      BY FS_CardinalityType DEF DiscoveryInv, CandidatesAreTracked
    <3>2. CASE id \in DOMAIN active
      <4>1. DOMAIN active' = DOMAIN active
        BY <2>4, <3>2
      <4> QED
        BY <3>1, <4>1
    <3>3. CASE id \notin DOMAIN active
      <4>1. Cardinality(DOMAIN active) < MaxCandidates
        BY <3>3 DEF AddAddress
      <4>2. IsFiniteSet(DOMAIN active \cup {id})
            /\ Cardinality(DOMAIN active \cup {id}) = Cardinality(DOMAIN active) + 1
        BY <3>1, <3>3, FS_AddElement
      <4> QED
        BY <2>4, <3>1, <4>1, <4>2, DiscoveryAssumption
    <3> QED
      BY <3>2, <3>3
  <2>6. \A i \in 1 .. Len(kept) :
          kept[i].id # id /\ kept[i].id \in DOMAIN active /\ kept[i].expires = active[kept[i].id]
    <3>1. \A j \in 1 .. Len(pending) :
            pending[j].id \in DOMAIN active /\ pending[j].expires = active[pending[j].id]
      BY DEF DiscoveryInv, CandidatesAreTracked
    <3> TAKE i \in 1 .. Len(kept)
    <3>2. PICK j \in 1 .. Len(pending) : kept[i] = pending[j] /\ kept[i].id # id
      BY <2>1
    <3> QED
      BY <3>1, <3>2
  <2>7. \A i, j \in 1 .. Len(pending') : pending'[i].id = pending'[j].id => i = j
    <3> TAKE i, j \in 1 .. Len(pending')
    <3> HAVE pending'[i].id = pending'[j].id
    <3>1. \/ i \in 1 .. Len(kept) /\ pending'[i] = kept[i] /\ kept[i].id # id
          \/ i = Len(kept) + 1 /\ pending'[i].id = id
      BY <2>2, <2>3, <2>6
    <3>2. \/ j \in 1 .. Len(kept) /\ pending'[j] = kept[j] /\ kept[j].id # id
          \/ j = Len(kept) + 1 /\ pending'[j].id = id
      BY <2>2, <2>3, <2>6
    <3> QED
      BY <2>1, <3>1, <3>2
  <2>8. \A i \in DOMAIN pending' :
          pending'[i].id \in DOMAIN active' /\ pending'[i].expires = active'[pending'[i].id]
    <3>1. DOMAIN pending' = 1 .. Len(pending')
      BY <2>3
    <3> QED
      BY <2>2, <2>3, <2>4, <2>6, <3>1
  <2> QED
    BY <1>1, <2>3, <2>4, <2>5, <2>7, <2>8 DEF DiscoveryInv, CandidatesAreTracked
<1> QED
  BY <1>2, <1>3 DEF AddAddress

\* poll of the manual provider keeps the invariant: expiries first, then pending events.
LEMMA PollManualStep ==
    ASSUME DiscoveryInv, PollManual
    PROVE  DiscoveryInv'
<1>1. /\ moment' = moment /\ resolved' = resolved /\ mdnsView' = mdnsView /\ moment \in Nat
  BY DEF PollManual, mdnsVars, DiscoveryInv
<1>2. PICK expired : expired = Smallest(ExpiredNow, ResultsPerPoll)
  OBVIOUS
<1>3. expired \subseteq DOMAIN active /\ Cardinality(expired) \in 0 .. ResultsPerPoll
  <2>1. ExpiredNow \subseteq DOMAIN active /\ ExpiredNow \subseteq Nat
    BY DiscoveryAssumption DEF ExpiredNow, DiscoveryInv
  <2>2. IsFiniteSet(ExpiredNow)
    BY <2>1, FS_Subset DEF DiscoveryInv
  <2>3. ResultsPerPoll \in Nat
    BY DiscoveryAssumption
  <2> QED
    BY <1>2, <2>1, <2>2, <2>3, SmallestFacts
<1>4. PICK waiting \in Seq(Found) :
        /\ waiting = ForgetPending(pending, expired)
        /\ \A i \in 1 .. Len(waiting) : \E j \in 1 .. Len(pending) :
             waiting[i] = pending[j] /\ waiting[i].id \notin expired
        /\ \A i, j \in 1 .. Len(waiting) : waiting[i].id = waiting[j].id => i = j
  BY ForgetPendingFacts DEF DiscoveryInv
<1>5. PICK taken \in 0 .. Len(waiting) :
        taken = IF Len(waiting) < ResultsPerPoll - Cardinality(expired)
                THEN Len(waiting) ELSE ResultsPerPoll - Cardinality(expired)
  <2>1. Len(waiting) \in Nat /\ ResultsPerPoll - Cardinality(expired) \in Nat
    BY <1>3, DiscoveryAssumption
  <2> QED
    BY <2>1
<1>6. PICK late : late = {i \in 1 .. taken : waiting[i].expires <= moment}
  OBVIOUS
<1>7. PICK lateIds : lateIds = {waiting[i].id : i \in late}
  OBVIOUS
<1>8. PICK toldIds : toldIds = {waiting[i].id : i \in (1 .. taken) \ late}
  OBVIOUS
<1>9. /\ active' = Drop(active, expired \cup lateIds)
      /\ pending' = SubSeq(waiting, taken + 1, Len(waiting))
      /\ view' = ((view \ expired) \ lateIds) \cup toldIds
  BY <1>2, <1>4, <1>5, <1>6, <1>7, <1>8 DEF PollManual
<1>10. \A i \in 1 .. Len(waiting) :
         /\ waiting[i].id \in DOMAIN active /\ waiting[i].id \notin expired
         /\ waiting[i].expires = active[waiting[i].id]
  <2>1. \A j \in 1 .. Len(pending) :
          pending[j].id \in DOMAIN active /\ pending[j].expires = active[pending[j].id]
    BY DEF DiscoveryInv, CandidatesAreTracked
  <2> QED
    BY <1>4, <2>1
<1>11. \A i \in 1 .. Len(waiting) : i \notin late => waiting[i].id \notin lateIds
  BY <1>4, <1>5, <1>6, <1>7
<1>12. /\ DOMAIN active' = DOMAIN active \ (expired \cup lateIds)
       /\ \A x \in DOMAIN active' : active'[x] = active[x]
  BY <1>9 DEF Drop
<1>13. /\ pending' \in Seq(Found) /\ Len(pending') = Len(waiting) - taken
       /\ \A i \in 1 .. Len(pending') :
            taken + i \in 1 .. Len(waiting) /\ pending'[i] = waiting[taken + i]
  BY <1>5, <1>9
<1>14. \A i \in 1 .. Len(pending') : taken + i \notin late
  BY <1>5, <1>6
<1>15. IsFiniteSet(DOMAIN active') /\ Cardinality(DOMAIN active') <= MaxCandidates
  <2>1. /\ IsFiniteSet(DOMAIN active) /\ Cardinality(DOMAIN active) \in Nat
        /\ Cardinality(DOMAIN active) <= MaxCandidates
    BY FS_CardinalityType DEF DiscoveryInv, CandidatesAreTracked
  <2>2. DOMAIN active' \subseteq DOMAIN active
    BY <1>12
  <2>3. IsFiniteSet(DOMAIN active') /\ Cardinality(DOMAIN active') <= Cardinality(DOMAIN active)
    BY <2>1, <2>2, FS_Subset
  <2>4. Cardinality(DOMAIN active') \in Nat
    BY <2>3, FS_CardinalityType
  <2> QED
    BY <2>1, <2>3, <2>4, DiscoveryAssumption
<1>16. view' \subseteq DOMAIN active'
  <2>1. view \subseteq DOMAIN active
    BY DEF DiscoveryInv, CandidatesAreTracked
  <2>2. \A x \in toldIds : x \in DOMAIN active /\ x \notin expired /\ x \notin lateIds
    BY <1>5, <1>8, <1>10, <1>11
  <2> QED
    BY <1>9, <1>12, <2>1, <2>2
<1>17. \A i \in DOMAIN pending' :
         pending'[i].id \in DOMAIN active' /\ pending'[i].expires = active'[pending'[i].id]
  <2>1. DOMAIN pending' = 1 .. Len(pending')
    BY <1>13
  <2> SUFFICES ASSUME NEW i \in 1 .. Len(pending')
               PROVE  /\ pending'[i].id \in DOMAIN active'
                      /\ pending'[i].expires = active'[pending'[i].id]
    BY <2>1
  <2>2. PICK k \in 1 .. Len(waiting) : pending'[i] = waiting[k] /\ k \notin late
    BY <1>13, <1>14
  <2> QED
    BY <1>10, <1>11, <1>12, <2>2
<1>18. \A i, j \in 1 .. Len(pending') : pending'[i].id = pending'[j].id => i = j
  <2> TAKE i, j \in 1 .. Len(pending')
  <2> HAVE pending'[i].id = pending'[j].id
  <2>1. /\ taken + i \in 1 .. Len(waiting) /\ pending'[i] = waiting[taken + i]
        /\ taken + j \in 1 .. Len(waiting) /\ pending'[j] = waiting[taken + j]
    BY <1>13
  <2>2. taken + i = taken + j
    BY <1>4, <2>1
  <2>3. taken \in Nat /\ i \in Nat /\ j \in Nat
    BY <1>5, <1>13
  <2> QED
    BY <2>2, <2>3
<1> QED
  BY <1>1, <1>12, <1>13, <1>15, <1>16, <1>17, <1>18 DEF DiscoveryInv, CandidatesAreTracked

\* Every step of either provider keeps the invariant.
LEMMA DiscoveryStep == DiscoveryInv /\ [DiscoveryNext]_discoveryVars => DiscoveryInv'
<1> SUFFICES ASSUME DiscoveryInv, [DiscoveryNext]_discoveryVars PROVE DiscoveryInv'
  OBVIOUS
<1>1. ASSUME UNCHANGED <<active, pending, view, resolved, mdnsView>>, moment' \in Nat
      PROVE  DiscoveryInv'
  BY <1>1 DEF DiscoveryInv, CandidatesAreTracked
<1>2. CASE \/ StartManual \/ StartBrowse \/ MomentPasses \/ UNCHANGED discoveryVars
           \/ \E kind \in {"resolved", "removed"}, id \in Ids : DaemonEvent(kind, id)
  <2>0. moment \in Nat
    BY DEF DiscoveryInv
  <2>1. CASE StartManual
    BY <1>1, <2>0, <2>1 DEF StartManual, mdnsVars
  <2>2. CASE StartBrowse
    BY <1>1, <2>0, <2>2 DEF StartBrowse, manualVars
  <2>3. CASE MomentPasses
    BY <1>1, <2>0, <2>3 DEF MomentPasses, manualVars, mdnsVars
  <2>4. CASE UNCHANGED discoveryVars
    BY <1>1, <2>0, <2>4 DEF discoveryVars, manualVars, mdnsVars
  <2>5. ASSUME NEW kind \in {"resolved", "removed"}, NEW id \in Ids, DaemonEvent(kind, id)
        PROVE  DiscoveryInv'
    BY <1>1, <2>0, <2>5 DEF DaemonEvent, manualVars
  <2> QED
    BY <1>2, <2>1, <2>2, <2>3, <2>4, <2>5
<1>3. CASE StopManual
  <2>1. /\ moment' = moment /\ active' = <<>> /\ pending' = <<>> /\ view' = {}
        /\ resolved' = resolved /\ mdnsView' = mdnsView
    BY <1>3 DEF StopManual, mdnsVars
  <2>2. DOMAIN active' = {} /\ pending' \in Seq(Found) /\ Len(pending') = 0 /\ DOMAIN pending' = {}
    BY <2>1
  <2>3. IsFiniteSet(DOMAIN active') /\ Cardinality(DOMAIN active') = 0
    BY <2>2, FS_EmptySet
  <2> QED
    BY <2>1, <2>2, <2>3, DiscoveryAssumption DEF DiscoveryInv, CandidatesAreTracked
<1>4. CASE PollBrowse \/ \E ok \in BOOLEAN : StopBrowse(ok)
  <2>1. UNCHANGED <<active, pending, view, moment>>
    BY <1>4 DEF PollBrowse, StopBrowse, manualVars
  <2>2. mdnsView' = resolved'
    <3>1. mdnsView = resolved
      BY DEF DiscoveryInv, CandidatesAreTracked
    <3> QED
      BY <1>4, <3>1 DEF PollBrowse, StopBrowse
  <2> QED
    BY <2>1, <2>2 DEF DiscoveryInv, CandidatesAreTracked
<1> QED
  BY <1>2, <1>3, <1>4, AddAddressStep, PollManualStep DEF DiscoveryNext

\* For every number of candidates, sources and polls and any order of expiries, additions and
\* stops, the consumer of either provider holds only candidates whose end can still be
\* reported, and what waits to be told is current (ManualDiscovery, MdnsDiscovery).
THEOREM NoCandidateIsForgotten == DiscoverySpec => []CandidatesAreTracked
<1>1. DiscoveryInv => CandidatesAreTracked
  BY DEF DiscoveryInv
<1> QED
  BY <1>1, DiscoveryInitial, DiscoveryStep, PTL DEF DiscoverySpec

=============================================================================
