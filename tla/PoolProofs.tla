----------------------------- MODULE PoolProofs -----------------------------
(***************************************************************************)
(* Machine-checked proofs about PeerSessionPool, for any number of peers,  *)
(* connections and policies: the connection budget is exact, every session *)
(* connection has one owner, and no liveness verdict is kept from the host. *)
(***************************************************************************)
EXTENDS PeerSessionPool, TLAPS, FiniteSetTheorems

-----------------------------------------------------------------------------
(* The inductive invariant. *)

Stages == {"none", "accepting", "dialing", "inbound", "session"}

\* A PeerSessionHandle: its connection and its two controllers.
IsHandle(h) == h = [conn |-> h.conn, hb |-> h.hb, rc |-> h.rc]

\* Sessions and session connections correspond one to one.
Owned ==
    /\ \A p \in Held : sessions[p].conn \in Conns /\ stage[sessions[p].conn] = "session"
    /\ \A c \in Conns : stage[c] = "session" => \E p \in Held : sessions[p].conn = c
    /\ \A p, q \in Held : sessions[p].conn = sessions[q].conn => p = q

SessionsOK ==
    /\ IsFiniteSet(Held)
    /\ Cardinality(Held) <= MaxPeers
    /\ \A p \in Held : IsHandle(sessions[p])
    /\ DOMAIN told = Held
    /\ Owned
    /\ VerdictsAreTold

BudgetOK ==
    /\ stage \in [Conns -> Stages]
    /\ IsFiniteSet(permit)
    /\ PermitsExact

\* The pool is borrowed by at most one dial.
OneDial ==
    /\ dialing # Never <=> \E c \in Conns : stage[c] = "dialing"
    /\ \A c, d \in Conns : stage[c] = "dialing" /\ stage[d] = "dialing" => c = d

PoolInv == BudgetOK /\ SessionsOK /\ OneDial

-----------------------------------------------------------------------------
(* Dropping connections. *)

\* A connection that is dropped gives its permit back, exactly once.
LEMMA DropFacts ==
    ASSUME BudgetOK, NEW dropped, NEW moved, Drop(dropped, moved),
           \A c \in DOMAIN moved : moved[c] \in Stages
    PROVE  /\ stage' \in [Conns -> Stages]
           /\ IsFiniteSet(permit')
           /\ permit' = permit \ dropped
           /\ permits' = Cardinality(permit')
           /\ permits' <= MaxConnections
           /\ \A c \in Conns \ dropped : c \notin DOMAIN moved => stage'[c] = stage[c]
           /\ \A c \in Conns \ dropped : c \in DOMAIN moved => stage'[c] = moved[c]
           /\ \A c \in Conns \cap dropped : stage'[c] = "none"
  <1>1. /\ IsFiniteSet(permit) /\ permits = Cardinality(permit)
        /\ permits <= MaxConnections /\ stage \in [Conns -> Stages]
    BY DEF BudgetOK, PermitsExact
  <1>2. /\ permits' = permits - Cardinality(dropped \cap permit)
        /\ permit' = permit \ dropped
        /\ stage' = [c \in Conns |->
                        IF c \in dropped THEN "none"
                        ELSE IF c \in DOMAIN moved THEN moved[c] ELSE stage[c]]
    BY DEF Drop
  <1>3. /\ IsFiniteSet(permit \ dropped)
        /\ Cardinality(permit \ dropped) = Cardinality(permit) - Cardinality(permit \cap dropped)
    BY <1>1, FS_Difference
  <1>4. permit \cap dropped = dropped \cap permit
    OBVIOUS
  <1>5. Cardinality(permit \cap dropped) \in Nat /\ permits \in Nat
    <2>1. IsFiniteSet(permit \cap dropped)
      BY <1>1, FS_Subset
    <2> QED BY <1>1, <2>1, FS_CardinalityType
  <1>6. permits' = Cardinality(permit') /\ permits' <= MaxConnections
    BY <1>1, <1>2, <1>3, <1>4, <1>5, PoolAssumption
  <1>7. stage' \in [Conns -> Stages]
    BY <1>1, <1>2 DEF Stages
  <1> QED BY <1>2, <1>3, <1>6, <1>7

\* Dropping a connection that is not a session's.
LEMMA DropOne ==
    ASSUME BudgetOK, SessionsOK, NEW c \in Conns, stage[c] # "session",
           Drop({c}, Nothing), UNCHANGED <<sessions, told>>
    PROVE  /\ BudgetOK' /\ SessionsOK'
           /\ stage'[c] = "none"
           /\ \A d \in Conns \ {c} : stage'[d] = stage[d]
  <1>1. /\ stage' \in [Conns -> Stages]
        /\ IsFiniteSet(permit')
        /\ permit' = permit \ {c}
        /\ permits' = Cardinality(permit')
        /\ permits' <= MaxConnections
        /\ stage'[c] = "none"
        /\ \A d \in Conns \ {c} : stage'[d] = stage[d]
    <2>1. DOMAIN Nothing = {}
      BY DEF Nothing
    <2> QED BY <2>1, DropFacts
  <1>2. BudgetOK'
    BY <1>1 DEF BudgetOK, PermitsExact
  <1>3. SessionsOK'
    BY <1>1 DEF SessionsOK, Owned, VerdictsAreTold, Held
  <1> QED BY <1>1, <1>2, <1>3

-----------------------------------------------------------------------------
(* Making a connection a session. *)

\* insert_session: the new connection becomes the peer's, the one it replaces
\* is dropped, and a refused one is.
LEMMA InsertFacts ==
    ASSUME BudgetOK, SessionsOK, NEW p, NEW c \in Conns,
           stage[c] \in {"inbound", "dialing"}, InsertSession(p, c)
    PROVE  /\ BudgetOK' /\ SessionsOK'
           /\ stage'[c] # "dialing"
           /\ \A d \in Conns \ {c} : stage'[d] = "dialing" <=> stage[d] = "dialing"
  <1>1. CASE ~ EnsureCapacityFor(p)
    <2>1. Drop({c}, Nothing) /\ UNCHANGED <<sessions, told>>
      BY <1>1 DEF InsertSession
    <2> QED BY <2>1, DropOne
  <1>2. CASE EnsureCapacityFor(p)
    <2>1. PICK old : old = {sessions[q].conn : q \in Held \cap {p}}
      OBVIOUS
    <2>2. PICK moved : moved = [d \in {c} |-> "session"]
      OBVIOUS
    <2>3. PICK handle : /\ handle \in NewHandles(c)
                        /\ sessions' = [q \in Held \cup {p} |->
                                          IF q = p THEN handle ELSE sessions[q]]
      BY <1>2 DEF InsertSession
    <2>4. /\ told' = [q \in Held \cup {p} |-> IF q = p THEN "Healthy" ELSE told[q]]
          /\ Drop(old, moved)
      BY <1>2, <2>1, <2>2 DEF InsertSession
    <2>5. IsHandle(handle) /\ handle.conn = c /\ handle.hb.state = "Healthy"
      <3>1. PICK policy \in Policies :
              handle = [conn |-> c, hb |-> NewHeartbeat(now), rc |-> NewReconnect(policy)]
        BY <2>3 DEF NewHandles
      <3>2. NewHeartbeat(now).state = "Healthy"
        BY DEF NewHeartbeat
      <3>3. handle.conn = c /\ handle.hb = NewHeartbeat(now) /\ handle.rc = NewReconnect(policy)
        BY <3>1
      <3> QED BY <3>1, <3>2, <3>3 DEF IsHandle
    <2>6. /\ DOMAIN moved = {c} /\ moved[c] = "session"
          /\ c \notin old
          /\ \A d \in old : d \in Conns /\ stage[d] = "session"
      BY <2>1, <2>2 DEF SessionsOK, Owned
    <2>7. /\ stage' \in [Conns -> Stages]
          /\ IsFiniteSet(permit')
          /\ permit' = permit \ old
          /\ permits' = Cardinality(permit')
          /\ permits' <= MaxConnections
          /\ \A d \in Conns \ old : d \notin DOMAIN moved => stage'[d] = stage[d]
          /\ \A d \in Conns \ old : d \in DOMAIN moved => stage'[d] = moved[d]
          /\ \A d \in Conns \cap old : stage'[d] = "none"
      <3>1. \A d \in DOMAIN moved : moved[d] \in Stages
        BY <2>6 DEF Stages
      <3> QED BY <2>4, <3>1, DropFacts
    <2>8. /\ stage'[c] = "session"
          /\ \A d \in old : stage'[d] = "none"
          /\ \A d \in Conns : d # c /\ d \notin old => stage'[d] = stage[d]
      BY <2>6, <2>7
    <2>9. BudgetOK'
      <3>1. /\ permit \subseteq {d \in Conns : stage[d] \in {"accepting", "inbound", "session"}}
            /\ {d \in Conns : stage[d] \in {"accepting", "inbound"}} \subseteq permit
        BY DEF BudgetOK, PermitsExact
      <3>2. permit' \subseteq {d \in Conns : stage'[d] \in {"accepting", "inbound", "session"}}
        BY <2>7, <2>8, <3>1
      <3>3. {d \in Conns : stage'[d] \in {"accepting", "inbound"}} \subseteq permit'
        BY <2>6, <2>7, <2>8, <3>1
      <3> QED BY <2>7, <3>2, <3>3 DEF BudgetOK, PermitsExact
    <2>10. /\ Held' = Held \cup {p}
           /\ sessions'[p] = handle
           /\ \A q \in Held \ {p} : sessions'[q] = sessions[q]
      BY <2>3 DEF Held
    <2>11. /\ DOMAIN told' = Held'
           /\ told'[p] = "Healthy"
           /\ \A q \in Held \ {p} : told'[q] = told[q]
      BY <2>4, <2>10
    <2>12. IsFiniteSet(Held') /\ Cardinality(Held') <= MaxPeers
      <3>1. IsFiniteSet(Held) /\ Cardinality(Held) <= MaxPeers /\ Cardinality(Held) \in Nat
        BY FS_CardinalityType DEF SessionsOK
      <3>2. /\ IsFiniteSet(Held \cup {p})
            /\ Cardinality(Held \cup {p}) = IF p \in Held THEN Cardinality(Held)
                                            ELSE Cardinality(Held) + 1
        BY <3>1, FS_AddElement
      <3>3. p \notin Held => Cardinality(Held) < MaxPeers
        BY <1>2 DEF EnsureCapacityFor
      <3> QED BY <2>10, <3>1, <3>2, <3>3, PoolAssumption
    <2>13. \A q \in Held' : IsHandle(sessions'[q])
      BY <2>5, <2>10 DEF SessionsOK
    <2>14. VerdictsAreTold'
      BY <2>5, <2>10, <2>11 DEF SessionsOK, VerdictsAreTold
    <2>15. Owned'
      <3>1. /\ \A q \in Held : sessions[q].conn \in Conns /\ stage[sessions[q].conn] = "session"
            /\ \A d \in Conns : stage[d] = "session" => \E q \in Held : sessions[q].conn = d
            /\ \A q, r \in Held : sessions[q].conn = sessions[r].conn => q = r
        BY DEF SessionsOK, Owned
      <3>2. \A q \in Held \ {p} : sessions[q].conn \notin old /\ sessions[q].conn # c
        BY <2>1, <3>1
      <3>3. \A q \in Held' : sessions'[q].conn \in Conns /\ stage'[sessions'[q].conn] = "session"
        BY <2>5, <2>8, <2>10, <3>1, <3>2
      <3>4. ASSUME NEW d \in Conns, stage'[d] = "session"
            PROVE  \E q \in Held' : sessions'[q].conn = d
        <4>1. CASE d = c
          BY <2>5, <2>10, <4>1
        <4>2. CASE d # c
          <5>1. d \notin old /\ stage[d] = "session"
            BY <2>8, <3>4, <4>2
          <5>2. PICK q \in Held : sessions[q].conn = d
            BY <3>1, <5>1
          <5>3. q # p
            BY <2>1, <5>1, <5>2
          <5> QED BY <2>10, <5>2, <5>3
        <4> QED BY <4>1, <4>2
      <3>5. \A q, r \in Held' : sessions'[q].conn = sessions'[r].conn => q = r
        BY <2>5, <2>10, <3>1, <3>2
      <3> QED BY <3>3, <3>4, <3>5 DEF Owned
    <2>16. SessionsOK'
      BY <2>11, <2>12, <2>13, <2>14, <2>15 DEF SessionsOK
    <2> QED BY <2>6, <2>8, <2>9, <2>16
  <1> QED BY <1>1, <1>2

\* remove drops the peer's session with its connection.
LEMMA RemoveFacts ==
    ASSUME BudgetOK, SessionsOK, NEW p \in Held, Remove(p)
    PROVE  /\ BudgetOK' /\ SessionsOK'
           /\ \A d \in Conns : stage'[d] = "dialing" <=> stage[d] = "dialing"
  <1>1. PICK c : c = sessions[p].conn
    OBVIOUS
  <1>2. c \in Conns /\ stage[c] = "session"
    BY <1>1 DEF SessionsOK, Owned
  <1>3. /\ sessions' = [q \in Held \ {p} |-> sessions[q]]
        /\ told' = [q \in Held \ {p} |-> told[q]]
        /\ Drop({c}, Nothing)
    BY <1>1 DEF Remove
  <1>4. /\ stage' \in [Conns -> Stages]
        /\ IsFiniteSet(permit')
        /\ permit' = permit \ {c}
        /\ permits' = Cardinality(permit')
        /\ permits' <= MaxConnections
        /\ stage'[c] = "none"
        /\ \A d \in Conns \ {c} : stage'[d] = stage[d]
    <2>1. DOMAIN Nothing = {}
      BY DEF Nothing
    <2> QED BY <1>2, <1>3, <2>1, DropFacts
  <1>5. BudgetOK'
    BY <1>4 DEF BudgetOK, PermitsExact
  <1>6. /\ Held' = Held \ {p} /\ DOMAIN told' = Held'
        /\ \A q \in Held' : sessions'[q] = sessions[q] /\ told'[q] = told[q]
    BY <1>3 DEF Held
  <1>7. IsFiniteSet(Held') /\ Cardinality(Held') <= MaxPeers
    <2>1. IsFiniteSet(Held) /\ Cardinality(Held) <= MaxPeers /\ Cardinality(Held) \in Nat
      BY FS_CardinalityType DEF SessionsOK
    <2>2. IsFiniteSet(Held \ {p}) /\ Cardinality(Held \ {p}) = Cardinality(Held) - 1
      BY <2>1, FS_RemoveElement
    <2> QED BY <1>6, <2>1, <2>2, PoolAssumption
  <1>8. Owned'
    <2>1. /\ \A q \in Held : sessions[q].conn \in Conns /\ stage[sessions[q].conn] = "session"
          /\ \A d \in Conns : stage[d] = "session" => \E q \in Held : sessions[q].conn = d
          /\ \A q, r \in Held : sessions[q].conn = sessions[r].conn => q = r
      BY DEF SessionsOK, Owned
    <2>2. \A q \in Held' : sessions[q].conn # c
      BY <1>1, <1>6, <2>1
    <2>3. \A d \in Conns : stage'[d] = "session" => \E q \in Held' : sessions'[q].conn = d
      BY <1>1, <1>4, <1>6, <2>1
    <2> QED BY <1>4, <1>6, <2>1, <2>2, <2>3 DEF Owned
  <1>9. SessionsOK'
    BY <1>6, <1>7, <1>8 DEF SessionsOK, VerdictsAreTold
  <1> QED BY <1>2, <1>4, <1>5, <1>9

\* A host that reaches a handle changes its controllers and not its connection.
LEMMA HandledFacts ==
    ASSUME SessionsOK, NEW p \in Held, NEW h, IsHandle(h), h.conn = sessions[p].conn,
           Handled(p, h)
    PROVE  SessionsOK' /\ UNCHANGED <<permits, stage, permit, dialing>>
  <1>1. /\ Held' = Held
        /\ sessions'[p] = h
        /\ \A q \in Held \ {p} : sessions'[q] = sessions[q]
        /\ UNCHANGED <<permits, stage, permit, dialing>>
    BY DEF Handled, Held
  <1>2. /\ DOMAIN told' = Held
        /\ told'[p] = IF h.hb = sessions[p].hb THEN told[p] ELSE h.hb.state
        /\ \A q \in Held \ {p} : told'[q] = told[q]
    BY DEF Handled, SessionsOK
  <1>3. VerdictsAreTold'
    BY <1>1, <1>2 DEF SessionsOK, VerdictsAreTold
  <1>4. Owned'
    <2>1. \A q \in Held : sessions'[q].conn = sessions[q].conn
      BY <1>1
    <2> QED BY <1>1, <2>1 DEF SessionsOK, Owned
  <1> QED BY <1>1, <1>2, <1>3, <1>4 DEF SessionsOK

\* maintenance_tick reports every state change it makes.
LEMMA TickFacts ==
    ASSUME SessionsOK, NEW profile, MaintenanceTick(profile)
    PROVE  SessionsOK' /\ UNCHANGED <<permits, stage, permit, dialing>>
  <1>1. PICK results : results = [p \in Held |-> HeartbeatTick(sessions[p].hb, now, profile)]
    OBVIOUS
  <1>2. /\ sessions' = [p \in Held |-> [sessions[p] EXCEPT !.hb = results[p].hb]]
        /\ told' = [p \in Held |-> IF p \in Events(results) THEN results[p].hb.state ELSE told[p]]
        /\ UNCHANGED <<permits, stage, permit, dialing>>
    BY <1>1 DEF MaintenanceTick
  <1>3. ASSUME NEW h
        PROVE  HeartbeatTick(h, now, profile).action = "None"
                 => HeartbeatTick(h, now, profile).hb = h
    BY DEF HeartbeatTick
  <1>4. Held' = Held /\ DOMAIN told' = Held
    BY <1>2 DEF Held
  <1>5. ASSUME NEW p \in Held
        PROVE  /\ IsHandle(sessions'[p])
               /\ sessions'[p].conn = sessions[p].conn
               /\ sessions'[p].hb = results[p].hb
    <2>1. PICK h, g : h = sessions[p] /\ g = results[p].hb
      OBVIOUS
    <2>2. IsHandle(h)
      BY <2>1 DEF SessionsOK
    <2>3. sessions'[p] = [h EXCEPT !.hb = g]
      BY <1>2, <2>1
    <2>4. /\ [h EXCEPT !.hb = g] = [conn |-> h.conn, hb |-> g, rc |-> h.rc]
      BY <2>2 DEF IsHandle
    <2> QED BY <2>1, <2>3, <2>4 DEF IsHandle
  <1>6. VerdictsAreTold'
    <2>1. ASSUME NEW p \in Held PROVE told'[p] = results[p].hb.state
      <3>1. CASE p \in Events(results)
        BY <1>2, <3>1
      <3>2. CASE p \notin Events(results)
        <4>1. results[p].action = "None"
          BY <1>1, <3>2 DEF Events
        <4>2. results[p].hb = sessions[p].hb
          BY <1>1, <1>3, <4>1
        <4> QED BY <1>2, <3>2, <4>2 DEF SessionsOK, VerdictsAreTold
      <3> QED BY <3>1, <3>2
    <2> QED BY <1>4, <1>5, <2>1 DEF VerdictsAreTold
  <1>7. Owned'
    BY <1>2, <1>4, <1>5 DEF SessionsOK, Owned
  <1> QED BY <1>2, <1>4, <1>5, <1>6, <1>7 DEF SessionsOK

-----------------------------------------------------------------------------
(* The theorems. *)

\* A new pool satisfies the invariant.
LEMMA PoolInitial == Init => PoolInv
  <1> SUFFICES ASSUME Init PROVE PoolInv
    OBVIOUS
  <1>1. Held = {}
    BY DEF Init, Held
  <1>2. BudgetOK
    BY FS_EmptySet, PoolAssumption DEF Init, BudgetOK, PermitsExact, Stages
  <1>3. SessionsOK
    BY <1>1, FS_EmptySet, PoolAssumption DEF Init, SessionsOK, Owned, VerdictsAreTold
  <1>4. OneDial
    BY DEF Init, OneDial
  <1> QED BY <1>2, <1>3, <1>4 DEF PoolInv

\* Steps that leave the sessions alone and change one connection's stage
\* without dropping it.
LEMMA StageStep ==
    ASSUME PoolInv, NEW c \in Conns,
           \/ AcceptStarts(c)
           \/ AcceptCompletes(c)
           \/ \E p \in Peers : DialStarts(p, c)
    PROVE  PoolInv'
  <1>0. /\ stage \in [Conns -> Stages] /\ IsFiniteSet(permit)
        /\ PermitsExact /\ SessionsOK /\ OneDial
    BY DEF PoolInv, BudgetOK
  <1>1. /\ UNCHANGED <<sessions, told>>
        /\ stage[c] # "session" /\ stage'[c] # "session"
        /\ \A d \in Conns \ {c} : stage'[d] = stage[d]
        /\ stage' \in [Conns -> Stages]
    BY <1>0 DEF AcceptStarts, AcceptCompletes, DialStarts, Stages
  <1>2. SessionsOK'
    BY <1>0, <1>1 DEF SessionsOK, Owned, VerdictsAreTold, Held
  <1>3. CASE AcceptStarts(c)
    <2>1. /\ permits' = permits + 1 /\ permits < MaxConnections
          /\ permit' = permit \cup {c} /\ stage[c] = "none"
          /\ stage'[c] = "accepting" /\ dialing' = dialing
      BY <1>0, <1>3 DEF AcceptStarts, TryAcquire
    <2>2. c \notin permit
      BY <1>0, <2>1 DEF PermitsExact
    <2>3. IsFiniteSet(permit') /\ Cardinality(permit') = Cardinality(permit) + 1
      BY <1>0, <2>1, <2>2, FS_AddElement
    <2>4. permits \in Nat /\ permits = Cardinality(permit)
      BY <1>0, FS_CardinalityType DEF PermitsExact
    <2>5. permits' = Cardinality(permit') /\ permits' <= MaxConnections
      BY <2>1, <2>3, <2>4, PoolAssumption
    <2>6. BudgetOK'
      BY <1>0, <1>1, <2>1, <2>3, <2>5 DEF BudgetOK, PermitsExact
    <2>7. OneDial'
      BY <1>0, <1>1, <2>1 DEF OneDial
    <2> QED BY <1>2, <2>6, <2>7 DEF PoolInv
  <1>4. CASE AcceptCompletes(c)
    <2>1. /\ stage[c] = "accepting" /\ stage'[c] = "inbound"
          /\ UNCHANGED <<permits, permit, dialing>>
      BY <1>0, <1>4 DEF AcceptCompletes
    <2>2. BudgetOK'
      BY <1>0, <1>1, <2>1 DEF BudgetOK, PermitsExact
    <2>3. OneDial'
      BY <1>0, <1>1, <2>1 DEF OneDial
    <2> QED BY <1>2, <2>2, <2>3 DEF PoolInv
  <1>5. CASE \E p \in Peers : DialStarts(p, c)
    <2>1. /\ stage[c] = "none" /\ stage'[c] = "dialing"
          /\ dialing = Never /\ dialing' # Never
          /\ UNCHANGED <<permits, permit>>
      BY <1>0, <1>5, PoolAssumption DEF DialStarts, Exclusive
    <2>2. BudgetOK'
      BY <1>0, <1>1, <2>1 DEF BudgetOK, PermitsExact
    <2>3. OneDial'
      BY <1>0, <1>1, <2>1 DEF OneDial
    <2> QED BY <1>2, <2>2, <2>3 DEF PoolInv
  <1> QED BY <1>3, <1>4, <1>5

\* Every step of the pool preserves the invariant.
LEMMA PoolStep ==
    ASSUME PoolInv, [Next]_vars
    PROVE  PoolInv'
  <1>0. BudgetOK /\ SessionsOK /\ OneDial
    BY DEF PoolInv
  <1>1. ASSUME NEW c \in Conns, AcceptEnds(c) \/ DropInbound(c) \/ DialEnds(c)
        PROVE  PoolInv'
    <2>1. /\ stage[c] # "session" /\ Drop({c}, Nothing)
          /\ UNCHANGED <<sessions, told>>
      BY <1>1 DEF AcceptEnds, DropInbound, DialEnds
    <2>2. /\ BudgetOK' /\ SessionsOK'
          /\ stage'[c] = "none"
          /\ \A d \in Conns \ {c} : stage'[d] = stage[d]
      BY <1>0, <2>1, DropOne
    <2>3. OneDial'
      <3>1. CASE stage[c] = "dialing"
        <4>1. dialing' = Never
          BY <1>1, <3>1 DEF AcceptEnds, DropInbound, DialEnds
        <4> QED BY <1>0, <2>2, <3>1, <4>1 DEF OneDial
      <3>2. CASE stage[c] # "dialing"
        <4>1. dialing' = dialing
          BY <1>1, <3>2 DEF AcceptEnds, DropInbound, DialEnds
        <4> QED BY <1>0, <2>2, <3>2, <4>1 DEF OneDial
      <3> QED BY <3>1, <3>2
    <2> QED BY <2>2, <2>3 DEF PoolInv
  <1>2. ASSUME NEW c \in Conns, DialCompletes(c)
        PROVE  PoolInv'
    <2>1. stage[c] = "dialing" /\ InsertSession(dialing, c) /\ dialing' = Never
      BY <1>2 DEF DialCompletes
    <2>2. /\ BudgetOK' /\ SessionsOK'
          /\ stage'[c] # "dialing"
          /\ \A d \in Conns \ {c} : stage'[d] = "dialing" <=> stage[d] = "dialing"
      BY <1>0, <2>1, InsertFacts
    <2>3. OneDial'
      BY <1>0, <2>1, <2>2 DEF OneDial
    <2> QED BY <2>2, <2>3 DEF PoolInv
  <1>3. ASSUME NEW c \in Conns, NEW p \in Peers, AdmitInbound(c, p)
        PROVE  PoolInv'
    <2>1. stage[c] = "inbound" /\ InsertSession(p, c) /\ dialing' = dialing
      BY <1>3 DEF AdmitInbound
    <2>2. /\ BudgetOK' /\ SessionsOK'
          /\ stage'[c] # "dialing"
          /\ \A d \in Conns \ {c} : stage'[d] = "dialing" <=> stage[d] = "dialing"
      BY <1>0, <2>1, InsertFacts
    <2>3. OneDial'
      BY <1>0, <2>1, <2>2 DEF OneDial
    <2> QED BY <2>2, <2>3 DEF PoolInv
  <1>4. ASSUME NEW p \in Held, Remove(p)
        PROVE  PoolInv'
    <2>1. /\ BudgetOK' /\ SessionsOK'
          /\ \A d \in Conns : stage'[d] = "dialing" <=> stage[d] = "dialing"
      BY <1>0, <1>4, RemoveFacts
    <2>2. OneDial'
      BY <1>0, <1>4, <2>1 DEF OneDial, Remove
    <2> QED BY <2>1, <2>2 DEF PoolInv
  <1>5. ASSUME SessionsOK', UNCHANGED <<permits, stage, permit, dialing>>
        PROVE  PoolInv'
    <2>1. BudgetOK'
      BY <1>0, <1>5 DEF BudgetOK, PermitsExact
    <2>2. OneDial'
      BY <1>0, <1>5 DEF OneDial
    <2> QED BY <1>5, <2>1, <2>2 DEF PoolInv
  <1>6. ASSUME NEW p \in Held,
               \/ ObserveTransportAck(p)
               \/ ObserveProbeAck(p)
               \/ ResetReconnect(p)
               \/ \E failure \in Failures : NoteTransportFailure(p, failure)
        PROVE  PoolInv'
    <2>1. IsHandle(sessions[p])
      BY <1>0 DEF SessionsOK
    <2>2. PICK x : \/ Handled(p, [sessions[p] EXCEPT !.hb = x])
                   \/ Handled(p, [sessions[p] EXCEPT !.rc = x])
      BY <1>6 DEF ObserveTransportAck, ObserveProbeAck, ResetReconnect, NoteTransportFailure
    <2>3. PICK g : g = sessions[p]
      OBVIOUS
    <2>4. /\ [g EXCEPT !.hb = x] = [conn |-> g.conn, hb |-> x, rc |-> g.rc]
          /\ [g EXCEPT !.rc = x] = [conn |-> g.conn, hb |-> g.hb, rc |-> x]
      BY <2>1, <2>3 DEF IsHandle
    <2>5. PICK h : IsHandle(h) /\ h.conn = sessions[p].conn /\ Handled(p, h)
      <3>1. /\ IsHandle([conn |-> g.conn, hb |-> x, rc |-> g.rc])
            /\ IsHandle([conn |-> g.conn, hb |-> g.hb, rc |-> x])
        BY DEF IsHandle
      <3>2. /\ [conn |-> g.conn, hb |-> x, rc |-> g.rc].conn = g.conn
            /\ [conn |-> g.conn, hb |-> g.hb, rc |-> x].conn = g.conn
        OBVIOUS
      <3> QED BY <2>2, <2>3, <2>4, <3>1, <3>2
    <2>6. SessionsOK' /\ UNCHANGED <<permits, stage, permit, dialing>>
      BY <1>0, <2>5, HandledFacts
    <2> QED BY <1>5, <2>6
  <1>7. ASSUME NEW profile \in Profiles, MaintenanceTick(profile)
        PROVE  PoolInv'
    BY <1>0, <1>5, <1>7, TickFacts
  <1>8. ASSUME Advance \/ UNCHANGED vars
        PROVE  PoolInv'
    <2>1. UNCHANGED <<permits, stage, permit, dialing, sessions, told>>
      BY <1>8 DEF Advance, vars
    <2>2. SessionsOK'
      BY <1>0, <2>1 DEF SessionsOK, Owned, VerdictsAreTold, Held
    <2> QED BY <1>5, <2>1, <2>2
  <1>9. \/ \E c \in Conns : \/ AcceptStarts(c)
                            \/ AcceptCompletes(c)
                            \/ \E p \in Peers : DialStarts(p, c)
        \/ \E c \in Conns : AcceptEnds(c) \/ DropInbound(c) \/ DialEnds(c)
        \/ \E c \in Conns : DialCompletes(c)
        \/ \E c \in Conns, p \in Peers : AdmitInbound(c, p)
        \/ \E p \in Held : Remove(p)
        \/ \E p \in Held : \/ ObserveTransportAck(p)
                           \/ ObserveProbeAck(p)
                           \/ ResetReconnect(p)
                           \/ \E failure \in Failures : NoteTransportFailure(p, failure)
        \/ \E profile \in Profiles : MaintenanceTick(profile)
        \/ Advance \/ UNCHANGED vars
    BY Zenon DEF Next
  <1> QED BY <1>1, <1>2, <1>3, <1>4, <1>6, <1>7, <1>8, <1>9, StageStep

\* PoolInv is an inductive invariant of the pool.
THEOREM PoolInvariant == Spec => []PoolInv
  <1>1. PoolInv /\ [Next]_vars => PoolInv'
    BY PoolStep
  <1> QED BY <1>1, PoolInitial, PTL DEF Spec

\* The connection budget is exact and never exceeded.
THEOREM BudgetIsExact == Spec => []PermitsExact
  <1>1. PoolInv => PermitsExact
    BY DEF PoolInv, BudgetOK
  <1> QED BY <1>1, PoolInvariant, PTL

\* Every session connection has exactly one owner, and the pool at most
\* max_peers sessions.
THEOREM NoConnectionUnowned == Spec => []ConnectionsOwned
  <1>1. PoolInv => ConnectionsOwned
    <2> SUFFICES ASSUME PoolInv PROVE ConnectionsOwned
      OBVIOUS
    <2>1. {c \in Conns : stage[c] = "session"} = {sessions[p].conn : p \in Held}
      BY DEF PoolInv, SessionsOK, Owned
    <2> QED BY <2>1 DEF PoolInv, SessionsOK, Owned, OneDial, ConnectionsOwned
  <1> QED BY <1>1, PoolInvariant, PTL

\* A host that handles every event knows the liveness of every session.
THEOREM HostIsTold == Spec => []VerdictsAreTold
  <1>1. PoolInv => VerdictsAreTold
    BY DEF PoolInv, SessionsOK
  <1> QED BY <1>1, PoolInvariant, PTL

=============================================================================
