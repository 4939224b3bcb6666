----------------------------- MODULE NtpProofs -----------------------------
(***************************************************************************)
(* Machine-checked proofs about NtpSession: the subscriber leads every     *)
(* activation, a command acts on the session it was sent for, and an       *)
(* honest publisher's frames are never counted as violations.  For any     *)
(* definitions, results, links and calls, and any room in the outboxes,    *)
(* the streams and the lane.                                               *)
(*                                                                         *)
(* The invariant says where the activation of the newest link stands, from *)
(* the messages on the two wires (stream and outbox together), and how the *)
(* frames on their way relate to what both ends have recorded.             *)
(***************************************************************************)
EXTENDS NtpSession, DataFacts

-----------------------------------------------------------------------------
(* What the state is made of *)

FlowSet == ToSet(Flows)
Sessions == Definitions \cup {None}
Commands == {"Running", "Paused", "Stopped"}

\* A realtime frame: its flow, the session it was made for, its sequence number.
FrameRecords == [flow : FlowSet, def : Definitions, sequence : Nat \ {0}]

\* What a sender or a receiver keeps: at most one frame of each flow.
Latest == {latest \in [FlowSet -> FrameRecords \cup {None}] :
              \A w \in FlowSet : latest[w] # None => latest[w].flow = w}

\* The control messages of each side, and the records of the two sides.
FromPublisher == [kind : {"proposal", "confirmed"}, body : Definitions]
                    \cup [kind : {"hello", "pong"}, body : Nat]

FromSubscriber == [kind : {"accepted", "ready"}, body : Definitions]
                    \cup [kind : {"hello", "ping"}, body : Nat]
                    \cup [kind : {"command"}, body : [command : Commands, meant : Definitions]]
                    \cup [kind : {"geometry", "report"}, body : {None}]

Publishers ==
    [ link : Links, greeted : BOOLEAN, hello : BOOLEAN, pending : Sessions, accepted : BOOLEAN,
      active : Sessions, playback : Commands, started : Sessions, outbox : Seq(FromPublisher),
      last : Nat, geometry : BOOLEAN, latest : Latest, reconfigured : Nat, burst : Nat,
      sustained : Nat, stalled : SUBSET Definitions ]

Subscribers ==
    [ link : Links, greeted : BOOLEAN, hello : BOOLEAN, pending : Sessions, active : Sessions,
      outbox : Seq(FromSubscriber), latest : Latest, done : [FlowSet -> Nat], ping : Nat,
      reconfigured : Nat, burst : Nat, sustained : Nat, violations : Nat, fused : BOOLEAN,
      past : Seq(Definitions), stalled : SUBSET Definitions, late : BOOLEAN ]

-----------------------------------------------------------------------------
(* The exchange *)

\* The four messages of an activation.
IsExchange(m) == m.kind \in {"proposal", "accepted", "confirmed", "ready"}

\* A wire, stream and outbox together, with no message of an activation on it.
Quiet(wire) == \A i \in DOMAIN wire : ~IsExchange(wire[i])

\* One message of an activation, and no other.
Carries(wire, kind, d) ==
    \E i \in DOMAIN wire : /\ wire[i] = Message(kind, d)
                           /\ \A j \in DOMAIN wire : j # i => ~IsExchange(wire[j])

\* A command on the wire was sent for session d.
Means(m, d) == m.kind = "command" => m.body.meant = d

Aims(wire, d) == \A i \in DOMAIN wire : Means(wire[i], d)

\* SessionReady for d, commands for old before it and for d behind it.
Turns(wire, old, d) ==
    \E i \in DOMAIN wire : /\ wire[i] = Message("ready", d)
                           /\ \A j \in DOMAIN wire : j # i => ~IsExchange(wire[j])
                           /\ \A j \in DOMAIN wire : j < i => Means(wire[j], old)
                           /\ \A j \in DOMAIN wire : j > i => Means(wire[j], d)

\* The session the subscriber activated last, and the one before it.
LastOf(past) == IF Len(past) > 0 THEN past[Len(past)] ELSE None
BeforeLast(past) == IF Len(past) > 1 THEN past[Len(past) - 1] ELSE None

\* Both sides run the same session, or the subscriber is one activation ahead.
Together(p, s) == p.active = s.active
Ahead(p, s) == Len(s.past) > 0 /\ p.pending = s.active /\ p.accepted /\ p.active = BeforeLast(s.past)

\* Where an activation stands.
Idle(p, s, a, b) ==
    p.pending = None /\ ~p.accepted /\ s.pending = None /\ Together(p, s)
      /\ Quiet(a) /\ Quiet(b) /\ Aims(b, p.active)

Proposed(p, s, a, b) ==
    p.pending # None /\ ~p.accepted /\ s.pending = None /\ Together(p, s)
      /\ Carries(a, "proposal", p.pending) /\ Quiet(b) /\ Aims(b, p.active)

Answered(p, s, a, b) ==
    p.pending # None /\ ~p.accepted /\ s.pending = p.pending /\ Together(p, s)
      /\ Quiet(a) /\ Carries(b, "accepted", p.pending) /\ Aims(b, p.active)

Confirmed(p, s, a, b) ==
    p.pending # None /\ p.accepted /\ s.pending = p.pending /\ Together(p, s)
      /\ Carries(a, "confirmed", p.pending) /\ Quiet(b) /\ Aims(b, p.active)

Turning(p, s, a, b) ==
    p.pending # None /\ s.pending = None /\ Ahead(p, s)
      /\ Quiet(a) /\ Turns(b, p.active, p.pending)

\* A message of the exchange was lost: nothing moves it on.
Stuck(p, s, a, b) ==
    /\ p.pending # None /\ Quiet(a) /\ Quiet(b)
    /\ \/ Together(p, s) /\ Aims(b, p.active)
       \/ Ahead(p, s) /\ p.pending \in s.stalled

Exchange(p, s, a, b) ==
    \/ Idle(p, s, a, b) \/ Proposed(p, s, a, b) \/ Answered(p, s, a, b)
    \/ Confirmed(p, s, a, b) \/ Turning(p, s, a, b) \/ Stuck(p, s, a, b)

\* What runs was started for the session that runs, unless a message was lost.
Obeys(p, s) == p.playback = "Running" => p.started = p.active \/ p.pending \in s.stalled

-----------------------------------------------------------------------------
(* The frames *)

\* The frames on their way: in flight, waiting at the sender, held by the receiver.
Kept(latest) == {latest[w] : w \in FlowSet} \ {None}

Carried(p, s, q) == ToSet(q) \cup Kept(p.latest) \cup Kept(s.latest)

\* The subscriber has activated the session of every frame.
Known(p, s, q) == \A f \in Carried(p, s, q) : f.def \in ToSet(s.past)

\* f was sent before g.
Before(f, g) == f.flow = g.flow /\ f.def = g.def => f.sequence < g.sequence

\* A flow's frames: held by the receiver, in flight, waiting at the sender.
InOrder(held, q, waiting) ==
    /\ \A i, j \in DOMAIN q : i < j => Before(q[i], q[j])
    /\ \A w \in FlowSet : waiting[w] # None => \A i \in DOMAIN q : Before(q[i], waiting[w])
    /\ \A w \in FlowSet : held[w] # None => \A i \in DOMAIN q : Before(held[w], q[i])
    /\ \A w \in FlowSet : held[w] # None /\ waiting[w] # None => Before(held[w], waiting[w])

\* What the guards of the subscriber rely on, while generations grow.
Honest(p, s, q) ==
    /\ InOrder(s.latest, q, p.latest)
    /\ \A f \in Carried(p, s, q) :
         /\ f.def = p.active => f.sequence <= p.last
         /\ f.def = s.active => f.sequence > s.done[f.flow]
         /\ f.def = s.active => Together(p, s)
    /\ \A w \in FlowSet : s.done[w] <= IF Together(p, s) THEN p.last ELSE 0
    /\ ~s.late => s.violations = 0

\* The frames of a link whose transport mode is m.
InStep(p, s, q, m) ==
    /\ Known(p, s, q)
    /\ m = "ReliableLatestOnly" /\ Growing(s.past) => Honest(p, s, q)

\* The two sides of a link, a and b the wires between them, q the frames in flight.
Agreed(p, s, a, b, q, m) ==
    /\ s.active = LastOf(s.past)
    /\ Exchange(p, s, a, b)
    /\ Obeys(p, s)
    /\ InStep(p, s, q, m)

-----------------------------------------------------------------------------
(* Wires: what appending a message and taking the first one do *)

\* The first message of a wire and the rest of it.
LEMMA HeadFacts ==
    ASSUME NEW M, NEW w \in Seq(M), w # <<>>
    PROVE  /\ Tail(w) \in Seq(M) /\ Head(w) \in M /\ Len(w) \in Nat /\ Len(w) > 0
           /\ Len(Tail(w)) = Len(w) - 1 /\ Head(w) = w[1] /\ 1 \in DOMAIN w
           /\ \A i \in DOMAIN Tail(w) : i + 1 \in DOMAIN w /\ Tail(w)[i] = w[i + 1]
           /\ \A i \in DOMAIN w : i # 1 => i - 1 \in DOMAIN Tail(w) /\ Tail(w)[i - 1] = w[i]
  OBVIOUS

\* A wire with one more message behind it.
LEMMA AppendedFacts ==
    ASSUME NEW M, NEW w \in Seq(M), NEW m \in M
    PROVE  /\ Append(w, m) \in Seq(M) /\ Len(w) \in Nat
           /\ Len(w) + 1 \in DOMAIN Append(w, m) /\ Append(w, m)[Len(w) + 1] = m
           /\ \A i \in DOMAIN Append(w, m) : i \in Nat /\ i <= Len(w) + 1
           /\ \A i \in DOMAIN Append(w, m) : i # Len(w) + 1 => i \in DOMAIN w
           /\ \A i \in DOMAIN w : /\ i \in DOMAIN Append(w, m) /\ i < Len(w) + 1 /\ i # Len(w) + 1
                                  /\ Append(w, m)[i] = w[i]
  OBVIOUS

\* A message that is not part of an exchange changes nothing in what a wire carries.
LEMMA WireAppends ==
    ASSUME NEW M, NEW w \in Seq(M), NEW m \in M, ~IsExchange(m)
    PROVE  /\ Quiet(w) => Quiet(Append(w, m))
           /\ \A k, d : Carries(w, k, d) => Carries(Append(w, m), k, d)
           /\ \A d : Aims(w, d) /\ Means(m, d) => Aims(Append(w, m), d)
           /\ \A old, d : Turns(w, old, d) /\ Means(m, d) => Turns(Append(w, m), old, d)
<1>0. PICK v : v = Append(w, m)
  OBVIOUS
<1>1. /\ \A i \in DOMAIN v : i = Len(w) + 1 \/ i \in DOMAIN w
      /\ \A i \in DOMAIN w : i \in DOMAIN v /\ i < Len(w) + 1 /\ i # Len(w) + 1 /\ v[i] = w[i]
      /\ v[Len(w) + 1] = m /\ Len(w) \in Nat
  BY <1>0, AppendedFacts
<1>2. Quiet(w) => Quiet(v)
  BY <1>1 DEF Quiet
<1>3. ASSUME NEW k, NEW d, Carries(w, k, d) PROVE Carries(v, k, d)
  <2>1. PICK i \in DOMAIN w : /\ w[i] = Message(k, d)
                              /\ \A j \in DOMAIN w : j # i => ~IsExchange(w[j])
    BY <1>3 DEF Carries
  <2>2. i \in DOMAIN v /\ v[i] = Message(k, d) /\ \A j \in DOMAIN v : j # i => ~IsExchange(v[j])
    BY <1>1, <2>1
  <2> QED
    BY <2>2 DEF Carries
<1>4. \A d : Aims(w, d) /\ Means(m, d) => Aims(v, d)
  BY <1>1 DEF Aims
<1>5. ASSUME NEW old, NEW d, Turns(w, old, d), Means(m, d) PROVE Turns(v, old, d)
  <2>1. PICK i \in DOMAIN w : /\ w[i] = Message("ready", d)
                              /\ \A j \in DOMAIN w : j # i => ~IsExchange(w[j])
                              /\ \A j \in DOMAIN w : j < i => Means(w[j], old)
                              /\ \A j \in DOMAIN w : j > i => Means(w[j], d)
    BY <1>5 DEF Turns
  <2>2. i \in DOMAIN v /\ v[i] = Message("ready", d) /\ \A j \in DOMAIN v : j # i => ~IsExchange(v[j])
    BY <1>1, <2>1
  <2>3. i \in Int /\ \A j \in DOMAIN w : j \in Int
    OBVIOUS
  <2>4. \A j \in DOMAIN v : j < i => Means(v[j], old)
    BY <1>1, <2>1, <2>3
  <2>5. \A j \in DOMAIN v : j > i => Means(v[j], d)
    BY <1>1, <1>5, <2>1
  <2> QED
    BY <2>2, <2>4, <2>5 DEF Turns
<1> QED
  BY <1>0, <1>2, <1>3, <1>4, <1>5

\* The message of an exchange on a quiet wire.
LEMMA WireStarts ==
    ASSUME NEW M, NEW w \in Seq(M), NEW k, NEW d, Message(k, d) \in M, Quiet(w)
    PROVE  /\ Carries(Append(w, Message(k, d)), k, d)
           /\ k # "command" => \A x : Aims(w, x) => Aims(Append(w, Message(k, d)), x)
           /\ k = "ready" => \A old : Aims(w, old) => Turns(Append(w, Message(k, d)), old, d)
<1>0. PICK v : v = Append(w, Message(k, d))
  OBVIOUS
<1>1. /\ \A i \in DOMAIN v : i \in Nat /\ i <= Len(w) + 1 /\ (i = Len(w) + 1 \/ i \in DOMAIN w)
      /\ \A i \in DOMAIN w : i \in DOMAIN v /\ i < Len(w) + 1 /\ i # Len(w) + 1 /\ v[i] = w[i]
      /\ v[Len(w) + 1] = Message(k, d) /\ Len(w) \in Nat /\ Len(w) + 1 \in DOMAIN v
  BY <1>0, AppendedFacts
<1>2. \A j \in DOMAIN v : j # Len(w) + 1 => ~IsExchange(v[j])
  BY <1>1 DEF Quiet
<1>3. Carries(v, k, d)
  BY <1>1, <1>2 DEF Carries
<1>4. k # "command" => \A x : Aims(w, x) => Aims(v, x)
  BY <1>1 DEF Aims, Means, Message
<1>5. ASSUME k = "ready", NEW old, Aims(w, old) PROVE Turns(v, old, d)
  <2>1. \A j \in DOMAIN v : j < Len(w) + 1 => Means(v[j], old)
    BY <1>1, <1>5 DEF Aims
  <2>2. \A j \in DOMAIN v : ~(j > Len(w) + 1)
    BY <1>1
  <2> QED
    BY <1>1, <1>2, <1>5, <2>1, <2>2 DEF Turns
<1> QED
  BY <1>0, <1>3, <1>4, <1>5

\* The first message of a wire is the one of the exchange, or leaves it behind it.
LEMMA WireTakes ==
    ASSUME NEW M, NEW w \in Seq(M), w # <<>>
    PROVE  /\ Quiet(w) => Quiet(Tail(w)) /\ ~IsExchange(Head(w))
           /\ \A k, d : Carries(w, k, d) =>
                \/ Head(w) = Message(k, d) /\ Quiet(Tail(w))
                \/ ~IsExchange(Head(w)) /\ Carries(Tail(w), k, d)
           /\ \A d : Aims(w, d) => Means(Head(w), d) /\ Aims(Tail(w), d)
           /\ \A old, d : Turns(w, old, d) =>
                \/ Head(w) = Message("ready", d) /\ Quiet(Tail(w)) /\ Aims(Tail(w), d)
                \/ ~IsExchange(Head(w)) /\ Means(Head(w), old) /\ Turns(Tail(w), old, d)
<1>0. PICK v : v = Tail(w)
  OBVIOUS
<1>1. /\ Head(w) = w[1] /\ 1 \in DOMAIN w
      /\ \A i \in DOMAIN v : i \in Nat /\ i # 0 /\ i + 1 \in DOMAIN w /\ v[i] = w[i + 1]
      /\ \A i \in DOMAIN w : i \in Nat
      /\ \A i \in DOMAIN w : i # 1 => i - 1 \in DOMAIN v /\ v[i - 1] = w[i] /\ i > 1
  BY <1>0
<1>2. Quiet(w) => Quiet(v) /\ ~IsExchange(Head(w))
  BY <1>1 DEF Quiet
<1>3. ASSUME NEW k, NEW d, Carries(w, k, d)
      PROVE  \/ Head(w) = Message(k, d) /\ Quiet(v)
             \/ ~IsExchange(Head(w)) /\ Carries(v, k, d)
  <2>1. PICK i \in DOMAIN w : /\ w[i] = Message(k, d)
                              /\ \A j \in DOMAIN w : j # i => ~IsExchange(w[j])
    BY <1>3 DEF Carries
  <2>2. CASE i = 1
    <3>1. \A j \in DOMAIN v : j + 1 # i
      BY <1>1, <2>2
    <3> QED
      BY <1>1, <2>1, <2>2, <3>1 DEF Quiet
  <2>3. CASE i # 1
    <3>1. \A j \in DOMAIN v : j # i - 1 => j + 1 # i
      BY <1>1
    <3>2. i - 1 \in DOMAIN v /\ v[i - 1] = Message(k, d)
      BY <1>1, <2>1, <2>3
    <3>3. \A j \in DOMAIN v : j # i - 1 => ~IsExchange(v[j])
      BY <1>1, <2>1, <3>1
    <3> QED
      BY <1>1, <2>1, <2>3, <3>2, <3>3 DEF Carries
  <2> QED
    BY <2>2, <2>3
<1>4. \A d : Aims(w, d) => Means(Head(w), d) /\ Aims(v, d)
  BY <1>1 DEF Aims
<1>5. ASSUME NEW old, NEW d, Turns(w, old, d)
      PROVE  \/ Head(w) = Message("ready", d) /\ Quiet(v) /\ Aims(v, d)
             \/ ~IsExchange(Head(w)) /\ Means(Head(w), old) /\ Turns(v, old, d)
  <2>1. PICK i \in DOMAIN w : /\ w[i] = Message("ready", d)
                              /\ \A j \in DOMAIN w : j # i => ~IsExchange(w[j])
                              /\ \A j \in DOMAIN w : j < i => Means(w[j], old)
                              /\ \A j \in DOMAIN w : j > i => Means(w[j], d)
    BY <1>5 DEF Turns
  <2>2. CASE i = 1
    <3>1. \A j \in DOMAIN v : j + 1 # i /\ j + 1 > i
      BY <1>1, <2>2
    <3> QED
      BY <1>1, <2>1, <2>2, <3>1 DEF Quiet, Aims
  <2>3. CASE i # 1
    <3>1. \A j \in DOMAIN v : (j # i - 1 => j + 1 # i) /\ (j < i - 1 => j + 1 < i) /\ (j > i - 1 => j + 1 > i)
      BY <1>1
    <3>2. i - 1 \in DOMAIN v /\ v[i - 1] = Message("ready", d) /\ 1 < i
      BY <1>1, <2>1, <2>3
    <3>3. \A j \in DOMAIN v : j # i - 1 => ~IsExchange(v[j])
      BY <1>1, <2>1, <3>1
    <3>4. \A j \in DOMAIN v : j < i - 1 => Means(v[j], old)
      BY <1>1, <2>1, <3>1
    <3>5. \A j \in DOMAIN v : j > i - 1 => Means(v[j], d)
      BY <1>1, <2>1, <3>1
    <3> QED
      BY <1>1, <2>1, <2>3, <3>2, <3>3, <3>4, <3>5 DEF Turns
  <2> QED
    BY <2>2, <2>3
<1> QED
  BY <1>0, <1>2, <1>3, <1>4, <1>5

-----------------------------------------------------------------------------
(* The two ends of a link *)

\* One link: the publisher p, the subscriber s, what is in flight between them.  on says that
\* they use it together; the types hold in any case.
Joint(p, s, a, b, q, m, on) ==
    /\ p \in Publishers /\ s \in Subscribers
    /\ a \in Seq(FromPublisher) /\ b \in Seq(FromSubscriber) /\ q \in Seq(FrameRecords)
    /\ Len(a) <= ControlRoom /\ Len(b) <= ControlRoom
    /\ on => Agreed(p, s, a \o p.outbox, b \o s.outbox, q, m)

\* What the assumption says of the bounds.
LEMMA Bounds ==
    /\ ControlRoom \in Nat /\ MaxPendingControl \in Nat /\ FrameRoom \in Nat /\ MaxDrain \in Nat
    /\ MaxLinks \in Nat /\ MaxLinks >= 1 /\ MaxReconfigure \in Nat /\ MaxReconfigure >= 1
    /\ MaxDrain >= 1
  BY NtpAssumption

\* flush_control moves messages from the outbox to the stream and keeps their order.
LEMMA Flushes ==
    ASSUME NEW M, NEW side, side.outbox \in Seq(M), NEW queue \in Seq(M), Len(queue) <= ControlRoom
    PROVE  \E o \in Seq(M), w \in Seq(M) :
             /\ FlushControl(side, queue) = [side |-> [side EXCEPT !.outbox = o], queue |-> w]
             /\ Len(w) <= ControlRoom
             /\ w \o o = queue \o side.outbox
<1>1. PICK mail \in Seq(M) : mail = side.outbox
  OBVIOUS
<1>2. PICK n : n = Least(Len(mail), ControlRoom - Len(queue))
  OBVIOUS
<1>3. Len(mail) \in Nat /\ Len(queue) \in Nat /\ ControlRoom - Len(queue) \in Nat
  BY Bounds
<1>4. n \in 0 .. Len(mail) /\ Len(queue) + n <= ControlRoom
  BY <1>2, <1>3, Bounds DEF Least
<1>5. PICK front, back : front = SubSeq(mail, 1, n) /\ back = SubSeq(mail, n + 1, Len(mail))
  OBVIOUS
<1>6. FlushControl(side, queue) = [side |-> [side EXCEPT !.outbox = back], queue |-> queue \o front]
  BY <1>1, <1>2, <1>5 DEF FlushControl
<1>7. front \in Seq(M) /\ back \in Seq(M) /\ Len(front) = n
  <2>1. \A i \in 1 .. n : mail[i] \in M
    BY <1>4
  <2>2. \A i \in n + 1 .. Len(mail) : mail[i] \in M
    BY <1>4
  <2>3. 1 \in Int /\ n \in Int /\ n + 1 \in Int /\ Len(mail) \in Int
    BY <1>4
  <2>4. front \in Seq(M) /\ Len(front) = IF 1 <= n THEN n - 1 + 1 ELSE 0
    BY <1>5, <2>1, <2>3, SubSeqProperties
  <2>5. back \in Seq(M)
    BY <1>5, <2>2, <2>3, SubSeqProperties
  <2> QED
    BY <1>4, <2>4, <2>5
<1>8. front \o back = mail
  <2>1. 1 \in 1 .. Len(mail) + 1 /\ n \in 1 - 1 .. Len(mail) /\ Len(mail) \in n .. Len(mail)
    BY <1>3, <1>4
  <2> QED
    BY <1>5, <2>1, ConcatAdjacentSubSeq, SubSeqFull
<1>9. (queue \o front) \o back = queue \o mail
  <2>1. (queue \o front) \o back = queue \o (front \o back)
    BY <1>7, ConcatAssociative, SMTT(60)
  <2> QED
    BY <1>8, <2>1, Zenon
<1>10. queue \o front \in Seq(M) /\ Len(queue \o front) <= ControlRoom
  BY <1>3, <1>4, <1>7, ConcatProperties
<1> QED
  BY <1>1, <1>6, <1>7, <1>9, <1>10

\* What an agreement says of the publisher and of the subscriber.
SamePublisher(p, r) ==
    /\ p.pending = r.pending /\ p.accepted = r.accepted /\ p.active = r.active
    /\ p.playback = r.playback /\ p.started = r.started /\ p.latest = r.latest /\ p.last = r.last

\* What the invariant reads of a subscriber, its outbox apart.
SameSubscriber(s, r) ==
    /\ s.pending = r.pending /\ s.active = r.active /\ s.past = r.past /\ s.stalled = r.stalled
    /\ s.latest = r.latest /\ s.done = r.done /\ s.late = r.late /\ s.violations = r.violations

\* An exchange depends on what the two sides are doing with sessions only.
LEMMA ExchangeOfSame ==
    ASSUME NEW p, NEW r, NEW s, NEW t, NEW a, NEW b, Exchange(p, s, a, b),
           p.pending = r.pending, p.accepted = r.accepted, p.active = r.active,
           s.pending = t.pending, s.active = t.active, s.past = t.past, s.stalled = t.stalled
    PROVE  Exchange(r, t, a, b)
  BY DEF Exchange, Idle, Proposed, Answered, Confirmed, Turning, Stuck, Together, Ahead

\* Where the frames stand depends on the fields named here only.
LEMMA InStepOfSame ==
    ASSUME NEW p, NEW r, NEW s, NEW t, NEW q, NEW m, InStep(p, s, q, m),
           p.active = r.active, p.latest = r.latest, p.last = r.last,
           s.active = t.active, s.past = t.past, s.latest = t.latest, s.done = t.done,
           s.late = t.late, s.violations = t.violations
    PROVE  InStep(r, t, q, m)
<1>1. Carried(r, t, q) = Carried(p, s, q)
  BY DEF Carried
<1>2. Known(r, t, q)
  BY <1>1 DEF InStep, Known
<1>3. Honest(p, s, q) => Honest(r, t, q)
  BY <1>1 DEF Honest, Together
<1> QED
  BY <1>2, <1>3 DEF InStep

\* Sides that look the same to the invariant agree alike.
LEMMA AgreedOfSame ==
    ASSUME NEW p, NEW r, NEW s, NEW t, NEW a, NEW b, NEW q, NEW m,
           SamePublisher(p, r), SameSubscriber(s, t), Agreed(p, s, a, b, q, m)
    PROVE  Agreed(r, t, a, b, q, m)
<1> USE DEF SamePublisher, SameSubscriber
<1>1. t.active = LastOf(t.past)
  BY DEF Agreed
<1>2. Exchange(r, t, a, b)
  BY ExchangeOfSame DEF Agreed
<1>3. Obeys(r, t)
  BY DEF Agreed, Obeys
<1>4. InStep(r, t, q, m)
  BY InStepOfSame DEF Agreed
<1> QED
  BY <1>1, <1>2, <1>3, <1>4 DEF Agreed

\* flush_control leaves the wire of a side as it was: messages only move from the outbox to
\* the stream.
LEMMA PubFlushes ==
    ASSUME NEW p, NEW s, NEW a, NEW b, NEW q, NEW m, NEW on, Joint(p, s, a, b, q, m, on)
    PROVE  LET out == FlushControl(p, a)
           IN  Joint(out.side, s, out.queue, b, q, m, on) /\ out.side.link = p.link
<1>1. p \in Publishers /\ p.outbox \in Seq(FromPublisher) /\ a \in Seq(FromPublisher) /\ Len(a) <= ControlRoom
  BY DEF Joint, Publishers
<1>2. PICK o \in Seq(FromPublisher), w \in Seq(FromPublisher) :
        /\ FlushControl(p, a) = [side |-> [p EXCEPT !.outbox = o], queue |-> w]
        /\ Len(w) <= ControlRoom
        /\ w \o o = a \o p.outbox
  BY <1>1, Flushes
<1>3. PICK r : r = [p EXCEPT !.outbox = o]
  OBVIOUS
<1>4. r \in Publishers /\ r.outbox = o /\ r.link = p.link /\ SamePublisher(p, r)
  BY <1>1, <1>3 DEF Publishers, SamePublisher
<1>5. on => Agreed(r, s, w \o o, b \o s.outbox, q, m)
  BY <1>2, <1>4, AgreedOfSame DEF Joint, SameSubscriber
<1>6. Joint(r, s, w, b, q, m, on)
  BY <1>2, <1>4, <1>5 DEF Joint
<1>7. FlushControl(p, a).side = r /\ FlushControl(p, a).queue = w
  BY <1>2, <1>3
<1> QED
  BY <1>4, <1>6, <1>7, Zenon

\* The same for the subscriber.
LEMMA SubFlushes ==
    ASSUME NEW p, NEW s, NEW a, NEW b, NEW q, NEW m, NEW on, Joint(p, s, a, b, q, m, on)
    PROVE  LET out == FlushControl(s, b)
           IN  Joint(p, out.side, a, out.queue, q, m, on) /\ out.side.link = s.link
<1>1. s \in Subscribers /\ s.outbox \in Seq(FromSubscriber) /\ b \in Seq(FromSubscriber) /\ Len(b) <= ControlRoom
  BY DEF Joint, Subscribers
<1>2. PICK o \in Seq(FromSubscriber), w \in Seq(FromSubscriber) :
        /\ FlushControl(s, b) = [side |-> [s EXCEPT !.outbox = o], queue |-> w]
        /\ Len(w) <= ControlRoom
        /\ w \o o = b \o s.outbox
  BY <1>1, Flushes
<1>3. PICK r : r = [s EXCEPT !.outbox = o]
  OBVIOUS
<1>4. r \in Subscribers /\ r.outbox = o /\ r.link = s.link /\ SameSubscriber(s, r)
  BY <1>1, <1>3 DEF Subscribers, SameSubscriber
<1>5. on => Agreed(p, r, a \o p.outbox, w \o o, q, m)
  BY <1>2, <1>4, AgreedOfSame DEF Joint, SamePublisher
<1>6. Joint(p, r, a, w, q, m, on)
  BY <1>2, <1>4, <1>5 DEF Joint
<1>7. FlushControl(s, b).side = r /\ FlushControl(s, b).queue = w
  BY <1>2, <1>3
<1> QED
  BY <1>4, <1>6, <1>7, Zenon

-----------------------------------------------------------------------------
(* Messages outside an exchange *)

\* The pipe and the outbox behind it are one wire.
LEMMA PipeFacts ==
    ASSUME NEW M, NEW a \in Seq(M), NEW o \in Seq(M)
    PROVE  /\ a \o o \in Seq(M)
           /\ \A x \in M : a \o Append(o, x) = Append(a \o o, x)
           /\ a # <<>> => /\ a \o o # <<>> /\ Head(a \o o) = Head(a) /\ Tail(a \o o) = Tail(a) \o o
                          /\ Tail(a) \in Seq(M) /\ Head(a) \in M /\ Len(Tail(a)) = Len(a) - 1
                          /\ Len(a) \in Nat
  OBVIOUS

\* A message queued in the outbox is the last one on the wire.
LEMMA PipePushes ==
    ASSUME NEW M, NEW a \in Seq(M), NEW o \in Seq(M), NEW x \in M, NEW v, v = Append(o, x)
    PROVE  a \o v = Append(a \o o, x)
  OBVIOUS

\* Hellos, pings, reports and commands, sent or taken, leave an activation where it is.
LEMMA ExchangePasses ==
    ASSUME NEW p, NEW s, NEW a \in Seq(FromPublisher), NEW b \in Seq(FromSubscriber),
           Exchange(p, s, a, b)
    PROVE  /\ \A x \in FromPublisher : ~IsExchange(x) => Exchange(p, s, Append(a, x), b)
           /\ \A x \in FromSubscriber :
                ~IsExchange(x) /\ Means(x, s.active) => Exchange(p, s, a, Append(b, x))
           /\ a # <<>> /\ ~IsExchange(Head(a)) => Exchange(p, s, Tail(a), b)
           /\ b # <<>> /\ ~IsExchange(Head(b)) => Exchange(p, s, a, Tail(b))
<1>1. ASSUME NEW x \in FromPublisher, ~IsExchange(x) PROVE Exchange(p, s, Append(a, x), b)
  <2>1. /\ Quiet(a) => Quiet(Append(a, x))
        /\ \A k, d : Carries(a, k, d) => Carries(Append(a, x), k, d)
    BY <1>1, WireAppends
  <2> QED
    BY <2>1 DEF Exchange, Idle, Proposed, Answered, Confirmed, Turning, Stuck
<1>2. ASSUME NEW x \in FromSubscriber, ~IsExchange(x), Means(x, s.active)
      PROVE  Exchange(p, s, a, Append(b, x))
  <2>1. /\ Quiet(b) => Quiet(Append(b, x))
        /\ \A k, d : Carries(b, k, d) => Carries(Append(b, x), k, d)
        /\ \A d : Aims(b, d) /\ Means(x, d) => Aims(Append(b, x), d)
        /\ \A old, d : Turns(b, old, d) /\ Means(x, d) => Turns(Append(b, x), old, d)
    BY <1>2, WireAppends
  <2> QED
    BY <1>2, <2>1 DEF Exchange, Idle, Proposed, Answered, Confirmed, Turning, Stuck, Together, Ahead
<1>3. ASSUME a # <<>>, ~IsExchange(Head(a)) PROVE Exchange(p, s, Tail(a), b)
  <2>1. /\ Quiet(a) => Quiet(Tail(a))
        /\ \A k, d : Carries(a, k, d) => Head(a) = Message(k, d) \/ Carries(Tail(a), k, d)
    BY <1>3, WireTakes
  <2>2. \A d : Head(a) # Message("proposal", d) /\ Head(a) # Message("confirmed", d)
    BY <1>3 DEF IsExchange, Message
  <2> QED
    BY <2>1, <2>2 DEF Exchange, Idle, Proposed, Answered, Confirmed, Turning, Stuck
<1>4. ASSUME b # <<>>, ~IsExchange(Head(b)) PROVE Exchange(p, s, a, Tail(b))
  <2>1. /\ Quiet(b) => Quiet(Tail(b))
        /\ \A k, d : Carries(b, k, d) => Head(b) = Message(k, d) \/ Carries(Tail(b), k, d)
        /\ \A d : Aims(b, d) => Aims(Tail(b), d)
        /\ \A old, d : Turns(b, old, d) => Head(b) = Message("ready", d) \/ Turns(Tail(b), old, d)
    BY <1>4, WireTakes
  <2>2. \A d : Head(b) # Message("accepted", d) /\ Head(b) # Message("ready", d)
    BY <1>4 DEF IsExchange, Message
  <2> QED
    BY <2>1, <2>2 DEF Exchange, Idle, Proposed, Answered, Confirmed, Turning, Stuck
<1> QED
  BY <1>1, <1>2, <1>3, <1>4

\* The types of what a link holds.
LEMMA JointTypes ==
    ASSUME NEW p, NEW s, NEW a, NEW b, NEW q, NEW m, NEW on, Joint(p, s, a, b, q, m, on)
    PROVE  /\ p \in Publishers /\ s \in Subscribers
           /\ a \in Seq(FromPublisher) /\ b \in Seq(FromSubscriber) /\ q \in Seq(FrameRecords)
           /\ p.outbox \in Seq(FromPublisher) /\ s.outbox \in Seq(FromSubscriber)
           /\ a \o p.outbox \in Seq(FromPublisher) /\ b \o s.outbox \in Seq(FromSubscriber)
<1>1. p \in Publishers /\ s \in Subscribers
  BY DEF Joint
<1>2. p.outbox \in Seq(FromPublisher) /\ s.outbox \in Seq(FromSubscriber)
  BY <1>1 DEF Publishers, Subscribers
<1>3. a \in Seq(FromPublisher) /\ b \in Seq(FromSubscriber) /\ q \in Seq(FrameRecords)
  BY DEF Joint
<1> QED
  BY <1>1, <1>2, <1>3, PipeFacts

\* A publisher that changes nothing the agreement is about.
LEMMA PubKeeps ==
    ASSUME NEW p, NEW s, NEW a, NEW b, NEW q, NEW m, NEW on, Joint(p, s, a, b, q, m, on),
           NEW h \in Publishers, SamePublisher(p, h), h.outbox = p.outbox
    PROVE  Joint(h, s, a, b, q, m, on)
<1>1. on => Agreed(h, s, a \o h.outbox, b \o s.outbox, q, m)
  BY AgreedOfSame DEF Joint, SameSubscriber
<1> QED
  BY <1>1 DEF Joint

\* The same for the subscriber.
LEMMA SubKeeps ==
    ASSUME NEW p, NEW s, NEW a, NEW b, NEW q, NEW m, NEW on, Joint(p, s, a, b, q, m, on),
           NEW h \in Subscribers, SameSubscriber(s, h), h.outbox = s.outbox
    PROVE  Joint(p, h, a, b, q, m, on)
<1>1. on => Agreed(p, h, a \o p.outbox, b \o h.outbox, q, m)
  BY AgreedOfSame DEF Joint, SamePublisher
<1> QED
  BY <1>1 DEF Joint

\* The publisher queues a message that is not part of an exchange.
LEMMA PubSays ==
    ASSUME NEW p, NEW s, NEW a, NEW b, NEW q, NEW m, NEW on, Joint(p, s, a, b, q, m, on),
           NEW h \in Publishers, SamePublisher(p, h),
           NEW x \in FromPublisher, ~IsExchange(x), h.outbox = Append(p.outbox, x)
    PROVE  Joint(h, s, a, b, q, m, on)
<1>1. /\ a \in Seq(FromPublisher) /\ p.outbox \in Seq(FromPublisher)
      /\ a \o p.outbox \in Seq(FromPublisher) /\ b \o s.outbox \in Seq(FromSubscriber)
  BY JointTypes
<1>2. a \o h.outbox = Append(a \o p.outbox, x)
  <2>1. a \o Append(p.outbox, x) = Append(a \o p.outbox, x)
    BY <1>1, PipeFacts, SMTT(30)
  <2> QED
    BY <2>1, Zenon
<1>3. ASSUME on PROVE Agreed(h, s, a \o h.outbox, b \o s.outbox, q, m)
  <2>1. Agreed(p, s, a \o p.outbox, b \o s.outbox, q, m)
    BY <1>3 DEF Joint
  <2>2. Exchange(p, s, Append(a \o p.outbox, x), b \o s.outbox)
    BY <1>1, <2>1, ExchangePasses DEF Agreed
  <2>3. Agreed(p, s, a \o h.outbox, b \o s.outbox, q, m)
    BY <1>2, <2>1, <2>2 DEF Agreed
  <2> QED
    BY <2>3, AgreedOfSame DEF SameSubscriber
<1> QED
  BY <1>3 DEF Joint

\* The subscriber queues a message outside an activation, a command for its own session.
LEMMA SubSays ==
    ASSUME NEW p, NEW s, NEW a, NEW b, NEW q, NEW m, NEW on, Joint(p, s, a, b, q, m, on),
           NEW h \in Subscribers, SameSubscriber(s, h),
           NEW x \in FromSubscriber, ~IsExchange(x), Means(x, s.active), h.outbox = Append(s.outbox, x)
    PROVE  Joint(p, h, a, b, q, m, on)
<1>1. /\ b \in Seq(FromSubscriber) /\ s.outbox \in Seq(FromSubscriber)
      /\ a \o p.outbox \in Seq(FromPublisher) /\ b \o s.outbox \in Seq(FromSubscriber)
  BY JointTypes
<1>2. b \o h.outbox = Append(b \o s.outbox, x)
  <2>1. b \o Append(s.outbox, x) = Append(b \o s.outbox, x)
    BY <1>1, PipeFacts, SMTT(30)
  <2> QED
    BY <2>1, Zenon
<1>3. ASSUME on PROVE Agreed(p, h, a \o p.outbox, b \o h.outbox, q, m)
  <2>1. Agreed(p, s, a \o p.outbox, b \o s.outbox, q, m)
    BY <1>3 DEF Joint
  <2>2. Exchange(p, s, a \o p.outbox, Append(b \o s.outbox, x))
    BY <1>1, <2>1, ExchangePasses DEF Agreed
  <2>3. Agreed(p, s, a \o p.outbox, b \o h.outbox, q, m)
    BY <1>2, <2>1, <2>2 DEF Agreed
  <2> QED
    BY <2>3, AgreedOfSame DEF SamePublisher
<1> QED
  BY <1>3 DEF Joint

\* The first message of a pipe is taken, and is not part of an exchange.
LEMMA PubTakes ==
    ASSUME NEW p, NEW s, NEW a, NEW b, NEW q, NEW m, NEW on, Joint(p, s, a, b, q, m, on),
           b # <<>>, ~IsExchange(Head(b))
    PROVE  Joint(p, s, a, Tail(b), q, m, on)
<1>1. /\ b \in Seq(FromSubscriber) /\ s.outbox \in Seq(FromSubscriber) /\ Len(b) <= ControlRoom
      /\ a \o p.outbox \in Seq(FromPublisher) /\ b \o s.outbox \in Seq(FromSubscriber)
  BY JointTypes DEF Joint
<1>2. /\ b \o s.outbox # <<>> /\ Head(b \o s.outbox) = Head(b) /\ Tail(b \o s.outbox) = Tail(b) \o s.outbox
      /\ Tail(b) \in Seq(FromSubscriber) /\ Len(Tail(b)) <= ControlRoom
  BY <1>1, PipeFacts, Bounds, SMTT(30)
<1>3. ASSUME on PROVE Agreed(p, s, a \o p.outbox, Tail(b) \o s.outbox, q, m)
  <2>1. Agreed(p, s, a \o p.outbox, b \o s.outbox, q, m)
    BY <1>3 DEF Joint
  <2>2. Exchange(p, s, a \o p.outbox, Tail(b \o s.outbox))
    BY <1>1, <1>2, <2>1, ExchangePasses DEF Agreed
  <2> QED
    BY <1>2, <2>1, <2>2 DEF Agreed
<1> QED
  BY <1>2, <1>3 DEF Joint

\* The same for the subscriber.
LEMMA SubTakes ==
    ASSUME NEW p, NEW s, NEW a, NEW b, NEW q, NEW m, NEW on, Joint(p, s, a, b, q, m, on),
           a # <<>>, ~IsExchange(Head(a))
    PROVE  Joint(p, s, Tail(a), b, q, m, on)
<1>1. /\ a \in Seq(FromPublisher) /\ p.outbox \in Seq(FromPublisher) /\ Len(a) <= ControlRoom
      /\ a \o p.outbox \in Seq(FromPublisher) /\ b \o s.outbox \in Seq(FromSubscriber)
  BY JointTypes DEF Joint
<1>2. /\ a \o p.outbox # <<>> /\ Head(a \o p.outbox) = Head(a) /\ Tail(a \o p.outbox) = Tail(a) \o p.outbox
      /\ Tail(a) \in Seq(FromPublisher) /\ Len(Tail(a)) <= ControlRoom
  BY <1>1, PipeFacts, Bounds, SMTT(30)
<1>3. ASSUME on PROVE Agreed(p, s, Tail(a) \o p.outbox, b \o s.outbox, q, m)
  <2>1. Agreed(p, s, a \o p.outbox, b \o s.outbox, q, m)
    BY <1>3 DEF Joint
  <2>2. Exchange(p, s, Tail(a \o p.outbox), b \o s.outbox)
    BY <1>1, <1>2, <2>1, ExchangePasses DEF Agreed
  <2> QED
    BY <1>2, <2>1, <2>2 DEF Agreed
<1> QED
  BY <1>2, <1>3 DEF Joint

-----------------------------------------------------------------------------
(* Publisher.poll_control *)

\* The body of a message the subscriber sent.
LEMMA SubscriberMessages ==
    ASSUME NEW x \in FromSubscriber
    PROVE  /\ x.kind \in {"accepted", "ready"} => x.body \in Definitions
           /\ x.kind \in {"hello", "ping"} => x.body \in Nat
           /\ x.kind = "command" => x.body.command \in Commands /\ x.body.meant \in Definitions
  BY DEF FromSubscriber

\* The body of a message the publisher sent.
LEMMA PublisherMessages ==
    ASSUME NEW x \in FromPublisher
    PROVE  /\ x.kind \in {"proposal", "confirmed"} => x.body \in Definitions
           /\ x.kind \in {"hello", "pong"} => x.body \in Nat
  BY DEF FromPublisher

\* What a message is whose sender made it.
LEMMA MessageTypes ==
    /\ \A d \in Definitions : /\ Message("proposal", d) \in FromPublisher
                              /\ Message("confirmed", d) \in FromPublisher
                              /\ Message("accepted", d) \in FromSubscriber
                              /\ Message("ready", d) \in FromSubscriber
    /\ \A n \in Nat : /\ Message("hello", n) \in FromPublisher /\ Message("pong", n) \in FromPublisher
                      /\ Message("hello", n) \in FromSubscriber /\ Message("ping", n) \in FromSubscriber
    /\ \A c \in Commands, d \in Definitions :
         Message("command", [command |-> c, meant |-> d]) \in FromSubscriber
    /\ Message("geometry", None) \in FromSubscriber /\ Message("report", None) \in FromSubscriber
  BY DEF FromPublisher, FromSubscriber, Message

\* Which messages are outside an activation, and what a command is meant for.
LEMMA MessageKinds ==
    /\ \A n : ~IsExchange(Message("hello", n)) /\ ~IsExchange(Message("pong", n))
              /\ ~IsExchange(Message("ping", n)) /\ ~IsExchange(Message("command", n))
              /\ ~IsExchange(Message("geometry", n)) /\ ~IsExchange(Message("report", n))
    /\ \A n, d : Means(Message("hello", n), d) /\ Means(Message("ping", n), d)
                 /\ Means(Message("geometry", n), d) /\ Means(Message("report", n), d)
    /\ \A c, d : Means(Message("command", [command |-> c, meant |-> d]), d)
  BY DEF IsExchange, Means, Message

\* poll_control of the publisher on a hello, a ping, a report or a geometry request.
LEMMA PubOnPlain ==
    ASSUME NEW p, NEW s, NEW a, NEW b, NEW q, NEW m, NEW on, Joint(p, s, a, b, q, m, on), b # <<>>,
           NEW h,
           \/ Head(b).kind = "hello" /\ h = PubOnHello(p, Head(b).body)
           \/ Head(b).kind = "ping" /\ h = PubOnPing(p, Head(b).body)
           \/ Head(b).kind = "report" /\ h = PubOnReport(p, Head(b).body)
           \/ Head(b).kind = "geometry" /\ h = PubOnGeometry(p, Head(b).body)
    PROVE  Joint(h, s, a, Tail(b), q, m, on) /\ h.link = p.link
<1>1. /\ p \in Publishers /\ p.outbox \in Seq(FromPublisher) /\ Head(b) \in FromSubscriber
  BY JointTypes, HeadFacts
<1>2. Joint(p, s, a, Tail(b), q, m, on)
  BY PubTakes DEF IsExchange
<1>3. CASE Head(b).kind = "hello" /\ h = PubOnHello(p, Head(b).body)
  <2>1. h \in Publishers /\ SamePublisher(p, h) /\ h.outbox = p.outbox /\ h.link = p.link
    BY <1>1, <1>3 DEF PubOnHello, Publishers, SamePublisher
  <2> QED
    BY <1>2, <2>1, PubKeeps
<1>4. CASE Head(b).kind = "ping" /\ h = PubOnPing(p, Head(b).body)
  <2>1. PICK x : x = Message("pong", Head(b).body)
    OBVIOUS
  <2>2. x \in FromPublisher /\ ~IsExchange(x)
    BY <1>1, <1>4, <2>1, SubscriberMessages, MessageTypes, MessageKinds
  <2>3. CASE h = p
    BY <1>2, <2>3
  <2>4. CASE h = [p EXCEPT !.outbox = Append(@, x)]
    <3>1. PICK o \in Seq(FromPublisher) : o = Append(p.outbox, x)
      BY <1>1, <2>2, AppendedFacts
    <3>2. h \in Publishers /\ SamePublisher(p, h) /\ h.outbox = o /\ h.link = p.link
      BY <1>1, <2>4, <3>1 DEF Publishers, SamePublisher
    <3> QED
      BY <1>2, <2>2, <3>1, <3>2, PubSays
  <2> QED
    BY <1>4, <2>1, <2>3, <2>4 DEF PubOnPing, QueueControl
<1>5. CASE Head(b).kind = "report" /\ h = PubOnReport(p, Head(b).body)
  BY <1>2, <1>5 DEF PubOnReport
<1>6. CASE Head(b).kind = "geometry" /\ h = PubOnGeometry(p, Head(b).body)
  <2>1. h \in Publishers /\ SamePublisher(p, h) /\ h.outbox = p.outbox /\ h.link = p.link
    BY <1>1, <1>6 DEF PubOnGeometry, Publishers, SamePublisher
  <2> QED
    BY <1>2, <2>1, PubKeeps
<1> QED
  BY <1>3, <1>4, <1>5, <1>6

\* A command acts on the session it was sent for, or the activation has lost a message.
LEMMA PubOnCommands ==
    ASSUME NEW p, NEW s, NEW a, NEW b, NEW q, NEW m, NEW on, Joint(p, s, a, b, q, m, on), b # <<>>,
           Head(b).kind = "command", NEW h, h = PubOnCommand(p, Head(b).body)
    PROVE  Joint(h, s, a, Tail(b), q, m, on) /\ h.link = p.link
<1>1. /\ p \in Publishers /\ p.outbox \in Seq(FromPublisher) /\ Head(b) \in FromSubscriber
      /\ b \in Seq(FromSubscriber) /\ s.outbox \in Seq(FromSubscriber)
      /\ b \o s.outbox \in Seq(FromSubscriber)
  BY JointTypes, HeadFacts
<1>2. Joint(p, s, a, Tail(b), q, m, on) /\ ~IsExchange(Head(b))
  BY PubTakes DEF IsExchange
<1>3. CASE p.active = None
  BY <1>2, <1>3 DEF PubOnCommand
<1>4. CASE p.active # None
  <2>1. PICK c : c = Head(b).body /\ c.command \in Commands /\ c.meant \in Definitions
    BY <1>1, SubscriberMessages
  <2>2. h = [p EXCEPT !.playback = c.command, !.started = c.meant]
    BY <1>4, <2>1 DEF PubOnCommand
  <2>3. /\ h \in Publishers /\ h.link = p.link /\ h.outbox = p.outbox /\ h.started = c.meant
        /\ h.pending = p.pending /\ h.accepted = p.accepted /\ h.active = p.active
        /\ h.latest = p.latest /\ h.last = p.last
    BY <1>1, <2>1, <2>2 DEF Publishers, Sessions
  <2>4. ASSUME on PROVE Agreed(h, s, a \o h.outbox, Tail(b) \o s.outbox, q, m)
    <3>1. /\ Agreed(p, s, a \o p.outbox, b \o s.outbox, q, m)
          /\ Agreed(p, s, a \o p.outbox, Tail(b) \o s.outbox, q, m)
      BY <1>2, <2>4 DEF Joint
    <3>2. Exchange(h, s, a \o h.outbox, Tail(b) \o s.outbox)
      BY <2>3, <3>1, ExchangeOfSame DEF Agreed
    <3>3. InStep(h, s, q, m)
      BY <2>3, <3>1, InStepOfSame DEF Agreed
    <3>4. c.meant = p.active \/ p.pending \in s.stalled
      <4>1. b \o s.outbox # <<>> /\ Head(b \o s.outbox) = Head(b)
        BY <1>1, PipeFacts
      <4>2. \A d : Aims(b \o s.outbox, d) => Means(Head(b), d)
        BY <1>1, <4>1, WireTakes
      <4>3. \A old, d : Turns(b \o s.outbox, old, d) => Means(Head(b), old)
        <5>1. \A d : Head(b) # Message("ready", d)
          BY <1>2 DEF IsExchange, Message
        <5> QED
          BY <1>1, <4>1, <5>1, WireTakes
      <4>4. Exchange(p, s, a \o p.outbox, b \o s.outbox)
        BY <3>1 DEF Agreed
      <4>5. Means(Head(b), p.active) \/ p.pending \in s.stalled
        BY <4>2, <4>3, <4>4 DEF Exchange, Idle, Proposed, Answered, Confirmed, Turning, Stuck
      <4> QED
        BY <2>1, <4>5 DEF Means
    <3>5. Obeys(h, s)
      BY <2>3, <3>4 DEF Obeys
    <3> QED
      BY <3>1, <3>2, <3>3, <3>5 DEF Agreed
  <2>5. Joint(h, s, a, Tail(b), q, m, on)
    BY <1>2, <2>3, <2>4 DEF Joint
  <2> QED
    BY <2>3, <2>5
<1> QED
  BY <1>3, <1>4

\* The head of a wire tells where the activation stands.
LEMMA HeadTellsPublisher ==
    ASSUME NEW p, NEW s, NEW a \in Seq(FromPublisher), NEW b \in Seq(FromSubscriber),
           Exchange(p, s, a, b), b # <<>>
    PROVE  /\ Head(b).kind = "accepted" =>
                /\ Answered(p, s, a, b) /\ Head(b) = Message("accepted", p.pending)
                /\ Quiet(Tail(b)) /\ Aims(Tail(b), p.active)
           /\ Head(b).kind = "ready" =>
                /\ Turning(p, s, a, b) /\ Head(b) = Message("ready", p.pending)
                /\ Quiet(Tail(b)) /\ Aims(Tail(b), p.pending)
<1>1. /\ Quiet(b) => ~IsExchange(Head(b))
      /\ \A k, d : Carries(b, k, d) => (Head(b) = Message(k, d) /\ Quiet(Tail(b))) \/ ~IsExchange(Head(b))
      /\ \A d : Aims(b, d) => Aims(Tail(b), d)
      /\ \A old, d : Turns(b, old, d) =>
           (Head(b) = Message("ready", d) /\ Quiet(Tail(b)) /\ Aims(Tail(b), d)) \/ ~IsExchange(Head(b))
  BY WireTakes
<1>2. Head(b).kind \in {"accepted", "ready"} => IsExchange(Head(b))
  BY DEF IsExchange
<1>3. \A d : Message("accepted", d).kind = "accepted" /\ Message("ready", d).kind = "ready"
  BY DEF Message
<1> QED
  BY <1>1, <1>2, <1>3 DEF Exchange, Idle, Proposed, Answered, Confirmed, Turning, Stuck

\* A proposal or a confirmation at the head tells the subscriber where the activation stands.
LEMMA HeadTellsSubscriber ==
    ASSUME NEW p, NEW s, NEW a \in Seq(FromPublisher), NEW b \in Seq(FromSubscriber),
           Exchange(p, s, a, b), a # <<>>
    PROVE  /\ Head(a).kind = "proposal" =>
                /\ Proposed(p, s, a, b) /\ Head(a) = Message("proposal", p.pending) /\ Quiet(Tail(a))
           /\ Head(a).kind = "confirmed" =>
                /\ Confirmed(p, s, a, b) /\ Head(a) = Message("confirmed", p.pending) /\ Quiet(Tail(a))
<1>1. /\ Quiet(a) => ~IsExchange(Head(a))
      /\ \A k, d : Carries(a, k, d) => (Head(a) = Message(k, d) /\ Quiet(Tail(a))) \/ ~IsExchange(Head(a))
  BY WireTakes
<1>2. Head(a).kind \in {"proposal", "confirmed"} => IsExchange(Head(a))
  BY DEF IsExchange
<1>3. \A d : Message("proposal", d).kind = "proposal" /\ Message("confirmed", d).kind = "confirmed"
  BY DEF Message
<1> QED
  BY <1>1, <1>2, <1>3 DEF Exchange, Idle, Proposed, Answered, Confirmed, Turning, Stuck

\* poll_control of the publisher on LayoutAccepted, with room in the outbox or without.
LEMMA PubOnAcceptance ==
    ASSUME NEW p, NEW s, NEW a, NEW b, NEW q, NEW m, NEW on, Joint(p, s, a, b, q, m, on), b # <<>>,
           Head(b).kind = "accepted", NEW h, h = PubOnAccepted(p, Head(b).body)
    PROVE  Joint(h, s, a, Tail(b), q, m, on) /\ h.link = p.link
<1>1. /\ p \in Publishers /\ p.outbox \in Seq(FromPublisher) /\ Head(b) \in FromSubscriber
      /\ b \in Seq(FromSubscriber) /\ s.outbox \in Seq(FromSubscriber) /\ a \in Seq(FromPublisher)
      /\ b \o s.outbox \in Seq(FromSubscriber) /\ a \o p.outbox \in Seq(FromPublisher)
      /\ Len(b) <= ControlRoom
  BY JointTypes, HeadFacts DEF Joint
<1>2. PICK d \in Definitions : d = Head(b).body
  BY <1>1, SubscriberMessages
<1>3. PICK x \in FromPublisher : x = Message("confirmed", d)
  BY MessageTypes
<1>4. PICK o \in Seq(FromPublisher) : o = Append(p.outbox, x)
  BY <1>1, AppendedFacts
<1>5. \/ h = p /\ (p.accepted \/ p.pending # d)
      \/ h = [p EXCEPT !.accepted = TRUE, !.outbox = o]
      \/ h = [p EXCEPT !.stalled = @ \cup {d}]
  <2>1. PICK r : r = [p EXCEPT !.accepted = TRUE]
    OBVIOUS
  <2>2. r.outbox = p.outbox
    BY <1>1, <2>1 DEF Publishers
  <2>3. [r EXCEPT !.outbox = Append(@, x)] = [p EXCEPT !.accepted = TRUE, !.outbox = o]
    BY <1>1, <1>4, <2>1, <2>2 DEF Publishers
  <2> QED
    BY <1>2, <1>3, <2>1, <2>3 DEF PubOnAccepted, QueueControl
<1>6. /\ h \in Publishers /\ h.link = p.link
      /\ h.pending = p.pending /\ h.active = p.active /\ h.latest = p.latest /\ h.last = p.last
      /\ h.playback = p.playback /\ h.started = p.started
      /\ \/ h = p /\ (p.accepted \/ p.pending # d)
         \/ h.accepted = TRUE /\ h.outbox = o
         \/ h.accepted = p.accepted /\ h.outbox = p.outbox
  <2>1. CASE h = p /\ (p.accepted \/ p.pending # d)
    BY <1>1, <2>1
  <2>2. CASE h = [p EXCEPT !.accepted = TRUE, !.outbox = o]
    BY <1>1, <2>2 DEF Publishers
  <2>3. CASE h = [p EXCEPT !.stalled = @ \cup {d}]
    BY <1>1, <2>3, SMTT(30) DEF Publishers
  <2> QED
    BY <1>5, <2>1, <2>2, <2>3
<1>7. /\ b \o s.outbox # <<>> /\ Head(b \o s.outbox) = Head(b) /\ Tail(b \o s.outbox) = Tail(b) \o s.outbox
      /\ Tail(b) \in Seq(FromSubscriber) /\ Len(Tail(b)) <= ControlRoom
  BY <1>1, PipeFacts, Bounds, SMTT(30)
<1>8. ASSUME on PROVE Agreed(h, s, a \o h.outbox, Tail(b) \o s.outbox, q, m)
  <2>1. Agreed(p, s, a \o p.outbox, b \o s.outbox, q, m)
    BY <1>8 DEF Joint
  <2>2. /\ Answered(p, s, a \o p.outbox, b \o s.outbox) /\ Head(b) = Message("accepted", p.pending)
        /\ Quiet(Tail(b) \o s.outbox) /\ Aims(Tail(b) \o s.outbox, p.active)
    BY <1>1, <1>7, <2>1, HeadTellsPublisher DEF Agreed
  <2>3. d = p.pending /\ ~p.accepted
    BY <1>2, <2>2 DEF Answered, Message
  <2>4. CASE h.accepted = TRUE /\ h.outbox = o
    <3>1. a \o h.outbox = Append(a \o p.outbox, x)
      <4>1. a \o o = Append(a \o p.outbox, x)
        BY <1>1, <1>4, PipePushes
      <4> QED
        BY <2>4, <4>1, Zenon
    <3>2. Carries(Append(a \o p.outbox, x), "confirmed", d)
      BY <1>1, <1>3, <2>2, WireStarts DEF Answered
    <3>3. Confirmed(h, s, a \o h.outbox, Tail(b) \o s.outbox)
      BY <1>6, <2>2, <2>3, <2>4, <3>1, <3>2 DEF Answered, Confirmed, Together
    <3> QED
      BY <1>6, <2>1, <3>3, InStepOfSame DEF Agreed, Exchange, Obeys
  <2>5. CASE h.accepted = p.accepted /\ h.outbox = p.outbox
    <3>1. Stuck(h, s, a \o h.outbox, Tail(b) \o s.outbox)
      BY <1>6, <2>2, <2>5 DEF Answered, Stuck, Together
    <3> QED
      BY <1>6, <2>1, <3>1, InStepOfSame DEF Agreed, Exchange, Obeys
  <2> QED
    BY <1>6, <2>3, <2>4, <2>5
<1>9. Joint(h, s, a, Tail(b), q, m, on)
  BY <1>6, <1>7, <1>8 DEF Joint
<1> QED
  BY <1>6, <1>9

\* While the subscriber leads, generations that grow keep the two sessions apart.
LEMMA AheadApart ==
    ASSUME NEW p, NEW s, s.past \in Seq(Definitions), Ahead(p, s), s.active = LastOf(s.past),
           Growing(s.past)
    PROVE  ~Together(p, s)
<1>1. PICK past \in Seq(Definitions) : past = s.past
  OBVIOUS
<1>2. PICK n \in Nat : n = Len(past) /\ n > 0
  BY <1>1 DEF Ahead
<1>3. s.active = past[n] /\ past[n] \in Definitions
  BY <1>1, <1>2 DEF LastOf
<1>4. CASE n > 1
  <2>1. p.active = past[n - 1] /\ past[n - 1] \in Definitions
    BY <1>1, <1>2, <1>4 DEF Ahead, BeforeLast
  <2>2. past[n - 1].generation < past[n].generation
    BY <1>1, <1>2, <1>4 DEF Growing
  <2>3. past[n].generation \in Nat
    BY <1>3, NtpAssumption
  <2>4. past[n - 1] # past[n]
    BY <2>2, <2>3
  <2> QED
    BY <1>3, <2>1, <2>4 DEF Together
<1>5. CASE n = 1
  BY <1>1, <1>2, <1>3, <1>5, NtpAssumption DEF Ahead, BeforeLast, Together
<1> QED
  BY <1>2, <1>4, <1>5

\* poll_control of the publisher on SessionReady: the two sides come together.
LEMMA PubOnReadiness ==
    ASSUME NEW p, NEW s, NEW a, NEW b, NEW q, NEW m, NEW on, Joint(p, s, a, b, q, m, on), b # <<>>,
           Head(b).kind = "ready", NEW h, h = PubOnReady(p, Head(b).body)
    PROVE  Joint(h, s, a, Tail(b), q, m, on) /\ h.link = p.link
<1>1. /\ p \in Publishers /\ p.outbox \in Seq(FromPublisher) /\ Head(b) \in FromSubscriber
      /\ b \in Seq(FromSubscriber) /\ s.outbox \in Seq(FromSubscriber) /\ a \in Seq(FromPublisher)
      /\ b \o s.outbox \in Seq(FromSubscriber) /\ a \o p.outbox \in Seq(FromPublisher)
      /\ Len(b) <= ControlRoom /\ s \in Subscribers
  BY JointTypes, HeadFacts DEF Joint
<1>2. PICK d \in Definitions : d = Head(b).body
  BY <1>1, SubscriberMessages
<1>3. \/ h = p /\ (~p.accepted \/ p.pending # d)
      \/ h = [p EXCEPT !.pending = None, !.accepted = FALSE, !.active = d, !.last = 0,
                       !.playback = "Paused"]
  BY <1>2 DEF PubOnReady
<1>4. /\ h \in Publishers /\ h.link = p.link /\ h.outbox = p.outbox /\ h.latest = p.latest
      /\ \/ h = p /\ (~p.accepted \/ p.pending # d)
         \/ /\ h.pending = None /\ h.accepted = FALSE /\ h.active = d /\ h.last = 0
            /\ h.playback = "Paused"
  <2>1. CASE h = p /\ (~p.accepted \/ p.pending # d)
    BY <1>1, <2>1
  <2>2. CASE h = [p EXCEPT !.pending = None, !.accepted = FALSE, !.active = d, !.last = 0,
                           !.playback = "Paused"]
    <3>1. d \in Sessions /\ None \in Sessions /\ "Paused" \in Commands /\ 0 \in Nat
      BY DEF Sessions, Commands
    <3>2. h \in Publishers
      BY <1>1, <2>2, <3>1, ZenonT(60) DEF Publishers
    <3>3. h.link = p.link /\ h.outbox = p.outbox /\ h.latest = p.latest
      BY <1>1, <2>2 DEF Publishers
    <3>4. /\ h.pending = None /\ h.accepted = FALSE /\ h.active = d /\ h.last = 0
          /\ h.playback = "Paused"
      BY <1>1, <2>2 DEF Publishers
    <3> QED
      BY <3>2, <3>3, <3>4
  <2> QED
    BY <1>3, <2>1, <2>2
<1>5. /\ b \o s.outbox # <<>> /\ Head(b \o s.outbox) = Head(b) /\ Tail(b \o s.outbox) = Tail(b) \o s.outbox
      /\ Tail(b) \in Seq(FromSubscriber) /\ Len(Tail(b)) <= ControlRoom
  BY <1>1, PipeFacts, Bounds, SMTT(30)
<1>6. ASSUME on PROVE Agreed(h, s, a \o h.outbox, Tail(b) \o s.outbox, q, m)
  <2>1. Agreed(p, s, a \o p.outbox, b \o s.outbox, q, m)
    BY <1>6 DEF Joint
  <2>2. /\ Turning(p, s, a \o p.outbox, b \o s.outbox) /\ Head(b) = Message("ready", p.pending)
        /\ Quiet(Tail(b) \o s.outbox) /\ Aims(Tail(b) \o s.outbox, p.pending)
    BY <1>1, <1>5, <2>1, HeadTellsPublisher DEF Agreed
  <2>3. d = p.pending /\ p.accepted /\ d = s.active /\ Ahead(p, s)
    BY <1>2, <2>2 DEF Turning, Ahead, Message
  <2>4. /\ h.pending = None /\ h.accepted = FALSE /\ h.active = d /\ h.last = 0
        /\ h.playback = "Paused"
    BY <1>4, <2>3
  <2>5. Idle(h, s, a \o h.outbox, Tail(b) \o s.outbox)
    BY <1>4, <2>2, <2>3, <2>4 DEF Idle, Turning, Together
  <2>6. Carried(h, s, q) = Carried(p, s, q)
    BY <1>4 DEF Carried
  <2>7. ASSUME m = "ReliableLatestOnly", Growing(s.past) PROVE Honest(h, s, q)
    <3>1. s.past \in Seq(Definitions)
      BY <1>1 DEF Subscribers
    <3>2. ~Together(p, s)
      BY <2>1, <2>3, <2>7, <3>1, AheadApart DEF Agreed
    <3>3. Honest(p, s, q)
      BY <2>1, <2>7 DEF Agreed, InStep
    <3> QED
      BY <1>4, <2>3, <2>4, <2>6, <3>2, <3>3 DEF Honest, Together
  <2>8. InStep(h, s, q, m)
    BY <2>1, <2>6, <2>7 DEF Agreed, InStep, Known
  <2> QED
    BY <2>1, <2>4, <2>5, <2>8 DEF Agreed, Exchange, Obeys
<1>7. Joint(h, s, a, Tail(b), q, m, on)
  BY <1>4, <1>5, <1>6 DEF Joint
<1> QED
  BY <1>4, <1>7

\* publish_descriptor: nothing is pending, so nothing of an exchange is on its way.
LEMMA PubProposes ==
    ASSUME NEW p, NEW s, NEW a, NEW b, NEW q, NEW m, NEW on, Joint(p, s, a, b, q, m, on),
           NEW d \in Definitions, p.pending = None,
           NEW h \in Publishers, h.pending = d, h.accepted = FALSE, h.active = p.active,
           h.playback = p.playback, h.started = p.started, h.latest = p.latest, h.last = p.last,
           h.outbox = Append(p.outbox, Message("proposal", d))
    PROVE  Joint(h, s, a, b, q, m, on)
<1>1. /\ p \in Publishers /\ p.outbox \in Seq(FromPublisher)
      /\ b \in Seq(FromSubscriber) /\ s.outbox \in Seq(FromSubscriber) /\ a \in Seq(FromPublisher)
      /\ b \o s.outbox \in Seq(FromSubscriber) /\ a \o p.outbox \in Seq(FromPublisher)
      /\ s \in Subscribers
  BY JointTypes
<1>2. PICK x \in FromPublisher : x = Message("proposal", d)
  BY MessageTypes
<1>3. a \o h.outbox = Append(a \o p.outbox, x)
  <2>1. a \o Append(p.outbox, x) = Append(a \o p.outbox, x)
    BY <1>1, PipeFacts, SMTT(60)
  <2> QED
    BY <1>2, <2>1, Zenon
<1>4. ASSUME on PROVE Agreed(h, s, a \o h.outbox, b \o s.outbox, q, m)
  <2>1. Agreed(p, s, a \o p.outbox, b \o s.outbox, q, m)
    BY <1>4 DEF Joint
  <2>2. Idle(p, s, a \o p.outbox, b \o s.outbox)
    BY <2>1 DEF Agreed, Exchange, Proposed, Answered, Confirmed, Turning, Stuck
  <2>3. Carries(Append(a \o p.outbox, x), "proposal", d)
    BY <1>1, <1>2, <2>2, WireStarts DEF Idle
  <2>4. d # None
    BY NtpAssumption
  <2>5. Proposed(h, s, a \o h.outbox, b \o s.outbox)
    BY <1>3, <2>2, <2>3, <2>4 DEF Idle, Proposed, Together
  <2>6. s.stalled \subseteq Definitions
    BY <1>1 DEF Subscribers
  <2>7. Obeys(h, s)
    BY <2>1, <2>6, NtpAssumption DEF Agreed, Obeys
  <2> QED
    BY <2>1, <2>5, <2>7, InStepOfSame DEF Agreed, Exchange
<1> QED
  BY <1>4 DEF Joint

-----------------------------------------------------------------------------
(* Subscriber.poll_control *)

\* poll_control of the subscriber on a hello or a pong.
LEMMA SubOnPlain ==
    ASSUME NEW p, NEW s, NEW a, NEW b, NEW q, NEW m, NEW on, Joint(p, s, a, b, q, m, on), a # <<>>,
           NEW h,
           \/ Head(a).kind = "hello" /\ h \in SubOnHello(s, Head(a).body)
           \/ Head(a).kind = "pong" /\ h \in SubOnPong(s, Head(a).body)
    PROVE  Joint(p, h, Tail(a), b, q, m, on) /\ h.link = s.link
<1>1. s \in Subscribers
  BY JointTypes
<1>2. Joint(p, s, Tail(a), b, q, m, on)
  BY SubTakes DEF IsExchange
<1>3. h = s \/ h = [s EXCEPT !.hello = TRUE] \/ h = [s EXCEPT !.ping = 0]
  BY DEF SubOnHello, SubOnPong
<1>4. h \in Subscribers /\ SameSubscriber(s, h) /\ h.outbox = s.outbox /\ h.link = s.link
  <2>1. CASE h = s
    BY <1>1, <2>1 DEF SameSubscriber
  <2>2. CASE h = [s EXCEPT !.hello = TRUE]
    BY <1>1, <2>2 DEF Subscribers, SameSubscriber
  <2>3. CASE h = [s EXCEPT !.ping = 0]
    BY <1>1, <2>3 DEF Subscribers, SameSubscriber
  <2> QED
    BY <1>3, <2>1, <2>2, <2>3
<1> QED
  BY <1>2, <1>4, SubKeeps

\* What a subscriber is after note_reconfigure.
LEMMA SubCharged ==
    ASSUME NEW s \in Subscribers, NEW c, c = NoteReconfigure(s)
    PROVE  c \in Subscribers /\ SameSubscriber(s, c) /\ c.outbox = s.outbox /\ c.link = s.link
<1>1. CASE c = s
  BY <1>1 DEF SameSubscriber
<1>2. CASE c = [s EXCEPT !.reconfigured = @ + 1]
  BY <1>2, SMTT(60) DEF Subscribers, SameSubscriber
<1> QED
  BY <1>1, <1>2 DEF NoteReconfigure

\* poll_control of the subscriber on a proposal, taken, refused or lost to a full outbox.
LEMMA SubOnProposals ==
    ASSUME NEW p, NEW s, NEW a, NEW b, NEW q, NEW m, NEW on, Joint(p, s, a, b, q, m, on), a # <<>>,
           Head(a).kind = "proposal", NEW h \in SubOnProposal(s, Head(a).body)
    PROVE  Joint(p, h, Tail(a), b, q, m, on) /\ h.link = s.link
<1>1. /\ p \in Publishers /\ p.outbox \in Seq(FromPublisher) /\ Head(a) \in FromPublisher
      /\ b \in Seq(FromSubscriber) /\ s.outbox \in Seq(FromSubscriber) /\ a \in Seq(FromPublisher)
      /\ b \o s.outbox \in Seq(FromSubscriber) /\ a \o p.outbox \in Seq(FromPublisher)
      /\ Len(a) <= ControlRoom /\ s \in Subscribers
  BY JointTypes, HeadFacts DEF Joint
<1>2. PICK d \in Definitions : d = Head(a).body
  BY <1>1, PublisherMessages
<1>3. PICK x \in FromSubscriber : x = Message("accepted", d)
  BY MessageTypes
<1>4. PICK c : c = NoteReconfigure(s)
  OBVIOUS
<1>5. c \in Subscribers /\ SameSubscriber(s, c) /\ c.outbox = s.outbox /\ c.link = s.link
  BY <1>1, <1>4, SubCharged
<1>6. PICK o \in Seq(FromSubscriber) : o = Append(s.outbox, x)
  BY <1>1, AppendedFacts
<1>7. \/ h = [s EXCEPT !.stalled = @ \cup {d}]
      \/ h = [c EXCEPT !.stalled = @ \cup {d}]
      \/ h = [c EXCEPT !.pending = d, !.outbox = o]
  <2>1. PICK r : r = [c EXCEPT !.pending = d]
    OBVIOUS
  <2>2. r.outbox = s.outbox
    BY <1>5, <2>1 DEF Subscribers
  <2>3. [r EXCEPT !.outbox = Append(@, x)] = [c EXCEPT !.pending = d, !.outbox = o]
    BY <1>5, <1>6, <2>1, <2>2 DEF Subscribers
  <2> QED
    BY <1>2, <1>3, <1>4, <2>1, <2>3 DEF SubOnProposal, QueueControl
<1>8. /\ h \in Subscribers /\ h.link = s.link
      /\ h.active = s.active /\ h.past = s.past /\ h.latest = s.latest /\ h.done = s.done
      /\ h.late = s.late /\ h.violations = s.violations
      /\ \/ h.pending = s.pending /\ h.outbox = s.outbox /\ h.stalled = s.stalled \cup {d}
         \/ h.pending = d /\ h.outbox = o /\ h.stalled = s.stalled
  <2>1. CASE h = [s EXCEPT !.stalled = @ \cup {d}]
    BY <1>1, <2>1 DEF Subscribers
  <2>2. CASE h = [c EXCEPT !.stalled = @ \cup {d}]
    BY <1>5, <2>2 DEF Subscribers, SameSubscriber
  <2>3. CASE h = [c EXCEPT !.pending = d, !.outbox = o]
    <3>1. d \in Sessions
      BY DEF Sessions
    <3> QED
      BY <1>5, <2>3, <3>1 DEF Subscribers, SameSubscriber
  <2> QED
    BY <1>7, <2>1, <2>2, <2>3
<1>9. /\ a \o p.outbox # <<>> /\ Head(a \o p.outbox) = Head(a) /\ Tail(a \o p.outbox) = Tail(a) \o p.outbox
      /\ Tail(a) \in Seq(FromPublisher) /\ Len(Tail(a)) <= ControlRoom
  BY <1>1, PipeFacts, Bounds, SMTT(30)
<1>10. ASSUME on PROVE Agreed(p, h, Tail(a) \o p.outbox, b \o h.outbox, q, m)
  <2>1. Agreed(p, s, a \o p.outbox, b \o s.outbox, q, m)
    BY <1>10 DEF Joint
  <2>2. /\ Proposed(p, s, a \o p.outbox, b \o s.outbox) /\ Head(a) = Message("proposal", p.pending)
        /\ Quiet(Tail(a) \o p.outbox)
    BY <1>1, <1>9, <2>1, HeadTellsSubscriber DEF Agreed
  <2>3. d = p.pending
    BY <1>2, <2>2 DEF Message
  <2>4. InStep(p, h, q, m)
    BY <1>8, <2>1, InStepOfSame DEF Agreed
  <2>5. h.active = LastOf(h.past) /\ Obeys(p, h)
    BY <1>8, <2>1 DEF Agreed, Obeys
  <2>6. Exchange(p, h, Tail(a) \o p.outbox, b \o h.outbox)
    <3>1. CASE h.pending = s.pending /\ h.outbox = s.outbox
      BY <1>8, <2>2, <3>1 DEF Exchange, Proposed, Stuck, Together
    <3>2. CASE h.pending = d /\ h.outbox = o
      <4>1. b \o o = Append(b \o s.outbox, x)
        BY <1>1, <1>6, PipePushes
      <4>2. Carries(Append(b \o s.outbox, x), "accepted", d)
        BY <1>1, <1>3, <2>2, WireStarts DEF Proposed
      <4>3. Aims(Append(b \o s.outbox, x), p.active)
        BY <1>1, <1>3, <2>2, WireStarts DEF Proposed
      <4> QED
        BY <1>8, <2>2, <2>3, <3>2, <4>1, <4>2, <4>3 DEF Exchange, Proposed, Answered, Together
    <3> QED
      BY <1>8, <3>1, <3>2
  <2> QED
    BY <2>4, <2>5, <2>6 DEF Agreed
<1>11. Joint(p, h, Tail(a), b, q, m, on)
  BY <1>8, <1>9, <1>10 DEF Joint
<1> QED
  BY <1>8, <1>11

\* A session that grows the generations is new to every frame on its way.
LEMMA GrowsApart ==
    ASSUME NEW past \in Seq(Definitions), NEW d \in Definitions, NEW more, more = Append(past, d)
    PROVE  /\ more \in Seq(Definitions) /\ Len(more) = Len(past) + 1 /\ Len(past) \in Nat
           /\ LastOf(more) = d /\ BeforeLast(more) = LastOf(past)
           /\ ToSet(past) \subseteq ToSet(more)
           /\ Growing(more) => Growing(past) /\ d \notin ToSet(past)
<1>1. /\ more \in Seq(Definitions) /\ Len(more) = Len(past) + 1 /\ Len(past) \in Nat
      /\ more[Len(past) + 1] = d
      /\ \A i \in 1 .. Len(past) : more[i] = past[i] /\ past[i] \in Definitions
      /\ DOMAIN more = 1 .. Len(past) + 1 /\ DOMAIN past = 1 .. Len(past)
  OBVIOUS
<1>2. LastOf(more) = d /\ BeforeLast(more) = LastOf(past)
  <2>1. PICK n \in Nat : n = Len(past) /\ Len(more) = n + 1
    BY <1>1
  <2>2. n + 1 > 0 /\ (n + 1 > 1 <=> n > 0) /\ (n + 1) - 1 = n
    BY <2>1
  <2>a. more[n + 1] = d
    BY <1>1, <2>1
  <2>3. LastOf(more) = d
    <3>1. Len(more) > 0
      BY <2>1
    <3>2. more[Len(more)] = d
      BY <2>1, <2>a, Zenon
    <3> QED
      BY <3>1, <3>2, Zenon DEF LastOf
  <2>4. n > 0 => more[n] = past[n]
    <3>1. n > 0 => n \in 1 .. n
      BY <2>1
    <3>2. \A i \in 1 .. n : more[i] = past[i]
      BY <1>1, <2>1, Zenon
    <3> QED
      BY <3>1, <3>2, Zenon
  <2>5. BeforeLast(more) = LastOf(past)
    <3>1. Len(more) - 1 = n /\ (Len(more) > 1 <=> n > 0)
      BY <2>1, <2>2
    <3>2. BeforeLast(more) = IF n > 0 THEN more[n] ELSE None
      BY <3>1, Zenon DEF BeforeLast
    <3>3. LastOf(past) = IF n > 0 THEN past[n] ELSE None
      BY <2>1, Zenon DEF LastOf
    <3> QED
      BY <2>4, <3>2, <3>3, Zenon
  <2> QED
    BY <2>3, <2>5
<1>3. ToSet(past) \subseteq ToSet(more)
  BY <1>1 DEF ToSet
<1>4. ASSUME Growing(more) PROVE Growing(past) /\ d \notin ToSet(past)
  <2>1. Growing(past)
    BY <1>1, <1>4 DEF Growing
  <2>2. \A i \in 1 .. Len(past) : past[i].generation < d.generation
    BY <1>1, <1>4 DEF Growing
  <2>3. d.generation \in Nat
    BY NtpAssumption
  <2>4. \A i \in 1 .. Len(past) : past[i] # d
    BY <2>2, <2>3
  <2> QED
    BY <1>1, <2>1, <2>4 DEF ToSet
<1> QED
  BY <1>1, <1>2, <1>3, <1>4

\* The session the subscriber takes up is not that of any frame on its way.
LEMMA TurnsInStep ==
    ASSUME NEW p \in Publishers, NEW s \in Subscribers, NEW h, NEW d \in Definitions, NEW q, NEW m,
           InStep(p, s, q, m), Together(p, s), s.active = LastOf(s.past),
           h.active = d, h.past = Append(s.past, d), h.latest = s.latest,
           \A w \in FlowSet : h.done[w] = 0,
           h.late = s.late, h.violations = s.violations
    PROVE  InStep(p, h, q, m)
<1>1. s.past \in Seq(Definitions) /\ p.last \in Nat
  BY DEF Subscribers, Publishers
<1>2. /\ ToSet(s.past) \subseteq ToSet(h.past)
      /\ Growing(h.past) => Growing(s.past) /\ d \notin ToSet(s.past)
  <2>1. PICK past \in Seq(Definitions) : past = s.past
    BY <1>1
  <2>2. PICK more : more = Append(past, d)
    OBVIOUS
  <2>3. h.past = more
    BY <2>1, <2>2
  <2>4. ToSet(past) \subseteq ToSet(more) /\ (Growing(more) => Growing(past) /\ d \notin ToSet(past))
    BY <2>2, GrowsApart
  <2> QED
    BY <2>1, <2>3, <2>4
<1>3. Carried(p, h, q) = Carried(p, s, q)
  BY DEF Carried
<1>4. \A f \in Carried(p, s, q) : f.def \in ToSet(s.past)
  BY DEF InStep, Known
<1>5. Known(p, h, q)
  BY <1>2, <1>3, <1>4 DEF Known
<1>6. ASSUME m = "ReliableLatestOnly", Growing(h.past) PROVE Honest(p, h, q)
  <2>1. Honest(p, s, q) /\ d \notin ToSet(s.past)
    BY <1>2, <1>6 DEF InStep
  <2>2. \A f \in Carried(p, h, q) : f.def # h.active /\ (f.def = p.active => f.sequence <= p.last)
    BY <1>3, <1>4, <2>1 DEF Honest
  <2>3. \A w \in FlowSet : h.done[w] <= IF Together(p, h) THEN p.last ELSE 0
    BY <1>1
  <2> QED
    BY <2>1, <2>2, <2>3 DEF Honest
<1> QED
  BY <1>5, <1>6 DEF InStep

\* poll_control of the subscriber on a confirmation: it activates, or drops what is pending.
LEMMA SubOnConfirmation ==
    ASSUME NEW p, NEW s, NEW a, NEW b, NEW q, NEW m, NEW on, Joint(p, s, a, b, q, m, on), a # <<>>,
           Head(a).kind = "confirmed", NEW h \in SubOnConfirmed(s, Head(a).body)
    PROVE  Joint(p, h, Tail(a), b, q, m, on) /\ h.link = s.link
<1>1. /\ p \in Publishers /\ p.outbox \in Seq(FromPublisher) /\ Head(a) \in FromPublisher
      /\ b \in Seq(FromSubscriber) /\ s.outbox \in Seq(FromSubscriber) /\ a \in Seq(FromPublisher)
      /\ b \o s.outbox \in Seq(FromSubscriber) /\ a \o p.outbox \in Seq(FromPublisher)
      /\ Len(a) <= ControlRoom /\ s \in Subscribers
  BY JointTypes, HeadFacts DEF Joint
<1>2. PICK d \in Definitions : d = Head(a).body
  BY <1>1, PublisherMessages
<1>3. PICK x \in FromSubscriber : x = Message("ready", d)
  BY MessageTypes
<1>4. PICK o \in Seq(FromSubscriber) : o = Append(s.outbox, x)
  BY <1>1, AppendedFacts
<1>5. /\ s.past \in Seq(Definitions) /\ s.done \in [FlowSet -> Nat] /\ s.pending \in Sessions
      /\ s.stalled \subseteq Definitions
  BY <1>1 DEF Subscribers
<1>6. PICK more \in Seq(Definitions) : more = Append(s.past, d)
  BY <1>5, AppendedFacts
<1>7. PICK zero \in [FlowSet -> Nat] : zero = [w \in FlowSet |-> 0]
  OBVIOUS
<1> DEFINE act == [s EXCEPT !.pending = None, !.active = d, !.past = more, !.done = zero]
<1>8. \/ h = s /\ s.pending = None
      \/ s.pending # None /\ h = [s EXCEPT !.pending = None, !.stalled = @ \cup {d}]
      \/ s.pending = d /\ h = [act EXCEPT !.outbox = o]
      \/ s.pending = d /\ h = [act EXCEPT !.stalled = @ \cup {d}]
  <2>1. ASSUME s.pending = d
        PROVE  [s EXCEPT !.pending = None, !.active = s.pending, !.past = Append(@, s.pending),
                         !.done = [f \in DOMAIN @ |-> 0]] = act
    <3>1. DOMAIN s.done = FlowSet
      BY <1>5
    <3> QED
      BY <1>6, <1>7, <2>1, <3>1, Zenon
  <2>2. act.outbox = s.outbox
    BY <1>1 DEF Subscribers
  <2> HIDE DEF act
  <2>3. [act EXCEPT !.outbox = Append(@, x)] = [act EXCEPT !.outbox = o]
    BY <1>4, <2>2
  <2>4. CASE s.pending = None
    BY <2>4 DEF SubOnConfirmed
  <2>5. CASE s.pending # None
    <3>1. PICK taken \in BOOLEAN :
            h = IF taken /\ d = s.pending
                THEN QueueControl(
                       [s EXCEPT !.pending = None, !.active = s.pending, !.past = Append(@, s.pending),
                                 !.done = [f \in DOMAIN @ |-> 0]],
                       [[s EXCEPT !.pending = None, !.active = s.pending, !.past = Append(@, s.pending),
                                 !.done = [f \in DOMAIN @ |-> 0]] EXCEPT !.stalled = @ \cup {d}], x)
                ELSE [s EXCEPT !.pending = None, !.stalled = @ \cup {d}]
      BY <1>2, <1>3, <2>5, Zenon DEF SubOnConfirmed, Negotiations
    <3>2. CASE taken /\ d = s.pending
      <4>1. h = QueueControl(act, [act EXCEPT !.stalled = @ \cup {d}], x)
        BY <2>1, <3>1, <3>2, Zenon
      <4> QED
        BY <2>3, <3>2, <4>1 DEF QueueControl
    <3>3. CASE ~(taken /\ d = s.pending)
      BY <2>5, <3>1, <3>3
    <3> QED
      BY <3>2, <3>3
  <2> QED
    BY <2>4, <2>5
<1>9. /\ act \in Subscribers /\ act.link = s.link /\ act.outbox = s.outbox /\ act.latest = s.latest
      /\ act.late = s.late /\ act.violations = s.violations /\ act.stalled = s.stalled
      /\ act.pending = None /\ act.active = d /\ act.past = more /\ act.done = zero
  <2>1. None \in Sessions /\ d \in Sessions
    BY DEF Sessions
  <2>2. act \in Subscribers
    BY <1>1, <2>1 DEF Subscribers
  <2>3. /\ act.link = s.link /\ act.outbox = s.outbox /\ act.latest = s.latest
        /\ act.late = s.late /\ act.violations = s.violations /\ act.stalled = s.stalled
    BY <1>1 DEF Subscribers
  <2>4. act.pending = None /\ act.active = d /\ act.past = more /\ act.done = zero
    BY <1>1 DEF Subscribers
  <2> QED
    BY <2>2, <2>3, <2>4
<1> HIDE DEF act
<1>10. /\ h \in Subscribers /\ h.link = s.link /\ h.latest = s.latest
       /\ h.late = s.late /\ h.violations = s.violations /\ s.stalled \subseteq h.stalled
       /\ \/ h = s /\ s.pending = None
          \/ /\ h.pending = None /\ h.outbox = s.outbox /\ h.active = s.active /\ h.past = s.past
             /\ h.done = s.done
          \/ /\ h.pending = None /\ h.active = d /\ h.past = more /\ h.done = zero
             /\ h.outbox = o \/ (h.outbox = s.outbox /\ d \in h.stalled)
  <2>1. CASE h = s /\ s.pending = None
    BY <1>1, <2>1
  <2>2. CASE h = [s EXCEPT !.pending = None, !.stalled = @ \cup {d}]
    <3>1. None \in Sessions
      BY DEF Sessions
    <3>2. h \in Subscribers
      BY <1>1, <2>2, <3>1 DEF Subscribers
    <3> QED
      BY <1>1, <2>2, <3>2 DEF Subscribers
  <2>3. CASE h = [act EXCEPT !.outbox = o]
    <3>1. h \in Subscribers
      BY <1>9, <2>3 DEF Subscribers
    <3> QED
      BY <1>9, <2>3, <3>1 DEF Subscribers
  <2>4. CASE h = [act EXCEPT !.stalled = @ \cup {d}]
    <3>1. h \in Subscribers
      BY <1>9, <2>4 DEF Subscribers
    <3> QED
      BY <1>9, <2>4, <3>1 DEF Subscribers
  <2> QED
    BY <1>8, <2>1, <2>2, <2>3, <2>4
<1>11. /\ a \o p.outbox # <<>> /\ Head(a \o p.outbox) = Head(a) /\ Tail(a \o p.outbox) = Tail(a) \o p.outbox
       /\ Tail(a) \in Seq(FromPublisher) /\ Len(Tail(a)) <= ControlRoom
  BY <1>1, PipeFacts, Bounds, SMTT(30)
<1>12. ASSUME on PROVE Agreed(p, h, Tail(a) \o p.outbox, b \o h.outbox, q, m)
  <2>1. Agreed(p, s, a \o p.outbox, b \o s.outbox, q, m)
    BY <1>12 DEF Joint
  <2>2. /\ Confirmed(p, s, a \o p.outbox, b \o s.outbox) /\ Head(a) = Message("confirmed", p.pending)
        /\ Quiet(Tail(a) \o p.outbox)
    BY <1>1, <1>11, <2>1, HeadTellsSubscriber DEF Agreed
  <2>3. d = p.pending /\ s.pending # None /\ Together(p, s)
    BY <1>2, <2>2 DEF Message, Confirmed
  <2>4. Obeys(p, h)
    BY <1>10, <2>1 DEF Agreed, Obeys
  <2>5. CASE /\ h.pending = None /\ h.outbox = s.outbox /\ h.active = s.active /\ h.past = s.past
             /\ h.done = s.done
    <3>1. InStep(p, h, q, m)
      BY <1>10, <2>1, <2>5, InStepOfSame DEF Agreed
    <3>2. Stuck(p, h, Tail(a) \o p.outbox, b \o h.outbox)
      BY <2>2, <2>3, <2>5 DEF Confirmed, Stuck, Together
    <3> QED
      BY <2>1, <2>4, <2>5, <3>1, <3>2 DEF Agreed, Exchange
  <2>6. CASE /\ h.pending = None /\ h.active = d /\ h.past = more /\ h.done = zero
             /\ h.outbox = o \/ (h.outbox = s.outbox /\ d \in h.stalled)
    <3>1. InStep(p, h, q, m)
      <4>1. \A w \in FlowSet : h.done[w] = 0
        BY <1>7, <2>6
      <4>2. InStep(p, s, q, m) /\ s.active = LastOf(s.past)
        BY <2>1 DEF Agreed
      <4> QED
        BY <1>1, <1>6, <1>10, <2>3, <2>6, <4>1, <4>2, TurnsInStep
    <3>2. /\ Len(h.past) > 0 /\ h.active = LastOf(h.past) /\ BeforeLast(h.past) = LastOf(s.past)
      <4>1. PICK past \in Seq(Definitions) : past = s.past
        BY <1>5
      <4>2. Len(more) = Len(past) + 1 /\ Len(past) \in Nat /\ LastOf(more) = d /\ BeforeLast(more) = LastOf(past)
        <5>1. more = Append(past, d)
          BY <1>6, <4>1, Zenon
        <5> QED
          BY <5>1, GrowsApart
      <4> QED
        BY <2>6, <4>1, <4>2
    <3>3. Ahead(p, h)
      BY <2>1, <2>2, <2>3, <2>6, <3>2 DEF Agreed, Ahead, Together, Confirmed
    <3>4. CASE h.outbox = o
      <4>1. b \o o = Append(b \o s.outbox, x)
        BY <1>1, <1>4, PipePushes
      <4>2. Turns(Append(b \o s.outbox, x), p.active, d)
        BY <1>1, <1>3, <2>2, WireStarts DEF Confirmed
      <4>3. Turning(p, h, Tail(a) \o p.outbox, b \o h.outbox)
        BY <2>2, <2>3, <2>6, <3>3, <3>4, <4>1, <4>2 DEF Confirmed, Turning
      <4> QED
        BY <2>4, <3>1, <3>2, <4>3 DEF Agreed, Exchange
    <3>5. CASE h.outbox = s.outbox /\ d \in h.stalled
      <4>1. Stuck(p, h, Tail(a) \o p.outbox, b \o h.outbox)
        BY <2>2, <2>3, <3>3, <3>5 DEF Confirmed, Stuck
      <4> QED
        BY <2>4, <3>1, <3>2, <4>1 DEF Agreed, Exchange
    <3> QED
      BY <2>6, <3>4, <3>5
  <2> QED
    BY <1>10, <2>3, <2>5, <2>6
<1>13. Joint(p, h, Tail(a), b, q, m, on)
  BY <1>10, <1>11, <1>12 DEF Joint
<1> QED
  BY <1>10, <1>13

-----------------------------------------------------------------------------
(* Frames that leave the publisher *)

\* The three flows.
LEMMA FlowsAre == FlowSet = {"compact", "core", "geometry"} /\ DOMAIN Flows = 1 .. 3
<1>2. DOMAIN Flows = 1 .. 3 /\ Flows[1] = "compact" /\ Flows[2] = "core" /\ Flows[3] = "geometry"
  BY DEF Flows
<1>3. 1 .. 3 = {1, 2, 3}
  OBVIOUS
<1>4. FlowSet = {Flows[i] : i \in {1, 2, 3}}
  BY <1>2, <1>3, Zenon DEF FlowSet, ToSet
<1>5. \A x : x \in FlowSet <=> x = Flows[1] \/ x = Flows[2] \/ x = Flows[3]
  BY <1>4, Zenon
<1> QED
  BY <1>2, <1>5, Zenon

\* Frames moved towards the receiver stay in order, and none is made.
Moved(q, latest, v, rest) ==
    /\ \A held \in Latest : InOrder(held, q, latest) => InOrder(held, v, rest)
    /\ ToSet(v) \cup Kept(rest) \subseteq ToSet(q) \cup Kept(latest)

\* One flow of ReliableLatestSender.flush: a frame moves to the lane, or nothing happens.
LEMMA FlowFlushes ==
    ASSUME NEW q \in Seq(FrameRecords), NEW latest \in Latest, NEW flow \in FlowSet
    PROVE  \E v \in Seq(FrameRecords), rest \in Latest :
             /\ FlushFlow([latest |-> latest, queue |-> q], flow) = [latest |-> rest, queue |-> v]
             /\ Moved(q, latest, v, rest)
<1>1. CASE latest[flow] = None \/ Len(q) >= FrameRoom
  <2>1. FlushFlow([latest |-> latest, queue |-> q], flow) = [latest |-> latest, queue |-> q]
    BY <1>1 DEF FlushFlow
  <2> QED
    BY <2>1 DEF Moved
<1>2. CASE ~(latest[flow] = None \/ Len(q) >= FrameRoom)
  <2>1. /\ latest \in [FlowSet -> FrameRecords \cup {None}]
        /\ \A w \in FlowSet : latest[w] # None => latest[w].flow = w
    BY DEF Latest
  <2>2. PICK g \in FrameRecords : g = latest[flow] /\ g.flow = flow /\ g # None
    BY <1>2, <2>1
  <2>3. PICK v \in Seq(FrameRecords) : v = Append(q, g)
    BY AppendedFacts
  <2>4. PICK rest : rest = [latest EXCEPT ![flow] = None]
    OBVIOUS
  <2>5. /\ rest \in [FlowSet -> FrameRecords \cup {None}] /\ rest[flow] = None
        /\ \A w \in FlowSet : w # flow => rest[w] = latest[w]
    BY <2>1, <2>4
  <2>6. rest \in Latest
    BY <2>1, <2>5 DEF Latest
  <2>7. FlushFlow([latest |-> latest, queue |-> q], flow) = [latest |-> rest, queue |-> v]
    BY <1>2, <2>2, <2>3, <2>4 DEF FlushFlow
  <2>8. /\ \A i \in DOMAIN v : i \in Nat /\ i <= Len(q) + 1 /\ (i = Len(q) + 1 \/ i \in DOMAIN q)
        /\ \A i \in DOMAIN q : i \in Nat /\ i \in DOMAIN v /\ i < Len(q) + 1 /\ v[i] = q[i]
        /\ v[Len(q) + 1] = g /\ Len(q) \in Nat /\ Len(q) + 1 \in DOMAIN v
    BY <2>3, AppendedFacts
  <2>9. ToSet(v) \cup Kept(rest) \subseteq ToSet(q) \cup Kept(latest)
    <3>1. ToSet(v) \subseteq ToSet(q) \cup Kept(latest)
      BY <2>2, <2>8 DEF ToSet, Kept
    <3>2. Kept(rest) \subseteq Kept(latest)
      BY <2>5 DEF Kept
    <3> QED
      BY <3>1, <3>2
  <2>10. ASSUME NEW held \in Latest, InOrder(held, q, latest) PROVE InOrder(held, v, rest)
    <3>1. /\ \A i, j \in DOMAIN q : i < j => Before(q[i], q[j])
          /\ \A w \in FlowSet : latest[w] # None => \A i \in DOMAIN q : Before(q[i], latest[w])
          /\ \A w \in FlowSet : held[w] # None => \A i \in DOMAIN q : Before(held[w], q[i])
          /\ \A w \in FlowSet : held[w] # None /\ latest[w] # None => Before(held[w], latest[w])
      BY <2>10 DEF InOrder
    <3>2. ASSUME NEW i \in DOMAIN v, NEW j \in DOMAIN v, i < j PROVE Before(v[i], v[j])
      <4>1. i \in DOMAIN q
        BY <2>8, <3>2
      <4>2. CASE j \in DOMAIN q
        BY <2>8, <3>1, <3>2, <4>1, <4>2
      <4>3. CASE j = Len(q) + 1
        BY <2>2, <2>8, <3>1, <4>1, <4>3
      <4> QED
        BY <2>8, <4>2, <4>3
    <3>3. ASSUME NEW w \in FlowSet, rest[w] # None, NEW i \in DOMAIN v PROVE Before(v[i], rest[w])
      <4>1. w # flow /\ rest[w] = latest[w] /\ latest[w].flow = w
        BY <2>1, <2>5, <3>3
      <4>2. CASE i \in DOMAIN q
        BY <2>8, <3>1, <3>3, <4>1, <4>2
      <4>3. CASE i = Len(q) + 1
        BY <2>2, <2>8, <4>1, <4>3 DEF Before
      <4> QED
        BY <2>8, <4>2, <4>3
    <3>4. ASSUME NEW w \in FlowSet, held[w] # None, NEW i \in DOMAIN v PROVE Before(held[w], v[i])
      <4>1. held[w].flow = w
        BY <3>4 DEF Latest
      <4>2. CASE i \in DOMAIN q
        BY <2>8, <3>1, <3>4, <4>2
      <4>3. CASE i = Len(q) + 1 /\ w = flow
        BY <2>2, <2>8, <3>1, <3>4, <4>3
      <4>4. CASE i = Len(q) + 1 /\ w # flow
        BY <2>2, <2>8, <4>1, <4>4 DEF Before
      <4> QED
        BY <2>8, <4>2, <4>3, <4>4
    <3>5. \A w \in FlowSet : held[w] # None /\ rest[w] # None => Before(held[w], rest[w])
      BY <2>5, <3>1
    <3> QED
      BY <3>2, <3>3, <3>4, <3>5 DEF InOrder
  <2> QED
    BY <2>6, <2>7, <2>9, <2>10 DEF Moved
<1> QED
  BY <1>1, <1>2

\* ReliableLatestSender.flush.
LEMMA FramesFlush ==
    ASSUME NEW p, p.latest \in Latest, NEW q \in Seq(FrameRecords)
    PROVE  \E v \in Seq(FrameRecords), rest \in Latest :
             /\ Moved(q, p.latest, v, rest)
             /\ \/ FlushFrames(p, q) = [side |-> [p EXCEPT !.latest = rest], queue |-> v]
                \/ FlushFrames(p, q) = [side |-> p, queue |-> v] /\ rest = p.latest
<1>1. PICK latest \in Latest : latest = p.latest
  OBVIOUS
<1>2. Flows[1] \in FlowSet /\ Flows[2] \in FlowSet /\ Flows[3] \in FlowSet
  BY FlowsAre DEF FlowSet, ToSet
<1>3. PICK q1 \in Seq(FrameRecords), l1 \in Latest :
        /\ FlushFlow([latest |-> latest, queue |-> q], Flows[1]) = [latest |-> l1, queue |-> q1]
        /\ Moved(q, latest, q1, l1)
  BY <1>2, FlowFlushes
<1>4. PICK q2 \in Seq(FrameRecords), l2 \in Latest :
        /\ FlushFlow([latest |-> l1, queue |-> q1], Flows[2]) = [latest |-> l2, queue |-> q2]
        /\ Moved(q1, l1, q2, l2)
  BY <1>2, FlowFlushes
<1>5. PICK q3 \in Seq(FrameRecords), l3 \in Latest :
        /\ FlushFlow([latest |-> l2, queue |-> q2], Flows[3]) = [latest |-> l3, queue |-> q3]
        /\ Moved(q2, l2, q3, l3)
  BY <1>2, FlowFlushes
<1>6. Moved(q, latest, q3, l3)
  BY <1>3, <1>4, <1>5 DEF Moved
<1>7. CASE mode[p.link] = "Datagram"
  <2>1. FlushFrames(p, q) = [side |-> p, queue |-> q]
    BY <1>7 DEF FlushFrames
  <2>2. Moved(q, latest, q, latest)
    BY DEF Moved
  <2> QED
    BY <1>1, <2>1, <2>2
<1>8. CASE mode[p.link] # "Datagram"
  <2>1. FlushFrames(p, q) = [side |-> [p EXCEPT !.latest = [latest |-> l3, queue |-> q3].latest],
                             queue |-> [latest |-> l3, queue |-> q3].queue]
    BY <1>1, <1>3, <1>4, <1>5, <1>8, Zenon DEF FlushFrames
  <2>2. FlushFrames(p, q) = [side |-> [p EXCEPT !.latest = l3], queue |-> q3]
    BY <2>1
  <2> QED
    BY <1>1, <1>6, <2>2
<1> QED
  BY <1>7, <1>8

\* Frames on their way to the receiver, when none is made and none overtakes another.
LEMMA InStepMoves ==
    ASSUME NEW p, NEW s, NEW h, NEW q, NEW v, NEW m, InStep(p, s, q, m), s.latest \in Latest,
           h.active = p.active, h.last = p.last, Moved(q, p.latest, v, h.latest)
    PROVE  InStep(h, s, v, m)
<1>1. Carried(h, s, v) \subseteq Carried(p, s, q)
  BY DEF Carried, Moved
<1>2. Known(h, s, v)
  BY <1>1 DEF InStep, Known
<1>3. ASSUME Honest(p, s, q) PROVE Honest(h, s, v)
  <2>1. InOrder(s.latest, v, h.latest)
    BY <1>3 DEF Honest, Moved
  <2> QED
    BY <1>1, <1>3, <2>1 DEF Honest, Together
<1> QED
  BY <1>2, <1>3 DEF InStep

\* ReliableLatestSender.flush, for both ends of the link.
LEMMA LaneFlushes ==
    ASSUME NEW p, NEW s, NEW a, NEW b, NEW q, NEW m, NEW on, Joint(p, s, a, b, q, m, on)
    PROVE  LET out == FlushFrames(p, q)
           IN  Joint(out.side, s, a, b, out.queue, m, on) /\ out.side.link = p.link
<1>1. p \in Publishers /\ p.latest \in Latest /\ s.latest \in Latest /\ q \in Seq(FrameRecords)
  BY JointTypes DEF Publishers, Subscribers
<1>2. PICK v \in Seq(FrameRecords), rest \in Latest :
        /\ Moved(q, p.latest, v, rest)
        /\ \/ FlushFrames(p, q) = [side |-> [p EXCEPT !.latest = rest], queue |-> v]
           \/ FlushFrames(p, q) = [side |-> p, queue |-> v] /\ rest = p.latest
  BY <1>1, FramesFlush
<1>3. PICK h : FlushFrames(p, q) = [side |-> h, queue |-> v] /\ (h = [p EXCEPT !.latest = rest] \/ (h = p /\ rest = p.latest))
  BY <1>2
<1>4. /\ h \in Publishers /\ h.link = p.link /\ h.outbox = p.outbox /\ h.latest = rest
      /\ h.pending = p.pending /\ h.accepted = p.accepted /\ h.active = p.active
      /\ h.playback = p.playback /\ h.started = p.started /\ h.last = p.last
  <2>1. CASE h = [p EXCEPT !.latest = rest]
    BY <1>1, <2>1 DEF Publishers
  <2>2. CASE h = p /\ rest = p.latest
    BY <1>1, <2>2
  <2> QED
    BY <1>3, <2>1, <2>2
<1>5. ASSUME on PROVE Agreed(h, s, a \o h.outbox, b \o s.outbox, v, m)
  <2>1. Agreed(p, s, a \o p.outbox, b \o s.outbox, q, m)
    BY <1>5 DEF Joint
  <2>2. InStep(h, s, v, m)
    BY <1>1, <1>2, <1>4, <2>1, InStepMoves DEF Agreed
  <2>3. Exchange(h, s, a \o h.outbox, b \o s.outbox)
    BY <1>4, <2>1, ExchangeOfSame DEF Agreed
  <2> QED
    BY <1>4, <2>1, <2>2, <2>3 DEF Agreed, Obeys
<1>6. Joint(h, s, a, b, v, m, on)
  BY <1>2, <1>4, <1>5 DEF Joint
<1>7. FlushFrames(p, q).side = h /\ FlushFrames(p, q).queue = v
  BY <1>3
<1> QED
  BY <1>4, <1>6, <1>7, Zenon

\* A session the publisher runs is one the subscriber has activated.
LEMMA ActiveKnown ==
    ASSUME NEW p, NEW s, NEW a, NEW b, s.past \in Seq(Definitions), s.active = LastOf(s.past),
           Exchange(p, s, a, b), p.active # None
    PROVE  p.active \in ToSet(s.past)
<1>1. PICK past \in Seq(Definitions) : past = s.past
  OBVIOUS
<1>2. PICK n \in Nat : n = Len(past) /\ DOMAIN past = 1 .. n
  OBVIOUS
<1>3. Together(p, s) \/ Ahead(p, s)
  BY DEF Exchange, Idle, Proposed, Answered, Confirmed, Turning, Stuck
<1>4. CASE Together(p, s)
  <2>1. n > 0 /\ p.active = past[n]
    BY <1>1, <1>2, <1>4 DEF Together, LastOf
  <2> QED
    BY <1>1, <1>2, <2>1 DEF ToSet
<1>5. CASE Ahead(p, s)
  <2>1. n > 1 /\ p.active = past[n - 1]
    BY <1>1, <1>2, <1>5 DEF Ahead, BeforeLast
  <2> QED
    BY <1>1, <1>2, <2>1 DEF ToSet
<1> QED
  BY <1>3, <1>4, <1>5

\* try_send_latest: the frames of a result join those on their way.
LEMMA PubPublishes ==
    ASSUME NEW p, NEW s, NEW a, NEW b, NEW q, NEW m, NEW on, Joint(p, s, a, b, q, m, on),
           NEW h \in Publishers, NEW v \in Seq(FrameRecords), NEW n \in Nat, n > p.last, h.last = n,
           p.active # None,
           h.outbox = p.outbox, h.pending = p.pending, h.accepted = p.accepted, h.active = p.active,
           h.playback = p.playback, h.started = p.started,
           \A f \in ToSet(v) \cup Kept(h.latest) :
             f \in ToSet(q) \cup Kept(p.latest) \/ (f.def = p.active /\ f.sequence = n),
           m = "ReliableLatestOnly" =>
             \A held \in Latest :
               /\ InOrder(held, q, p.latest)
               /\ \A f \in ToSet(q) \cup Kept(p.latest) \cup Kept(held) :
                    f.def = p.active => f.sequence <= p.last
               => InOrder(held, v, h.latest)
    PROVE  Joint(h, s, a, b, v, m, on)
<1>1. /\ p \in Publishers /\ s \in Subscribers /\ s.latest \in Latest /\ s.past \in Seq(Definitions)
      /\ s.done \in [FlowSet -> Nat] /\ p.last \in Nat /\ h.latest \in Latest /\ p.latest \in Latest
      /\ q \in Seq(FrameRecords)
  <2>1. p \in Publishers /\ s \in Subscribers /\ q \in Seq(FrameRecords)
    BY DEF Joint
  <2> QED
    BY <2>1 DEF Publishers, Subscribers
<1>2. \A f \in Carried(h, s, v) : f \in Carried(p, s, q) \/ (f.def = p.active /\ f.sequence = n)
  BY DEF Carried
<1>3. ASSUME on PROVE Agreed(h, s, a \o h.outbox, b \o s.outbox, v, m)
  <2>1. Agreed(p, s, a \o p.outbox, b \o s.outbox, q, m)
    BY <1>3 DEF Joint
  <2>2. Exchange(h, s, a \o h.outbox, b \o s.outbox)
    BY <2>1, ExchangeOfSame DEF Agreed
  <2>3. p.active \in ToSet(s.past)
    BY <1>1, <2>1, ActiveKnown DEF Agreed
  <2>4. Known(h, s, v)
    BY <1>2, <2>1, <2>3 DEF Agreed, InStep, Known
  <2>5. ASSUME m = "ReliableLatestOnly", Growing(s.past) PROVE Honest(h, s, v)
    <3>1. Honest(p, s, q)
      BY <2>1, <2>5 DEF Agreed, InStep
    <3>2. InOrder(s.latest, v, h.latest)
      <4>1. \A f \in ToSet(q) \cup Kept(p.latest) \cup Kept(s.latest) : f.def = p.active => f.sequence <= p.last
        BY <3>1 DEF Honest, Carried
      <4> QED
        BY <1>1, <2>5, <3>1, <4>1 DEF Honest
    <3>3. Carried(h, s, v) \subseteq FrameRecords
      <4>1. ToSet(v) \subseteq FrameRecords
        BY DEF ToSet
      <4>2. Kept(h.latest) \subseteq FrameRecords /\ Kept(s.latest) \subseteq FrameRecords
        BY <1>1 DEF Kept, Latest
      <4> QED
        BY <4>1, <4>2 DEF Carried
    <3>4. ASSUME NEW f \in Carried(h, s, v)
          PROVE  /\ f.def = h.active => f.sequence <= h.last
                 /\ f.def = s.active => f.sequence > s.done[f.flow]
                 /\ f.def = s.active => Together(h, s)
      <4>1. f.flow \in FlowSet /\ f.sequence \in Nat
        BY <3>3 DEF FrameRecords
      <4>2. CASE f \in Carried(p, s, q)
        <5>1. /\ f.def = p.active => f.sequence <= p.last
              /\ f.def = s.active => f.sequence > s.done[f.flow]
              /\ f.def = s.active => Together(p, s)
          BY <3>1, <4>2 DEF Honest
        <5>2. f.def = p.active => f.sequence <= n
          BY <1>1, <4>1, <5>1
        <5> QED
          BY <5>1, <5>2 DEF Together
      <4>3. CASE f.def = p.active /\ f.sequence = n
        <5>1. Together(p, s) => s.done[f.flow] <= p.last /\ s.done[f.flow] \in Nat
          BY <1>1, <3>1, <4>1 DEF Honest
        <5>2. Together(p, s) => n > s.done[f.flow]
          BY <1>1, <5>1
        <5> QED
          BY <4>3, <5>2 DEF Together
      <4> QED
        BY <1>2, <4>2, <4>3
    <3>5. \A w \in FlowSet : s.done[w] <= IF Together(h, s) THEN h.last ELSE 0
      <4>1. ASSUME NEW w \in FlowSet PROVE s.done[w] <= IF Together(h, s) THEN h.last ELSE 0
        <5>1. s.done[w] \in Nat /\ s.done[w] <= IF Together(p, s) THEN p.last ELSE 0
          BY <1>1, <3>1 DEF Honest
        <5>2. Together(h, s) <=> Together(p, s)
          BY DEF Together
        <5> QED
          BY <1>1, <5>1, <5>2
      <4> QED
        BY <4>1
    <3> QED
      BY <3>1, <3>2, <3>4, <3>5 DEF Honest
  <2> QED
    BY <2>1, <2>2, <2>4, <2>5 DEF Agreed, InStep, Obeys
<1> QED
  BY <1>3 DEF Joint

\* A newer frame takes the place of the one that waits.
LEMMA NewestLast ==
    ASSUME NEW held \in Latest, NEW q \in Seq(FrameRecords), NEW latest \in Latest, NEW fresh \in Latest,
           NEW d, NEW last \in Nat, NEW n \in Nat, n > last, InOrder(held, q, latest),
           \A f \in ToSet(q) \cup Kept(latest) \cup Kept(held) : f.def = d => f.sequence <= last,
           \A w \in FlowSet : fresh[w] = latest[w] \/ (fresh[w].def = d /\ fresh[w].sequence = n)
    PROVE  InOrder(held, q, fresh)
<1>1. ASSUME NEW w \in FlowSet, fresh[w] # None, NEW i \in DOMAIN q PROVE Before(q[i], fresh[w])
  <2>1. CASE fresh[w] = latest[w]
    BY <1>1, <2>1 DEF InOrder
  <2>2. CASE fresh[w].def = d /\ fresh[w].sequence = n
    <3>1. q[i] \in FrameRecords /\ q[i] \in ToSet(q)
      BY DEF ToSet
    <3>2. q[i].sequence \in Nat /\ (q[i].def = d => q[i].sequence <= last)
      BY <3>1 DEF FrameRecords
    <3> QED
      BY <2>2, <3>2 DEF Before
  <2> QED
    BY <2>1, <2>2
<1>2. ASSUME NEW w \in FlowSet, held[w] # None, fresh[w] # None PROVE Before(held[w], fresh[w])
  <2>1. CASE fresh[w] = latest[w]
    BY <1>2, <2>1 DEF InOrder
  <2>2. CASE fresh[w].def = d /\ fresh[w].sequence = n
    <3>1. held[w] \in FrameRecords /\ held[w] \in Kept(held)
      BY <1>2 DEF Latest, Kept
    <3>2. held[w].sequence \in Nat /\ (held[w].def = d => held[w].sequence <= last)
      BY <3>1 DEF FrameRecords
    <3> QED
      BY <2>2, <3>2 DEF Before
  <2> QED
    BY <2>1, <2>2
<1> QED
  BY <1>1, <1>2 DEF InOrder

\* A datagram joins the queue or is dropped.
LEMMA Offers ==
    ASSUME NEW q \in Seq(FrameRecords), NEW f \in FrameRecords
    PROVE  Offer(q, f) \in Seq(FrameRecords) /\ ToSet(Offer(q, f)) \subseteq ToSet(q) \cup {f}
<1>1. CASE Offer(q, f) = q
  BY <1>1
<1>2. CASE Offer(q, f) = Append(q, f)
  <2>1. PICK v \in Seq(FrameRecords) : v = Append(q, f)
    BY AppendedFacts
  <2>2. \A i \in DOMAIN v : v[i] = f \/ (i \in DOMAIN q /\ v[i] = q[i])
    BY <2>1, AppendedFacts
  <2> QED
    BY <1>2, <2>1, <2>2 DEF ToSet
<1> QED
  BY <1>1, <1>2 DEF Offer

-----------------------------------------------------------------------------
(* Steps of a side *)

\* The types of the state, and the room of the control streams.
TypesInv ==
    /\ mode \in [Links -> Modes]
    /\ pub \in Publishers /\ sub \in Subscribers
    /\ toSub \in [Links -> Seq(FromPublisher)] /\ toPub \in [Links -> Seq(FromSubscriber)]
    /\ frames \in [Links -> Seq(FrameRecords)]
    /\ \A l \in Links : Len(toSub[l]) <= ControlRoom /\ Len(toPub[l]) <= ControlRoom

\* A step of the publisher on its link, whatever the subscriber is.
PubStep ==
    /\ UNCHANGED <<mode, sub>> /\ pub'.link = pub.link
    /\ toSub' = [toSub EXCEPT ![pub.link] = toSub'[pub.link]]
    /\ toPub' = [toPub EXCEPT ![pub.link] = toPub'[pub.link]]
    /\ frames' = [frames EXCEPT ![pub.link] = frames'[pub.link]]
    /\ toPub[pub.link] = <<>> => toPub'[pub.link] = <<>>
    /\ \A s, on :
         Joint(pub, s, toSub[pub.link], toPub[pub.link], frames[pub.link], mode[pub.link], on) =>
         Joint(pub', s, toSub'[pub.link], toPub'[pub.link], frames'[pub.link], mode[pub.link], on)

\* A step of the subscriber on its link, whatever the publisher is.
SubStep ==
    /\ UNCHANGED <<mode, pub>> /\ sub'.link = sub.link
    /\ toSub' = [toSub EXCEPT ![sub.link] = toSub'[sub.link]]
    /\ toPub' = [toPub EXCEPT ![sub.link] = toPub'[sub.link]]
    /\ frames' = [frames EXCEPT ![sub.link] = frames'[sub.link]]
    /\ toSub[sub.link] = <<>> => toSub'[sub.link] = <<>>
    /\ frames[sub.link] = <<>> => frames'[sub.link] = <<>>
    /\ \A p, on :
         Joint(p, sub, toSub[sub.link], toPub[sub.link], frames[sub.link], mode[sub.link], on) =>
         Joint(p, sub', toSub'[sub.link], toPub'[sub.link], frames'[sub.link], mode[sub.link], on)

\* A function changed at one argument.
LEMMA OneLink ==
    ASSUME NEW D, NEW R, NEW f \in [D -> R], NEW l \in D, NEW x
    PROVE  f = [f EXCEPT ![l] = f[l]] /\ [f EXCEPT ![l] = x][l] = x
  OBVIOUS

\* The types, field by field, in the form the steps use.
LEMMA StateTypes ==
    ASSUME TypesInv
    PROVE  /\ pub \in Publishers /\ pub.link \in Links /\ pub.outbox \in Seq(FromPublisher)
           /\ sub \in Subscribers /\ sub.link \in Links /\ sub.outbox \in Seq(FromSubscriber)
           /\ \A l \in Links : /\ mode[l] \in Modes /\ toSub[l] \in Seq(FromPublisher)
                               /\ toPub[l] \in Seq(FromSubscriber) /\ frames[l] \in Seq(FrameRecords)
           /\ \A l \in Links : \A x : /\ toSub = [toSub EXCEPT ![l] = toSub[l]]
                                      /\ [toSub EXCEPT ![l] = x][l] = x
                                      /\ toPub = [toPub EXCEPT ![l] = toPub[l]]
                                      /\ [toPub EXCEPT ![l] = x][l] = x
                                      /\ frames = [frames EXCEPT ![l] = frames[l]]
                                      /\ [frames EXCEPT ![l] = x][l] = x
<1>1. pub \in Publishers /\ sub \in Subscribers
  BY DEF TypesInv
<1>2. /\ pub.link \in Links /\ pub.outbox \in Seq(FromPublisher)
      /\ sub.link \in Links /\ sub.outbox \in Seq(FromSubscriber)
  BY <1>1 DEF Publishers, Subscribers
<1>3. \A l \in Links : /\ mode[l] \in Modes /\ toSub[l] \in Seq(FromPublisher)
                       /\ toPub[l] \in Seq(FromSubscriber) /\ frames[l] \in Seq(FrameRecords)
  BY DEF TypesInv
<1>4. ASSUME NEW l \in Links, NEW x
      PROVE  /\ toSub = [toSub EXCEPT ![l] = toSub[l]] /\ [toSub EXCEPT ![l] = x][l] = x
             /\ toPub = [toPub EXCEPT ![l] = toPub[l]] /\ [toPub EXCEPT ![l] = x][l] = x
             /\ frames = [frames EXCEPT ![l] = frames[l]] /\ [frames EXCEPT ![l] = x][l] = x
  BY OneLink DEF TypesInv
<1> QED
  BY <1>1, <1>2, <1>3, <1>4

\* note_frame charges the window of a result.
LEMMA PubCounts ==
    ASSUME NEW p \in Publishers, NEW c, c = CountFrame(p)
    PROVE  c \in Publishers /\ SamePublisher(p, c) /\ c.outbox = p.outbox /\ c.link = p.link
<1>1. PICK i \in Nat, j \in Nat : i = p.burst + 1 /\ j = p.sustained + 1
  BY DEF Publishers
<1>2. c = [p EXCEPT !.burst = i, !.sustained = j]
  BY <1>1 DEF CountFrame
<1>3. c \in Publishers
  BY <1>2 DEF Publishers
<1>4. SamePublisher(p, c) /\ c.outbox = p.outbox /\ c.link = p.link
  BY <1>2 DEF Publishers, SamePublisher
<1> QED
  BY <1>3, <1>4

\* The frames of a flow, renewed by result n of session d.
Renewed(latest, flows, d, n) ==
    [f \in DOMAIN latest |-> IF f \in flows THEN [flow |-> f, def |-> d, sequence |-> n] ELSE latest[f]]

\* Frames moved towards the receiver, those of result n of session d behind the others.
Sent(q, latest, v, rest, d, n) ==
    /\ \A f \in ToSet(v) \cup Kept(rest) :
         f \in ToSet(q) \cup Kept(latest) \/ (f.def = d /\ f.sequence = n)
    /\ \A last \in Nat : \A held \in Latest :
         /\ n > last /\ InOrder(held, q, latest)
         /\ \A f \in ToSet(q) \cup Kept(latest) \cup Kept(held) : f.def = d => f.sequence <= last
         => InOrder(held, v, rest)

\* Publishers that differ in the frames they keep.
SameButFrames(p, h) ==
    /\ h.link = p.link /\ h.outbox = p.outbox /\ h.pending = p.pending /\ h.accepted = p.accepted
    /\ h.active = p.active /\ h.playback = p.playback /\ h.started = p.started /\ h.last = p.last

\* The frames of a result over the reliable lane: what waits is flushed, the frames of the
\* result take the places of those that still wait, and the lane is flushed again.
LEMMA LaneTakesResult ==
    ASSUME NEW x \in Publishers, NEW q \in Seq(FrameRecords), NEW d \in Definitions, NEW n \in Nat \ {0},
           NEW flows \in SUBSET FlowSet, NEW one, one = FlushFrames(x, q), NEW mid,
           mid = [one.side EXCEPT !.latest = Renewed(@, flows, d, n)],
           NEW two, two = FlushFrames(mid, one.queue)
    PROVE  /\ two.side \in Publishers /\ two.queue \in Seq(FrameRecords)
           /\ SameButFrames(x, two.side)
           /\ Sent(q, x.latest, two.queue, two.side.latest, d, n)
<1>1. x.latest \in Latest
  BY DEF Publishers
<1>2. PICK v1 \in Seq(FrameRecords), r1 \in Latest :
        /\ Moved(q, x.latest, v1, r1)
        /\ \/ one = [side |-> [x EXCEPT !.latest = r1], queue |-> v1]
           \/ one = [side |-> x, queue |-> v1] /\ r1 = x.latest
  BY <1>1, FramesFlush
<1>3. /\ one.queue = v1 /\ one.side \in Publishers /\ one.side.latest = r1
      /\ one.side.link = x.link /\ one.side.outbox = x.outbox /\ one.side.pending = x.pending
      /\ one.side.accepted = x.accepted /\ one.side.active = x.active
      /\ one.side.playback = x.playback /\ one.side.started = x.started /\ one.side.last = x.last
  <2>1. CASE one = [side |-> [x EXCEPT !.latest = r1], queue |-> v1]
    <3>1. PICK y : y = [x EXCEPT !.latest = r1]
      OBVIOUS
    <3>2. one.side = y /\ one.queue = v1
      BY <2>1, <3>1
    <3>3. y \in Publishers /\ y.latest = r1
      BY <3>1 DEF Publishers
    <3>4. /\ y.link = x.link /\ y.outbox = x.outbox /\ y.pending = x.pending
          /\ y.accepted = x.accepted /\ y.active = x.active
          /\ y.playback = x.playback /\ y.started = x.started /\ y.last = x.last
      BY <3>1 DEF Publishers
    <3> QED
      BY <3>2, <3>3, <3>4
  <2>2. CASE one = [side |-> x, queue |-> v1] /\ r1 = x.latest
    BY <2>2
  <2> QED
    BY <1>2, <2>1, <2>2
<1>4. PICK fresh : fresh = [f \in FlowSet |-> IF f \in flows THEN [flow |-> f, def |-> d, sequence |-> n]
                                              ELSE r1[f]]
  OBVIOUS
<1>5. /\ r1 \in [FlowSet -> FrameRecords \cup {None}] /\ DOMAIN r1 = FlowSet
      /\ \A w \in FlowSet : r1[w] # None => r1[w].flow = w
  BY DEF Latest
<1>6. \A f \in flows : [flow |-> f, def |-> d, sequence |-> n] \in FrameRecords
  BY DEF FrameRecords
<1>7. fresh \in Latest
  <2>1. fresh \in [FlowSet -> FrameRecords \cup {None}]
    BY <1>4, <1>5, <1>6
  <2>2. \A w \in FlowSet : fresh[w] # None => fresh[w].flow = w
    BY <1>4, <1>5
  <2> QED
    BY <2>1, <2>2 DEF Latest
<1>8. \A w \in FlowSet : fresh[w] = r1[w] \/ (fresh[w].def = d /\ fresh[w].sequence = n)
  BY <1>4
<1>9. mid = [one.side EXCEPT !.latest = fresh]
  BY <1>3, <1>4, <1>5, Zenon DEF Renewed
<1>10. /\ mid \in Publishers /\ mid.latest = fresh
       /\ mid.link = x.link /\ mid.outbox = x.outbox /\ mid.pending = x.pending
       /\ mid.accepted = x.accepted /\ mid.active = x.active
       /\ mid.playback = x.playback /\ mid.started = x.started /\ mid.last = x.last
  <2>1. PICK y \in Publishers : y = one.side
    BY <1>3
  <2>2. mid = [y EXCEPT !.latest = fresh]
    BY <1>9, <2>1
  <2>3. mid \in Publishers
    BY <1>7, <2>2 DEF Publishers
  <2>4. /\ mid.latest = fresh
        /\ mid.link = y.link /\ mid.outbox = y.outbox /\ mid.pending = y.pending
        /\ mid.accepted = y.accepted /\ mid.active = y.active
        /\ mid.playback = y.playback /\ mid.started = y.started /\ mid.last = y.last
    BY <2>2 DEF Publishers
  <2> QED
    BY <1>3, <2>1, <2>3, <2>4
<1>11. PICK v2 \in Seq(FrameRecords), r2 \in Latest :
        /\ Moved(v1, fresh, v2, r2)
        /\ \/ two = [side |-> [mid EXCEPT !.latest = r2], queue |-> v2]
           \/ two = [side |-> mid, queue |-> v2] /\ r2 = mid.latest
  <2>1. two = FlushFrames(mid, v1)
    BY <1>3
  <2>2. PICK y : y = mid
    OBVIOUS
  <2>3. y.latest = fresh /\ y.latest \in Latest
    BY <1>7, <1>10, <2>2, Zenon
  <2>4. PICK v \in Seq(FrameRecords), rest \in Latest :
          /\ Moved(v1, y.latest, v, rest)
          /\ \/ FlushFrames(y, v1) = [side |-> [y EXCEPT !.latest = rest], queue |-> v]
             \/ FlushFrames(y, v1) = [side |-> y, queue |-> v] /\ rest = y.latest
    BY <2>3, FramesFlush
  <2>5. Moved(v1, fresh, v, rest)
    BY <2>3, <2>4
  <2> QED
    BY <2>1, <2>2, <2>4, <2>5, ZenonT(30)
<1>12. /\ two.queue = v2 /\ two.side \in Publishers /\ two.side.latest = r2
       /\ two.side.link = x.link /\ two.side.outbox = x.outbox /\ two.side.pending = x.pending
       /\ two.side.accepted = x.accepted /\ two.side.active = x.active
       /\ two.side.playback = x.playback /\ two.side.started = x.started /\ two.side.last = x.last
  <2>1. CASE two = [side |-> [mid EXCEPT !.latest = r2], queue |-> v2]
    <3>1. PICK y : y = [mid EXCEPT !.latest = r2]
      OBVIOUS
    <3>2. two.side = y /\ two.queue = v2
      BY <2>1, <3>1
    <3>3. y \in Publishers /\ y.latest = r2
      BY <1>10, <3>1 DEF Publishers
    <3>4. /\ y.link = mid.link /\ y.outbox = mid.outbox /\ y.pending = mid.pending
          /\ y.accepted = mid.accepted /\ y.active = mid.active
          /\ y.playback = mid.playback /\ y.started = mid.started /\ y.last = mid.last
      BY <1>10, <3>1 DEF Publishers
    <3> QED
      BY <1>10, <3>2, <3>3, <3>4
  <2>2. CASE two = [side |-> mid, queue |-> v2] /\ r2 = mid.latest
    <3>1. two.side = mid /\ two.queue = v2 /\ r2 = mid.latest
      <4>1. PICK y : y = mid
        OBVIOUS
      <4>2. [side |-> y, queue |-> v2].side = y /\ [side |-> y, queue |-> v2].queue = v2
        OBVIOUS
      <4> QED
        BY <2>2, <4>1, <4>2, Zenon
    <3>2. two.side \in Publishers /\ two.side.latest = r2
      BY <1>10, <3>1, Zenon
    <3>3. /\ two.side.link = x.link /\ two.side.outbox = x.outbox /\ two.side.pending = x.pending
          /\ two.side.accepted = x.accepted /\ two.side.active = x.active
          /\ two.side.playback = x.playback /\ two.side.started = x.started /\ two.side.last = x.last
      BY <1>10, <3>1, Zenon
    <3> QED
      BY <3>1, <3>2, <3>3, Zenon
  <2> QED
    BY <1>11, <2>1, <2>2
<1>13. \A f \in ToSet(v2) \cup Kept(r2) : f \in ToSet(q) \cup Kept(x.latest) \/ (f.def = d /\ f.sequence = n)
  <2>1. \A f \in Kept(fresh) : f \in Kept(r1) \/ (f.def = d /\ f.sequence = n)
    BY <1>8 DEF Kept
  <2>2. ToSet(v2) \cup Kept(r2) \subseteq ToSet(v1) \cup Kept(fresh)
    BY <1>11 DEF Moved
  <2>3. ToSet(v1) \cup Kept(r1) \subseteq ToSet(q) \cup Kept(x.latest)
    BY <1>2 DEF Moved
  <2> QED
    BY <2>1, <2>2, <2>3
<1>14. ASSUME NEW last \in Nat, NEW held \in Latest, n > last, InOrder(held, q, x.latest),
              \A f \in ToSet(q) \cup Kept(x.latest) \cup Kept(held) : f.def = d => f.sequence <= last
       PROVE  InOrder(held, v2, r2)
  <2>1. InOrder(held, v1, r1) /\ ToSet(v1) \cup Kept(r1) \subseteq ToSet(q) \cup Kept(x.latest)
    BY <1>2, <1>14 DEF Moved
  <2>2. \A f \in ToSet(v1) \cup Kept(r1) \cup Kept(held) : f.def = d => f.sequence <= last
    BY <1>14, <2>1
  <2>3. InOrder(held, v1, fresh)
    BY <1>7, <1>8, <1>14, <2>1, <2>2, NewestLast
  <2> QED
    BY <1>11, <2>3 DEF Moved
<1> QED
  BY <1>12, <1>13, <1>14 DEF SameButFrames, Sent

\* A step of the publisher that leaves the control stream alone.
LEMMA PubFrameStep ==
    ASSUME TypesInv, NEW h, NEW v, pub' = h, h.link = pub.link, frames' = [frames EXCEPT ![pub.link] = v],
           UNCHANGED <<mode, sub, toSub, toPub>>,
           \A s, on : Joint(pub, s, toSub[pub.link], toPub[pub.link], frames[pub.link], mode[pub.link], on)
                      => Joint(h, s, toSub[pub.link], toPub[pub.link], v, mode[pub.link], on)
    PROVE  PubStep
<1>1. PICK l \in Links : l = pub.link
  BY StateTypes
<1>2. toSub' = toSub /\ toPub' = toPub /\ frames' = [frames EXCEPT ![l] = v]
  BY <1>1
<1>3. /\ toSub = [toSub EXCEPT ![l] = toSub[l]] /\ toPub = [toPub EXCEPT ![l] = toPub[l]]
      /\ [frames EXCEPT ![l] = v][l] = v
  BY StateTypes
<1>4. frames'[l] = v
  BY <1>2, <1>3, Zenon
<1>5. /\ toSub' = [toSub EXCEPT ![l] = toSub'[l]] /\ toPub' = [toPub EXCEPT ![l] = toPub'[l]]
      /\ frames' = [frames EXCEPT ![l] = frames'[l]]
  BY <1>2, <1>3, <1>4, Zenon
<1> QED
  BY <1>1, <1>2, <1>4, <1>5, Zenon DEF PubStep

\* try_send_latest is a step of the publisher: duplicate, reliable lane or datagrams.
LEMMA TrySends ==
    ASSUME TypesInv, NEW n \in Results, TrySendLatest(n)
    PROVE  PubStep
<1>1. PICK l \in Links : l = pub.link
  BY StateTypes
<1>2. pub \in Publishers /\ frames[l] \in Seq(FrameRecords) /\ n \in Nat \ {0}
  BY StateTypes, NtpAssumption
<1>3. pub.active \in Definitions
  BY <1>2 DEF TrySendLatest, Publishers, Sessions
<1>4. PICK c : c = CountFrame(pub)
  OBVIOUS
<1>5. PICK x : x = [c EXCEPT !.last = n, !.geometry = FALSE]
  OBVIOUS
<1>6. c \in Publishers /\ SamePublisher(pub, c) /\ c.outbox = pub.outbox /\ c.link = pub.link
  BY <1>2, <1>4, PubCounts
<1>7. /\ x \in Publishers /\ x.link = pub.link /\ x.outbox = pub.outbox /\ x.pending = pub.pending
      /\ x.accepted = pub.accepted /\ x.active = pub.active /\ x.playback = pub.playback
      /\ x.started = pub.started /\ x.latest = pub.latest /\ x.last = n
  <2>1. n \in Nat
    BY <1>2
  <2>2. x \in Publishers
    BY <1>5, <1>6, <2>1 DEF Publishers
  <2>3. /\ x.link = c.link /\ x.outbox = c.outbox /\ x.pending = c.pending
        /\ x.accepted = c.accepted /\ x.active = c.active /\ x.playback = c.playback
        /\ x.started = c.started /\ x.latest = c.latest /\ x.last = n
    BY <1>5, <1>6, <2>1 DEF Publishers
  <2> QED
    BY <1>6, <2>2, <2>3, Zenon DEF SamePublisher
<1>8. UNCHANGED <<mode, sub, toSub, toPub>>
  BY DEF TrySendLatest
<1>9. frames = [frames EXCEPT ![l] = frames[l]]
  BY StateTypes
<1>10. CASE pub' = c /\ UNCHANGED frames
  <2>1. \A s, on : Joint(pub, s, toSub[l], toPub[l], frames[l], mode[l], on) =>
                   Joint(c, s, toSub[l], toPub[l], frames[l], mode[l], on)
    BY <1>6, PubKeeps
  <2>2. frames' = [frames EXCEPT ![l] = frames[l]]
    BY <1>9, <1>10
  <2> QED
    BY <1>1, <1>6, <1>8, <1>10, <2>1, <2>2, PubFrameStep
<1>11. PICK flows \in SUBSET FlowSet :
         flows = IF pub.geometry \/ (Cadence # 0 /\ n % Cadence = 0) THEN FlowSet ELSE {"compact", "core"}
  <2>1. FlowSet \in SUBSET FlowSet /\ {"compact", "core"} \in SUBSET FlowSet
    BY FlowsAre
  <2> QED
    BY <2>1, Zenon
<1>12. PICK one : one = FlushFrames(x, frames[l])
  OBVIOUS
<1>13. PICK mid : mid = [one.side EXCEPT !.latest = Renewed(@, flows, pub.active, n)]
  OBVIOUS
<1>14. PICK two : two = FlushFrames(mid, one.queue)
  OBVIOUS
<1>15. CASE n > pub.last /\ pub' = two.side /\ frames' = [frames EXCEPT ![l] = two.queue]
  <2>1. /\ two.side \in Publishers /\ two.queue \in Seq(FrameRecords) /\ SameButFrames(x, two.side)
        /\ Sent(frames[l], x.latest, two.queue, two.side.latest, pub.active, n)
    BY <1>2, <1>3, <1>7, <1>12, <1>13, <1>14, LaneTakesResult
  <2>2. PICK h, v : h = two.side /\ v = two.queue
    OBVIOUS
  <2>3. pub.last \in Nat /\ n \in Nat /\ n > pub.last /\ pub.active # None
    BY <1>2, <1>3, <1>15, NtpAssumption DEF Publishers
  <2>4. ASSUME NEW s, NEW on, Joint(pub, s, toSub[l], toPub[l], frames[l], mode[l], on)
        PROVE  Joint(h, s, toSub[l], toPub[l], v, mode[l], on)
    <3>1. h \in Publishers /\ v \in Seq(FrameRecords) /\ h.last = n
      BY <1>7, <2>1, <2>2 DEF SameButFrames
    <3>2. /\ h.outbox = pub.outbox /\ h.pending = pub.pending /\ h.accepted = pub.accepted
          /\ h.active = pub.active /\ h.playback = pub.playback /\ h.started = pub.started
      BY <1>7, <2>1, <2>2 DEF SameButFrames
    <3>3. \A f \in ToSet(v) \cup Kept(h.latest) :
            f \in ToSet(frames[l]) \cup Kept(pub.latest) \/ (f.def = pub.active /\ f.sequence = n)
      BY <1>7, <2>1, <2>2, Zenon DEF Sent
    <3>4. \A held \in Latest :
             /\ InOrder(held, frames[l], pub.latest)
             /\ \A f \in ToSet(frames[l]) \cup Kept(pub.latest) \cup Kept(held) :
                  f.def = pub.active => f.sequence <= pub.last
             => InOrder(held, v, h.latest)
      BY <1>7, <2>1, <2>2, <2>3, Zenon DEF Sent
    <3> QED
      BY <2>3, <2>4, <3>1, <3>2, <3>3, <3>4, PubPublishes
  <2>5. h.link = pub.link /\ pub' = h /\ frames' = [frames EXCEPT ![pub.link] = v]
    BY <1>1, <1>7, <1>15, <2>1, <2>2 DEF SameButFrames
  <2> QED
    BY <1>1, <1>8, <2>4, <2>5, PubFrameStep
<1>16. PICK fc \in FrameRecords, fo \in FrameRecords, fg \in FrameRecords :
         fc = Frame("compact", n) /\ fo = Frame("core", n) /\ fg = Frame("geometry", n)
  BY <1>2, <1>3, FlowsAre DEF Frame, FrameRecords
<1>17. \A f \in {fc, fo, fg} : f.def = pub.active /\ f.sequence = n
  BY <1>16 DEF Frame
<1>18. PICK v1, v2, v3 : v1 = Offer(frames[l], fc) /\ v2 = Offer(v1, fo) /\ v3 = Offer(v2, fg)
  OBVIOUS
<1>19. v2 \in Seq(FrameRecords) /\ v3 \in Seq(FrameRecords) /\ ToSet(v2) \cup ToSet(v3) \subseteq ToSet(frames[l]) \cup {fc, fo, fg}
  <2>1. v1 \in Seq(FrameRecords) /\ ToSet(v1) \subseteq ToSet(frames[l]) \cup {fc}
    BY <1>2, <1>18, Offers
  <2>2. v2 \in Seq(FrameRecords) /\ ToSet(v2) \subseteq ToSet(v1) \cup {fo}
    BY <1>18, <2>1, Offers
  <2>3. v3 \in Seq(FrameRecords) /\ ToSet(v3) \subseteq ToSet(v2) \cup {fg}
    BY <1>18, <2>2, Offers
  <2> QED
    BY <2>1, <2>2, <2>3
<1>20. ASSUME NEW v \in {v2, v3}, n > pub.last, mode[l] = "Datagram", pub' = x,
              frames' = [frames EXCEPT ![l] = v]
       PROVE  PubStep
  <2>1. pub.last \in Nat /\ n \in Nat /\ n > pub.last /\ pub.active # None
    BY <1>2, <1>3, <1>20, NtpAssumption DEF Publishers
  <2>2. ASSUME NEW s, NEW on, Joint(pub, s, toSub[l], toPub[l], frames[l], mode[l], on)
        PROVE  Joint(x, s, toSub[l], toPub[l], v, mode[l], on)
    <3>1. v \in Seq(FrameRecords)
      BY <1>19
    <3>2. \A f \in ToSet(v) \cup Kept(x.latest) :
            f \in ToSet(frames[l]) \cup Kept(pub.latest) \/ (f.def = pub.active /\ f.sequence = n)
      BY <1>7, <1>17, <1>19
    <3>3. mode[l] # "ReliableLatestOnly"
      BY <1>20
    <3> QED
      BY <1>7, <2>1, <2>2, <3>1, <3>2, <3>3, PubPublishes
  <2> QED
    BY <1>1, <1>7, <1>8, <1>20, <2>2, PubFrameStep
<1>21. \/ pub' = c /\ UNCHANGED frames
       \/ n > pub.last /\ pub' = two.side /\ frames' = [frames EXCEPT ![l] = two.queue]
       \/ \E v \in {v2, v3} : /\ n > pub.last /\ mode[l] = "Datagram" /\ pub' = x
                              /\ frames' = [frames EXCEPT ![l] = v]
  <2>1. c.link = l
    BY <1>1, <1>6
  <2>2. CASE pub' = c /\ UNCHANGED frames
    BY <2>2
  <2> QED
    BY <1>1, <1>4, <1>5, <1>11, <1>12, <1>13, <1>14, <1>16, <1>18, <2>1, ZenonT(60)
       DEF TrySendLatest, Frame, FlowSet, Renewed
<1> QED
  BY <1>10, <1>15, <1>20, <1>21

-----------------------------------------------------------------------------
(* The publisher's steps on its link *)

\* A call of the publisher that queues one message.
LEMMA PubSendStep ==
    ASSUME TypesInv, NEW p, NEW x, PubSends(p, x), p.link = pub.link, p.outbox = pub.outbox,
           NEW h, h = [p EXCEPT !.outbox = Append(@, x)], h.link = pub.link,
           \A s, a, b, q, m, on : Joint(pub, s, a, b, q, m, on) => Joint(h, s, a, b, q, m, on)
    PROVE  PubStep
<1>1. PICK l \in Links : l = pub.link
  BY StateTypes
<1>2. h = QueueControl(p, p, x)
  BY DEF PubSends, QueueControl
<1>3. PICK out : out = FlushControl(h, toSub[l])
  OBVIOUS
<1>4. /\ pub' = out.side /\ toSub' = [toSub EXCEPT ![l] = out.queue]
      /\ mode' = mode /\ sub' = sub /\ toPub' = toPub /\ frames' = frames
  BY <1>1, <1>2, <1>3 DEF PubSends
<1>5. ASSUME NEW s, NEW on, Joint(pub, s, toSub[l], toPub[l], frames[l], mode[l], on)
      PROVE  Joint(out.side, s, out.queue, toPub[l], frames[l], mode[l], on) /\ out.side.link = l
  <2>1. Joint(h, s, toSub[l], toPub[l], frames[l], mode[l], on)
    BY <1>5
  <2>2. /\ Joint(FlushControl(h, toSub[l]).side, s, FlushControl(h, toSub[l]).queue, toPub[l],
                 frames[l], mode[l], on)
        /\ FlushControl(h, toSub[l]).side.link = h.link
    BY <2>1, PubFlushes
  <2> QED
    BY <1>1, <1>3, <2>2, Zenon
<1>6. /\ toPub = [toPub EXCEPT ![l] = toPub[l]] /\ frames = [frames EXCEPT ![l] = frames[l]]
      /\ [toSub EXCEPT ![l] = out.queue][l] = out.queue
  BY StateTypes
<1>7. toSub'[l] = out.queue
  BY <1>4, <1>6, Zenon
<1>8. /\ toSub' = [toSub EXCEPT ![l] = toSub'[l]] /\ toPub' = [toPub EXCEPT ![l] = toPub'[l]]
      /\ frames' = [frames EXCEPT ![l] = frames'[l]]
  BY <1>4, <1>6, <1>7, Zenon
<1>9. out.side.link = l
  <2>1. Joint(pub, sub, toSub[l], toPub[l], frames[l], mode[l], FALSE)
    BY DEF Joint, TypesInv
  <2> QED
    BY <1>5, <2>1
<1> QED
  BY <1>1, <1>4, <1>5, <1>7, <1>8, <1>9, Zenon DEF PubStep

\* send_hello of the publisher.
LEMMA PubHellos ==
    ASSUME TypesInv, PubHello
    PROVE  PubStep
<1>1. PICK p : p = [pub EXCEPT !.greeted = TRUE]
  OBVIOUS
<1>2. PICK x : x = Message("hello", pub.link)
  OBVIOUS
<1>3. pub \in Publishers /\ pub.outbox \in Seq(FromPublisher) /\ pub.link \in Nat
  BY StateTypes, Bounds DEF Links
<1>4. p \in Publishers /\ SamePublisher(pub, p) /\ p.outbox = pub.outbox /\ p.link = pub.link
  BY <1>1, <1>3 DEF Publishers, SamePublisher
<1>5. x \in FromPublisher /\ ~IsExchange(x)
  BY <1>2, <1>3, MessageTypes, MessageKinds
<1>6. PICK o \in Seq(FromPublisher) : o = Append(pub.outbox, x)
  BY <1>3, <1>5, AppendedFacts
<1>7. PICK h : h = [p EXCEPT !.outbox = Append(@, x)]
  OBVIOUS
<1>8. h = [p EXCEPT !.outbox = o]
  BY <1>4, <1>6, <1>7
<1>9. h \in Publishers /\ SamePublisher(p, h) /\ h.outbox = o /\ h.link = p.link
  BY <1>4, <1>8 DEF Publishers, SamePublisher
<1>10. SamePublisher(pub, h)
  BY <1>4, <1>9 DEF SamePublisher
<1>11. \A s, a, b, q, m, on : Joint(pub, s, a, b, q, m, on) => Joint(h, s, a, b, q, m, on)
  BY <1>5, <1>6, <1>9, <1>10, PubSays
<1>12. PubSends(p, x)
  BY <1>1, <1>2 DEF PubHello
<1> QED
  BY <1>4, <1>7, <1>9, <1>11, <1>12, PubSendStep

\* publish_descriptor: the activation leaves Idle.
LEMMA PubPublishesDescriptor ==
    ASSUME TypesInv, NEW d \in Definitions, PublishDescriptor(d)
    PROVE  PubStep
<1>1. PICK c : c = NoteReconfigure(pub)
  OBVIOUS
<1>2. PICK p : p = [c EXCEPT !.pending = d, !.accepted = FALSE]
  OBVIOUS
<1>3. PICK x : x = Message("proposal", d)
  OBVIOUS
<1>4. pub \in Publishers /\ pub.outbox \in Seq(FromPublisher)
  BY StateTypes
<1>5. c \in Publishers /\ SamePublisher(pub, c) /\ c.outbox = pub.outbox /\ c.link = pub.link
  <2>1. CASE c = pub
    BY <1>4, <2>1 DEF SamePublisher
  <2>2. CASE c = [pub EXCEPT !.reconfigured = @ + 1]
    BY <1>4, <2>2 DEF Publishers, SamePublisher
  <2> QED
    BY <1>1, <2>1, <2>2 DEF NoteReconfigure
<1>6. x \in FromPublisher
  BY <1>3, MessageTypes
<1>7. PICK o \in Seq(FromPublisher) : o = Append(pub.outbox, x)
  BY <1>4, <1>6, AppendedFacts
<1>8. p \in Publishers /\ p.outbox = pub.outbox /\ p.link = pub.link
  <2>1. d \in Sessions
    BY DEF Sessions
  <2> QED
    BY <1>2, <1>5, <2>1 DEF Publishers
<1>9. /\ p.pending = d /\ p.accepted = FALSE /\ p.active = pub.active /\ p.playback = pub.playback
      /\ p.started = pub.started /\ p.latest = pub.latest /\ p.last = pub.last
  <2>1. /\ p.pending = d /\ p.accepted = FALSE /\ p.active = c.active /\ p.playback = c.playback
        /\ p.started = c.started /\ p.latest = c.latest /\ p.last = c.last
    BY <1>2, <1>5 DEF Publishers
  <2> QED
    BY <1>5, <2>1 DEF SamePublisher
<1>10. PICK h : h = [p EXCEPT !.outbox = Append(@, x)]
  OBVIOUS
<1>11. h = [p EXCEPT !.outbox = o]
  BY <1>7, <1>8, <1>10
<1>12. h \in Publishers /\ h.outbox = o /\ h.link = p.link
  BY <1>8, <1>11 DEF Publishers
<1>13. /\ h.pending = d /\ h.accepted = FALSE /\ h.active = pub.active /\ h.playback = pub.playback
       /\ h.started = pub.started /\ h.latest = pub.latest /\ h.last = pub.last
  <2>1. /\ h.pending = p.pending /\ h.accepted = p.accepted /\ h.active = p.active
        /\ h.playback = p.playback /\ h.started = p.started /\ h.latest = p.latest /\ h.last = p.last
    BY <1>8, <1>11 DEF Publishers
  <2> QED
    BY <1>9, <2>1
<1>14. pub.pending = None /\ PubSends(p, x)
  BY <1>1, <1>2, <1>3 DEF PublishDescriptor
<1>15. h.outbox = Append(pub.outbox, Message("proposal", d))
  BY <1>3, <1>7, <1>12
<1>16. \A s, a, b, q, m, on : Joint(pub, s, a, b, q, m, on) => Joint(h, s, a, b, q, m, on)
  BY <1>12, <1>13, <1>14, <1>15, PubProposes
<1> QED
  BY <1>8, <1>10, <1>12, <1>14, <1>16, PubSendStep

\* poll_control of the publisher, once it knows what a message makes of it.
PubHandled(x, p, h) ==
    \/ x.kind = "hello" /\ h = PubOnHello(p, x.body)
    \/ x.kind = "accepted" /\ h = PubOnAccepted(p, x.body)
    \/ x.kind = "ready" /\ h = PubOnReady(p, x.body)
    \/ x.kind = "command" /\ h = PubOnCommand(p, x.body)
    \/ x.kind = "ping" /\ h = PubOnPing(p, x.body)
    \/ x.kind = "report" /\ h = PubOnReport(p, x.body)
    \/ x.kind = "geometry" /\ h = PubOnGeometry(p, x.body)

\* Every message the publisher handles keeps the two sides agreed.
LEMMA PubHandles ==
    ASSUME NEW p, NEW s, NEW a, NEW b, NEW q, NEW m, NEW on, Joint(p, s, a, b, q, m, on), b # <<>>,
           NEW h, PubHandled(Head(b), p, h)
    PROVE  Joint(h, s, a, Tail(b), q, m, on) /\ h.link = p.link
<1>1. CASE Head(b).kind = "accepted" /\ h = PubOnAccepted(p, Head(b).body)
  BY <1>1, PubOnAcceptance
<1>2. CASE Head(b).kind = "ready" /\ h = PubOnReady(p, Head(b).body)
  BY <1>2, PubOnReadiness
<1>3. CASE Head(b).kind = "command" /\ h = PubOnCommand(p, Head(b).body)
  BY <1>3, PubOnCommands
<1>4. CASE \/ Head(b).kind = "hello" /\ h = PubOnHello(p, Head(b).body)
           \/ Head(b).kind = "ping" /\ h = PubOnPing(p, Head(b).body)
           \/ Head(b).kind = "report" /\ h = PubOnReport(p, Head(b).body)
           \/ Head(b).kind = "geometry" /\ h = PubOnGeometry(p, Head(b).body)
  BY <1>4, PubOnPlain
<1> QED
  BY <1>1, <1>2, <1>3, <1>4 DEF PubHandled

\* poll_control of the publisher around one message: flush, handle, flush.
LEMMA PubPollStep ==
    ASSUME TypesInv, NEW l, l = pub.link, NEW ctl, ctl = FlushControl(pub, toSub[l]),
           NEW data, data = FlushFrames(ctl.side, frames[l]), NEW h, PubHandled(Head(toPub[l]), data.side, h),
           NEW out, out = FlushControl(h, ctl.queue),
           toPub[l] # <<>>, toPub' = [toPub EXCEPT ![l] = Tail(@)],
           frames' = [frames EXCEPT ![l] = data.queue],
           pub' = out.side, toSub' = [toSub EXCEPT ![l] = out.queue], UNCHANGED <<mode, sub>>
    PROVE  PubStep
<1>1. l \in Links
  BY StateTypes
<1>2. /\ toSub'[l] = out.queue /\ toPub'[l] = Tail(toPub[l]) /\ frames'[l] = data.queue
      /\ toSub' = [toSub EXCEPT ![l] = toSub'[l]] /\ toPub' = [toPub EXCEPT ![l] = toPub'[l]]
      /\ frames' = [frames EXCEPT ![l] = frames'[l]]
  BY <1>1 DEF TypesInv
<1>3. ASSUME NEW s, NEW on, Joint(pub, s, toSub[l], toPub[l], frames[l], mode[l], on)
      PROVE  Joint(out.side, s, out.queue, Tail(toPub[l]), data.queue, mode[l], on) /\ out.side.link = l
  <2>1. PICK a, b, q, m : a = toSub[l] /\ b = toPub[l] /\ q = frames[l] /\ m = mode[l]
    OBVIOUS
  <2>2. Joint(pub, s, a, b, q, m, on) /\ b # <<>>
    BY <1>3, <2>1, Zenon
  <2>3. Joint(ctl.side, s, ctl.queue, b, q, m, on) /\ ctl.side.link = pub.link
    <3>1. ctl = FlushControl(pub, a)
      BY <2>1
    <3>2. /\ Joint(FlushControl(pub, a).side, s, FlushControl(pub, a).queue, b, q, m, on)
          /\ FlushControl(pub, a).side.link = pub.link
      BY <2>2, PubFlushes
    <3> QED
      BY <3>1, <3>2, Zenon
  <2>4. Joint(data.side, s, ctl.queue, b, data.queue, m, on) /\ data.side.link = pub.link
    <3>1. data = FlushFrames(ctl.side, q)
      BY <2>1
    <3>2. /\ Joint(FlushFrames(ctl.side, q).side, s, ctl.queue, b, FlushFrames(ctl.side, q).queue, m, on)
          /\ FlushFrames(ctl.side, q).side.link = ctl.side.link
      BY <2>3, LaneFlushes
    <3> QED
      BY <2>3, <3>1, <3>2, Zenon
  <2>5. Joint(h, s, ctl.queue, Tail(b), data.queue, m, on) /\ h.link = pub.link
    <3>1. PubHandled(Head(b), data.side, h)
      BY <2>1
    <3>2. Joint(h, s, ctl.queue, Tail(b), data.queue, m, on) /\ h.link = data.side.link
      BY <2>2, <2>4, <3>1, PubHandles, SMTT(60)
    <3> QED
      BY <2>4, <3>2
  <2>6. Joint(out.side, s, out.queue, Tail(b), data.queue, m, on) /\ out.side.link = pub.link
    <3>1. /\ Joint(FlushControl(h, ctl.queue).side, s, FlushControl(h, ctl.queue).queue, Tail(b),
                   data.queue, m, on)
          /\ FlushControl(h, ctl.queue).side.link = h.link
      BY <2>5, PubFlushes
    <3> QED
      BY <2>5, <3>1, Zenon
  <2> QED
    BY <2>1, <2>6, Zenon
<1>4. out.side.link = l
  <2>1. Joint(pub, sub, toSub[l], toPub[l], frames[l], mode[l], FALSE)
    BY <1>1 DEF Joint, TypesInv
  <2> QED
    BY <1>3, <2>1
<1>5. mode' = mode /\ sub' = sub /\ pub' = out.side /\ toPub[l] # <<>> /\ pub.link = l
  OBVIOUS
<1>6. ASSUME NEW s, NEW on, Joint(pub, s, toSub[l], toPub[l], frames[l], mode[l], on)
      PROVE  Joint(pub', s, toSub'[l], toPub'[l], frames'[l], mode[l], on)
  <2>1. Joint(out.side, s, out.queue, Tail(toPub[l]), data.queue, mode[l], on)
    BY <1>3, <1>6
  <2> QED
    BY <1>2, <1>5, <2>1, Zenon
<1> QED
  BY <1>2, <1>4, <1>5, <1>6 DEF PubStep

\* poll_control of the publisher is a step of the publisher.
LEMMA PubPollsStep ==
    ASSUME TypesInv, PubPolls
    PROVE  PubStep
<1>1. PICK l \in Links : l = pub.link
  BY StateTypes
<1>2. PICK ctl : ctl = FlushControl(pub, toSub[l])
  OBVIOUS
<1>3. PICK data : data = FlushFrames(ctl.side, frames[l])
  OBVIOUS
<1>4. CASE PubIdlePoll
  <2>1. /\ pub' = data.side /\ toSub' = [toSub EXCEPT ![l] = ctl.queue]
        /\ frames' = [frames EXCEPT ![l] = data.queue]
        /\ mode' = mode /\ sub' = sub /\ toPub' = toPub
    BY <1>1, <1>2, <1>3, <1>4 DEF PubIdlePoll
  <2>2. /\ toSub'[l] = ctl.queue /\ frames'[l] = data.queue
        /\ toSub' = [toSub EXCEPT ![l] = toSub'[l]] /\ toPub' = [toPub EXCEPT ![l] = toPub'[l]]
        /\ frames' = [frames EXCEPT ![l] = frames'[l]]
    BY <2>1 DEF TypesInv
  <2>3. ASSUME NEW s, NEW on, Joint(pub, s, toSub[l], toPub[l], frames[l], mode[l], on)
        PROVE  Joint(data.side, s, ctl.queue, toPub[l], data.queue, mode[l], on) /\ data.side.link = l
    <3>1. /\ Joint(FlushControl(pub, toSub[l]).side, s, FlushControl(pub, toSub[l]).queue, toPub[l],
                   frames[l], mode[l], on)
          /\ FlushControl(pub, toSub[l]).side.link = pub.link
      BY <2>3, PubFlushes
    <3>2. Joint(ctl.side, s, ctl.queue, toPub[l], frames[l], mode[l], on) /\ ctl.side.link = l
      BY <1>1, <1>2, <3>1, Zenon
    <3>3. /\ Joint(FlushFrames(ctl.side, frames[l]).side, s, ctl.queue, toPub[l],
                   FlushFrames(ctl.side, frames[l]).queue, mode[l], on)
          /\ FlushFrames(ctl.side, frames[l]).side.link = ctl.side.link
      BY <3>2, LaneFlushes
    <3> QED
      BY <1>3, <3>2, <3>3, Zenon
  <2>4. data.side.link = l
    <3>1. Joint(pub, sub, toSub[l], toPub[l], frames[l], mode[l], FALSE)
      BY DEF Joint, TypesInv
    <3> QED
      BY <2>3, <3>1
  <2> QED
    BY <1>1, <2>1, <2>2, <2>3, <2>4, Zenon DEF PubStep
<1>5. ASSUME NEW h, PubHandled(Head(toPub[l]), data.side, h),
             toPub[l] # <<>>, toPub' = [toPub EXCEPT ![l] = Tail(@)],
             frames' = [frames EXCEPT ![l] = data.queue],
             pub' = FlushControl(h, ctl.queue).side,
             toSub' = [toSub EXCEPT ![l] = FlushControl(h, ctl.queue).queue], UNCHANGED <<mode, sub>>
      PROVE  PubStep
  BY <1>1, <1>2, <1>3, <1>5, PubPollStep
<1>6. CASE PubPoll("hello", PubOnHello)
  BY <1>1, <1>2, <1>3, <1>5, <1>6 DEF PubPoll, PubHandled
<1>7. CASE PubPoll("accepted", PubOnAccepted)
  BY <1>1, <1>2, <1>3, <1>5, <1>7 DEF PubPoll, PubHandled
<1>8. CASE PubPoll("ready", PubOnReady)
  BY <1>1, <1>2, <1>3, <1>5, <1>8 DEF PubPoll, PubHandled
<1>9. CASE PubPoll("command", PubOnCommand)
  BY <1>1, <1>2, <1>3, <1>5, <1>9 DEF PubPoll, PubHandled
<1>10. CASE PubPoll("ping", PubOnPing)
  BY <1>1, <1>2, <1>3, <1>5, <1>10 DEF PubPoll, PubHandled
<1>11. CASE PubPoll("report", PubOnReport)
  BY <1>1, <1>2, <1>3, <1>5, <1>11 DEF PubPoll, PubHandled
<1>12. CASE PubPoll("geometry", PubOnGeometry)
  BY <1>1, <1>2, <1>3, <1>5, <1>12 DEF PubPoll, PubHandled
<1> QED
  BY <1>4, <1>6, <1>7, <1>8, <1>9, <1>10, <1>11, <1>12 DEF PubPolls

-----------------------------------------------------------------------------
(* The subscriber's steps on its link *)

\* Both ends as the state has them, their types only.
LEMMA TypesJoin ==
    ASSUME TypesInv, NEW l \in Links
    PROVE  Joint(pub, sub, toSub[l], toPub[l], frames[l], mode[l], FALSE)
  BY DEF Joint, TypesInv

\* A call of the subscriber that queues one message outside an exchange.
LEMMA SubSendStep ==
    ASSUME TypesInv, NEW r \in Subscribers, NEW x \in FromSubscriber, SubSends(r, x),
           r.link = sub.link, r.outbox = sub.outbox, SameSubscriber(sub, r),
           ~IsExchange(x), Means(x, sub.active)
    PROVE  SubStep
<1>1. PICK l \in Links : l = sub.link
  BY StateTypes
<1>2. PICK o \in Seq(FromSubscriber) : o = Append(sub.outbox, x)
  BY StateTypes, AppendedFacts
<1>3. PICK h : h = [r EXCEPT !.outbox = o]
  OBVIOUS
<1>4. h \in Subscribers /\ h.outbox = o /\ h.link = l /\ SameSubscriber(r, h)
  BY <1>1, <1>3 DEF Subscribers, SameSubscriber
<1>5. SameSubscriber(sub, h)
  BY <1>4 DEF SameSubscriber
<1>6. h = QueueControl(r, r, x)
  BY <1>2, <1>3 DEF SubSends, QueueControl
<1>7. PICK out : out = FlushControl(h, toPub[l])
  OBVIOUS
<1>8. /\ sub' = out.side /\ toPub' = [toPub EXCEPT ![l] = out.queue]
      /\ mode' = mode /\ pub' = pub /\ toSub' = toSub /\ frames' = frames
  BY <1>1, <1>6, <1>7 DEF SubSends
<1>9. ASSUME NEW p, NEW on, Joint(p, sub, toSub[l], toPub[l], frames[l], mode[l], on)
      PROVE  Joint(p, out.side, toSub[l], out.queue, frames[l], mode[l], on) /\ out.side.link = l
  <2>1. Joint(p, h, toSub[l], toPub[l], frames[l], mode[l], on)
    BY <1>2, <1>4, <1>5, <1>9, SubSays
  <2>2. /\ Joint(p, FlushControl(h, toPub[l]).side, toSub[l], FlushControl(h, toPub[l]).queue,
                 frames[l], mode[l], on)
        /\ FlushControl(h, toPub[l]).side.link = h.link
    BY <2>1, SubFlushes
  <2> QED
    BY <1>4, <1>7, <2>2, Zenon
<1>10. /\ toSub = [toSub EXCEPT ![l] = toSub[l]] /\ frames = [frames EXCEPT ![l] = frames[l]]
       /\ [toPub EXCEPT ![l] = out.queue][l] = out.queue
  BY StateTypes
<1>11. toPub'[l] = out.queue
  BY <1>8, <1>10, Zenon
<1>12. /\ toSub' = [toSub EXCEPT ![l] = toSub'[l]] /\ toPub' = [toPub EXCEPT ![l] = toPub'[l]]
       /\ frames' = [frames EXCEPT ![l] = frames'[l]]
  BY <1>8, <1>10, <1>11, Zenon
<1>13. out.side.link = l
  BY <1>9, TypesJoin
<1> QED
  BY <1>1, <1>8, <1>9, <1>11, <1>12, <1>13, Zenon DEF SubStep

\* The calls of the subscriber's application.
LEMMA SubCalls ==
    ASSUME TypesInv,
           \/ SubHello \/ RequestGeometry \/ SendPing \/ SendReceiverReport
           \/ \E c \in {"Running", "Paused", "Stopped"} : SendCommand(c)
    PROVE  SubStep
<1>1. /\ sub \in Subscribers /\ sub.outbox \in Seq(FromSubscriber) /\ sub.link \in Nat
      /\ sub.ping \in Nat /\ sub.active \in Sessions
  <2>1. sub \in Subscribers /\ sub.outbox \in Seq(FromSubscriber) /\ sub.link \in Nat
    BY StateTypes, Bounds DEF Links
  <2> QED
    BY <2>1 DEF Subscribers
<1>2. SameSubscriber(sub, sub)
  BY DEF SameSubscriber
<1>3. CASE SubHello
  <2>1. PICK r : r = [sub EXCEPT !.greeted = TRUE]
    OBVIOUS
  <2>2. r \in Subscribers /\ SameSubscriber(sub, r) /\ r.outbox = sub.outbox /\ r.link = sub.link
    BY <1>1, <2>1 DEF Subscribers, SameSubscriber
  <2>3. SubSends(r, Message("hello", sub.link))
    BY <1>3, <2>1 DEF SubHello
  <2> QED
    BY <1>1, <2>2, <2>3, MessageTypes, MessageKinds, SubSendStep
<1>4. CASE RequestGeometry
  <2>1. SubSends(sub, Message("geometry", None))
    BY <1>4 DEF RequestGeometry
  <2> QED
    BY <1>1, <1>2, <2>1, MessageTypes, MessageKinds, SubSendStep
<1>5. CASE SendReceiverReport
  <2>1. SubSends(sub, Message("report", None))
    BY <1>5 DEF SendReceiverReport
  <2> QED
    BY <1>1, <1>2, <2>1, MessageTypes, MessageKinds, SubSendStep
<1>6. CASE SendPing
  <2>1. PICK i \in Nat : i = sub.ping + 1
    BY <1>1
  <2>2. PICK r : r = [sub EXCEPT !.ping = i]
    OBVIOUS
  <2>3. r \in Subscribers /\ SameSubscriber(sub, r) /\ r.outbox = sub.outbox /\ r.link = sub.link
    BY <1>1, <2>2 DEF Subscribers, SameSubscriber
  <2>4. SubSends(r, Message("ping", i))
    BY <1>6, <2>1, <2>2 DEF SendPing
  <2> QED
    BY <2>3, <2>4, MessageTypes, MessageKinds, SubSendStep
<1>7. ASSUME NEW c \in Commands, SendCommand(c) PROVE SubStep
  <2>1. sub.active \in Definitions
    BY <1>1, <1>7 DEF SendCommand, Sessions
  <2>2. PICK x \in FromSubscriber : x = Message("command", [command |-> c, meant |-> sub.active])
    BY <2>1, MessageTypes
  <2>3. SubSends(sub, x)
    BY <1>7, <2>2 DEF SendCommand
  <2>4. ~IsExchange(x) /\ Means(x, sub.active)
    BY <2>2, MessageKinds
  <2> QED
    BY <1>1, <1>2, <2>3, <2>4, SubSendStep
<1> QED
  BY <1>3, <1>4, <1>5, <1>6, <1>7 DEF Commands

\* poll_control of the subscriber, once it knows what a message makes of it.
SubHandled(x, s, h) ==
    \/ x.kind = "hello" /\ h \in SubOnHello(s, x.body)
    \/ x.kind = "proposal" /\ h \in SubOnProposal(s, x.body)
    \/ x.kind = "confirmed" /\ h \in SubOnConfirmed(s, x.body)
    \/ x.kind = "pong" /\ h \in SubOnPong(s, x.body)

\* Every message the subscriber handles keeps the two sides agreed.
LEMMA SubHandles ==
    ASSUME NEW p, NEW s, NEW a, NEW b, NEW q, NEW m, NEW on, Joint(p, s, a, b, q, m, on), a # <<>>,
           NEW h, SubHandled(Head(a), s, h)
    PROVE  Joint(p, h, Tail(a), b, q, m, on) /\ h.link = s.link
<1>1. CASE Head(a).kind = "proposal" /\ h \in SubOnProposal(s, Head(a).body)
  BY <1>1, SubOnProposals
<1>2. CASE Head(a).kind = "confirmed" /\ h \in SubOnConfirmed(s, Head(a).body)
  BY <1>2, SubOnConfirmation
<1>3. CASE \/ Head(a).kind = "hello" /\ h \in SubOnHello(s, Head(a).body)
           \/ Head(a).kind = "pong" /\ h \in SubOnPong(s, Head(a).body)
  BY <1>3, SubOnPlain
<1> QED
  BY <1>1, <1>2, <1>3 DEF SubHandled

\* poll_control of the subscriber around one message: flush, handle, flush.
LEMMA SubPollStep ==
    ASSUME TypesInv, NEW l, l = sub.link, NEW ctl, ctl = FlushControl(sub, toPub[l]),
           NEW h, SubHandled(Head(toSub[l]), ctl.side, h), NEW out, out = FlushControl(h, ctl.queue),
           toSub[l] # <<>>, toSub' = [toSub EXCEPT ![l] = Tail(@)],
           sub' = out.side, toPub' = [toPub EXCEPT ![l] = out.queue], UNCHANGED <<mode, pub, frames>>
    PROVE  SubStep
<1>1. l \in Links
  BY StateTypes
<1>2. /\ toPub'[l] = out.queue /\ toSub'[l] = Tail(toSub[l]) /\ frames' = frames
      /\ toSub' = [toSub EXCEPT ![l] = toSub'[l]] /\ toPub' = [toPub EXCEPT ![l] = toPub'[l]]
      /\ frames' = [frames EXCEPT ![l] = frames'[l]]
  BY <1>1 DEF TypesInv
<1>3. ASSUME NEW p, NEW on, Joint(p, sub, toSub[l], toPub[l], frames[l], mode[l], on)
      PROVE  Joint(p, out.side, Tail(toSub[l]), out.queue, frames[l], mode[l], on) /\ out.side.link = l
  <2>1. PICK a, b, q, m : a = toSub[l] /\ b = toPub[l] /\ q = frames[l] /\ m = mode[l]
    OBVIOUS
  <2>2. Joint(p, sub, a, b, q, m, on) /\ a # <<>>
    BY <1>3, <2>1, Zenon
  <2>3. Joint(p, ctl.side, a, ctl.queue, q, m, on) /\ ctl.side.link = sub.link
    <3>1. ctl = FlushControl(sub, b)
      BY <2>1
    <3>2. /\ Joint(p, FlushControl(sub, b).side, a, FlushControl(sub, b).queue, q, m, on)
          /\ FlushControl(sub, b).side.link = sub.link
      BY <2>2, SubFlushes
    <3> QED
      BY <3>1, <3>2, Zenon
  <2>4. Joint(p, h, Tail(a), ctl.queue, q, m, on) /\ h.link = sub.link
    <3>1. SubHandled(Head(a), ctl.side, h)
      BY <2>1
    <3>2. Joint(p, h, Tail(a), ctl.queue, q, m, on) /\ h.link = ctl.side.link
      BY <2>2, <2>3, <3>1, SubHandles
    <3> QED
      BY <2>3, <3>2
  <2>5. Joint(p, out.side, Tail(a), out.queue, q, m, on) /\ out.side.link = sub.link
    <3>1. /\ Joint(p, FlushControl(h, ctl.queue).side, Tail(a), FlushControl(h, ctl.queue).queue, q, m, on)
          /\ FlushControl(h, ctl.queue).side.link = h.link
      BY <2>4, SubFlushes
    <3> QED
      BY <2>4, <3>1, Zenon
  <2> QED
    BY <2>1, <2>5, Zenon
<1>4. out.side.link = l
  BY <1>1, <1>3, TypesJoin
<1>5. mode' = mode /\ pub' = pub /\ sub' = out.side /\ toSub[l] # <<>> /\ sub.link = l
  OBVIOUS
<1>6. ASSUME NEW p, NEW on, Joint(p, sub, toSub[l], toPub[l], frames[l], mode[l], on)
      PROVE  Joint(p, sub', toSub'[l], toPub'[l], frames'[l], mode[l], on)
  <2>1. Joint(p, out.side, Tail(toSub[l]), out.queue, frames[l], mode[l], on)
    BY <1>3, <1>6
  <2> QED
    BY <1>2, <1>5, <2>1, Zenon
<1> QED
  BY <1>2, <1>4, <1>5, <1>6 DEF SubStep

\* poll_control of the subscriber is a step of the subscriber.
LEMMA SubPollsStep ==
    ASSUME TypesInv, SubPolls
    PROVE  SubStep
<1>1. PICK l \in Links : l = sub.link
  BY StateTypes
<1>2. PICK ctl : ctl = FlushControl(sub, toPub[l])
  OBVIOUS
<1>3. CASE SubIdlePoll
  <2>1. /\ sub' = ctl.side /\ toPub' = [toPub EXCEPT ![l] = ctl.queue]
        /\ mode' = mode /\ pub' = pub /\ toSub' = toSub /\ frames' = frames
    BY <1>1, <1>2, <1>3 DEF SubIdlePoll
  <2>2. /\ toPub'[l] = ctl.queue
        /\ toSub' = [toSub EXCEPT ![l] = toSub'[l]] /\ toPub' = [toPub EXCEPT ![l] = toPub'[l]]
        /\ frames' = [frames EXCEPT ![l] = frames'[l]]
    BY <2>1 DEF TypesInv
  <2>3. ASSUME NEW p, NEW on, Joint(p, sub, toSub[l], toPub[l], frames[l], mode[l], on)
        PROVE  Joint(p, ctl.side, toSub[l], ctl.queue, frames[l], mode[l], on) /\ ctl.side.link = l
    <3>1. /\ Joint(p, FlushControl(sub, toPub[l]).side, toSub[l], FlushControl(sub, toPub[l]).queue,
                   frames[l], mode[l], on)
          /\ FlushControl(sub, toPub[l]).side.link = sub.link
      BY <2>3, SubFlushes
    <3> QED
      BY <1>1, <1>2, <3>1, Zenon
  <2>4. ctl.side.link = l
    BY <2>3, TypesJoin
  <2> QED
    BY <1>1, <2>1, <2>2, <2>3, <2>4, Zenon DEF SubStep
<1>4. ASSUME NEW h, SubHandled(Head(toSub[l]), ctl.side, h),
             toSub[l] # <<>>, toSub' = [toSub EXCEPT ![l] = Tail(@)],
             sub' = FlushControl(h, ctl.queue).side,
             toPub' = [toPub EXCEPT ![l] = FlushControl(h, ctl.queue).queue],
             UNCHANGED <<mode, pub, frames>>
      PROVE  SubStep
  BY <1>1, <1>2, <1>4, SubPollStep
<1>5. CASE SubPoll("hello", SubOnHello)
  BY <1>1, <1>2, <1>4, <1>5 DEF SubPoll, SubHandled
<1>6. CASE SubPoll("proposal", SubOnProposal)
  BY <1>1, <1>2, <1>4, <1>6 DEF SubPoll, SubHandled
<1>7. CASE SubPoll("confirmed", SubOnConfirmed)
  BY <1>1, <1>2, <1>4, <1>7 DEF SubPoll, SubHandled
<1>8. CASE SubPoll("pong", SubOnPong)
  BY <1>1, <1>2, <1>4, <1>8 DEF SubPoll, SubHandled
<1> QED
  BY <1>3, <1>5, <1>6, <1>7, <1>8 DEF SubPolls

-----------------------------------------------------------------------------
(* Frames that reach the subscriber *)

\* The recursive function of Drained.
IsDrain(f, latest, q, n) ==
    f = [i \in 0 .. n |-> IF i = 0 THEN latest ELSE KeepLatest(f[i - 1], q[i])]

\* The drain written as a recursive function exists.
LEMMA DrainExists ==
    ASSUME NEW latest, NEW q, NEW n \in Nat
    PROVE  \E f : IsDrain(f, latest, q, n)
<1> DEFINE T == {k \in Nat : ~ \E f : IsDrain(f, latest, q, k)}
<1>1. ASSUME T # {} PROVE FALSE
  <2>1. PICK k \in T : \A m \in T : k <= m
    BY <1>1, LeastElement
  <2>2. CASE k = 0
    <3> DEFINE f == [i \in 0 .. 0 |-> latest]
    <3>1. IsDrain(f, latest, q, 0)
      BY DEF IsDrain
    <3> QED
      BY <2>2, <3>1
  <2>3. CASE k # 0
    <3>0. k \in Nat
      BY <2>1
    <3>1. k - 1 \in Nat /\ ~ (k <= k - 1)
      BY <2>3, <3>0
    <3>a. k - 1 \notin T
      <4> HIDE DEF T
      <4> QED
        BY <2>1, <3>1
    <3>2. PICK f : IsDrain(f, latest, q, k - 1)
      BY <3>1, <3>a
    <3> DEFINE g == [i \in 0 .. k |-> IF i = 0 THEN latest ELSE KeepLatest(f[i - 1], q[i])]
    <3>3. \A i \in 0 .. k : i # 0 => g[i - 1] = f[i - 1]
      <4> SUFFICES ASSUME NEW i \in 0 .. k, i # 0 PROVE g[i - 1] = f[i - 1]
        OBVIOUS
      <4>1. i - 1 \in 0 .. k - 1 /\ i - 1 \in 0 .. k
        BY <3>0, <3>1
      <4>2. f[i - 1] = IF i - 1 = 0 THEN latest ELSE KeepLatest(f[(i - 1) - 1], q[i - 1])
        BY <3>2, <4>1 DEF IsDrain
      <4> QED
        BY <4>1, <4>2
    <3>4. IsDrain(g, latest, q, k)
      BY <3>3 DEF IsDrain
    <3> QED
      BY <2>1, <3>4
  <2> QED
    BY <2>2, <2>3
<1> QED
  BY <1>1

\* A frame that is kept is one that was held or the one that came.
LEMMA Keeps ==
    ASSUME NEW latest \in Latest, NEW f \in FrameRecords
    PROVE  /\ KeepLatest(latest, f) \in Latest
           /\ \A w \in FlowSet : KeepLatest(latest, f)[w] = latest[w] \/ KeepLatest(latest, f)[w] = f
<1>1. /\ latest \in [FlowSet -> FrameRecords \cup {None}]
      /\ \A w \in FlowSet : latest[w] # None => latest[w].flow = w
  BY DEF Latest
<1>2. f.flow \in FlowSet
  BY DEF FrameRecords
<1>3. PICK g : g = [latest EXCEPT ![f.flow] = f]
  OBVIOUS
<1>4. g \in [FlowSet -> FrameRecords \cup {None}]
  BY <1>1, <1>3
<1>5. \A w \in FlowSet : (w = f.flow /\ g[w] = f) \/ (w # f.flow /\ g[w] = latest[w])
  BY <1>1, <1>3
<1>6. g \in Latest
  BY <1>1, <1>4, <1>5 DEF Latest
<1>7. KeepLatest(latest, f) = latest \/ KeepLatest(latest, f) = g
  BY <1>3 DEF KeepLatest
<1> QED
  BY <1>5, <1>6, <1>7

\* What the receiver holds once it has drained n frames of the lane.
LEMMA DrainedFacts ==
    ASSUME NEW latest \in Latest, NEW q \in Seq(FrameRecords), NEW n \in Nat, n <= Len(q)
    PROVE  /\ Drained(latest, q, n) \in Latest
           /\ \A w \in FlowSet : \/ Drained(latest, q, n)[w] = latest[w]
                                 \/ \E j \in 1 .. n : Drained(latest, q, n)[w] = q[j]
<1>1. PICK f : f = CHOOSE g : IsDrain(g, latest, q, n)
  OBVIOUS
<1>2. IsDrain(f, latest, q, n)
  BY <1>1, DrainExists
<1>3. Drained(latest, q, n) = f[n]
  BY <1>1, Zenon DEF Drained, IsDrain
<1>4. f[0] = latest /\ \A i \in 1 .. n : f[i] = KeepLatest(f[i - 1], q[i]) /\ q[i] \in FrameRecords
  BY <1>2 DEF IsDrain
<1> DEFINE Good(k) == f[k] \in Latest /\ \A w \in FlowSet : f[k][w] = latest[w] \/ \E j \in 1 .. k : f[k][w] = q[j]
           T == {k \in 0 .. n : ~Good(k)}
<1>5. ASSUME T # {} PROVE FALSE
  <2>1. PICK k \in T : \A m \in T : k <= m
    <3>1. T \in SUBSET Nat
      OBVIOUS
    <3> HIDE DEF T
    <3> QED
      BY <1>5, <3>1, LeastElement
  <2>2. k \in 0 .. n /\ ~Good(k)
    BY <2>1
  <2>3. k # 0
    BY <1>4, <2>2
  <2>4. k \in 1 .. n /\ k - 1 \in 0 .. n /\ ~(k <= k - 1)
    BY <2>2, <2>3
  <2>5. Good(k - 1)
    <3>1. k - 1 \notin T
      <4> HIDE DEF T
      <4> QED
        BY <2>1, <2>4
    <3> HIDE DEF Good
    <3> QED
      BY <2>4, <3>1
  <2>6. PICK e \in Latest : e = f[k - 1]
    BY <2>5
  <2>7. f[k] = KeepLatest(e, q[k]) /\ q[k] \in FrameRecords
    BY <1>4, <2>4, <2>6
  <2>8. f[k] \in Latest /\ \A w \in FlowSet : f[k][w] = e[w] \/ f[k][w] = q[k]
    BY <2>7, Keeps
  <2>9. \A w \in FlowSet : e[w] = latest[w] \/ \E j \in 1 .. k - 1 : e[w] = q[j]
    BY <2>5, <2>6
  <2>10. 1 .. k - 1 \subseteq 1 .. k /\ k \in 1 .. k
    BY <2>4
  <2>11. \A w \in FlowSet : f[k][w] = latest[w] \/ \E j \in 1 .. k : f[k][w] = q[j]
    BY <2>8, <2>9, <2>10
  <2> QED
    BY <2>2, <2>8, <2>11
<1>6. Good(n)
  <2>1. n \in 0 .. n
    OBVIOUS
  <2> HIDE DEF Good
  <2> QED
    BY <1>5, <2>1
<1> QED
  BY <1>3, <1>6

\* Frames drained into the receiver: none is made, and none is overtaken by a later one.
Received(q, held, v, rest) ==
    /\ \A waiting \in Latest : InOrder(held, q, waiting) => InOrder(rest, v, waiting)
    /\ ToSet(v) \cup Kept(rest) \subseteq ToSet(q) \cup Kept(held)

\* ReliableLatestReceiver.poll only forgets frames that newer ones of their flow replace.
LEMMA DrainReceives ==
    ASSUME NEW held \in Latest, NEW q \in Seq(FrameRecords), NEW n \in Nat, n <= Len(q)
    PROVE  /\ SubSeq(q, n + 1, Len(q)) \in Seq(FrameRecords) /\ Drained(held, q, n) \in Latest
           /\ Received(q, held, SubSeq(q, n + 1, Len(q)), Drained(held, q, n))
<1>0. PICK rest, v : rest = Drained(held, q, n) /\ v = SubSeq(q, n + 1, Len(q))
  OBVIOUS
<1>1. /\ rest \in Latest
      /\ \A w \in FlowSet : rest[w] = held[w] \/ \E j \in 1 .. n : rest[w] = q[j]
  BY <1>0, DrainedFacts
<1>2. PICK c \in Nat : c = Len(q) /\ DOMAIN q = 1 .. c /\ n <= c
  OBVIOUS
<1>3. /\ v \in Seq(FrameRecords) /\ DOMAIN v = 1 .. (c - n)
      /\ \A i \in DOMAIN v : v[i] = q[n + i]
  <2>1. \A i \in n + 1 .. c : q[i] \in FrameRecords
    BY <1>2
  <2>2. v \in Seq(FrameRecords)
    BY <1>0, <1>2, <2>1, SubSeqProperties
  <2>3. Len(v) = c - n /\ \A i \in 1 .. (c - n) : v[i] = q[n + i]
    BY <1>0, <1>2
  <2> QED
    BY <2>2, <2>3
<1>4. \A i \in DOMAIN v : n + i \in DOMAIN q /\ i \in Nat /\ n + i > n
  BY <1>2, <1>3
<1>5. ToSet(v) \cup Kept(rest) \subseteq ToSet(q) \cup Kept(held)
  <2>1. ToSet(v) \subseteq ToSet(q)
    BY <1>3, <1>4 DEF ToSet
  <2>2. ASSUME NEW f \in Kept(rest) PROVE f \in ToSet(q) \cup Kept(held)
    <3>1. PICK w \in FlowSet : f = rest[w] /\ f # None
      BY <2>2 DEF Kept
    <3>2. CASE rest[w] = held[w]
      BY <3>1, <3>2 DEF Kept
    <3>3. ASSUME NEW j \in 1 .. n, rest[w] = q[j] PROVE f \in ToSet(q)
      BY <1>2, <3>1, <3>3 DEF ToSet
    <3> QED
      BY <1>1, <3>2, <3>3
  <2> QED
    BY <2>1, <2>2
<1>6. ASSUME NEW waiting \in Latest, InOrder(held, q, waiting) PROVE InOrder(rest, v, waiting)
  <2>1. /\ \A i, j \in DOMAIN q : i < j => Before(q[i], q[j])
        /\ \A w \in FlowSet : waiting[w] # None => \A i \in DOMAIN q : Before(q[i], waiting[w])
        /\ \A w \in FlowSet : held[w] # None => \A i \in DOMAIN q : Before(held[w], q[i])
        /\ \A w \in FlowSet : held[w] # None /\ waiting[w] # None => Before(held[w], waiting[w])
    BY <1>6 DEF InOrder
  <2>2. ASSUME NEW i \in DOMAIN v, NEW j \in DOMAIN v, i < j PROVE Before(v[i], v[j])
    <3>1. n + i < n + j /\ n + i \in DOMAIN q /\ n + j \in DOMAIN q
      BY <1>4, <2>2
    <3> QED
      BY <1>3, <2>1, <3>1
  <2>3. \A w \in FlowSet : waiting[w] # None => \A i \in DOMAIN v : Before(v[i], waiting[w])
    BY <1>3, <1>4, <2>1
  <2>4. ASSUME NEW w \in FlowSet, rest[w] # None, NEW i \in DOMAIN v PROVE Before(rest[w], v[i])
    <3>1. v[i] = q[n + i] /\ n + i \in DOMAIN q
      BY <1>3, <1>4
    <3>2. CASE rest[w] = held[w]
      BY <2>1, <2>4, <3>1, <3>2
    <3>3. ASSUME NEW j \in 1 .. n, rest[w] = q[j] PROVE Before(rest[w], v[i])
      <4>1. j \in DOMAIN q /\ j < n + i
        BY <1>2, <1>4
      <4> QED
        BY <2>1, <3>1, <3>3, <4>1
    <3> QED
      BY <1>1, <3>2, <3>3
  <2>5. ASSUME NEW w \in FlowSet, rest[w] # None, waiting[w] # None PROVE Before(rest[w], waiting[w])
    <3>1. CASE rest[w] = held[w]
      BY <2>1, <2>5, <3>1
    <3>2. ASSUME NEW j \in 1 .. n, rest[w] = q[j] PROVE Before(rest[w], waiting[w])
      <4>1. j \in DOMAIN q
        BY <1>2
      <4> QED
        BY <2>1, <2>5, <3>2, <4>1
    <3> QED
      BY <1>1, <3>1, <3>2
  <2> QED
    BY <2>2, <2>3, <2>4, <2>5 DEF InOrder
<1>7. Received(q, held, v, rest)
  BY <1>5, <1>6 DEF Received
<1> QED
  BY <1>0, <1>1, <1>3, <1>7, Zenon

\* Subscribers that differ in the windows, the fuse and what the guards completed.
SameButProgress(s, t) ==
    /\ t.link = s.link /\ t.outbox = s.outbox /\ t.pending = s.pending /\ t.active = s.active
    /\ t.past = s.past /\ t.stalled = s.stalled /\ t.latest = s.latest

\* The steps poll_realtime_inner is made of.
LEMMA SubCounts ==
    ASSUME NEW s \in Subscribers, NEW c, c = CountFrame(s)
    PROVE  /\ c \in Subscribers /\ SameButProgress(s, c)
           /\ c.done = s.done /\ c.late = s.late /\ c.violations = s.violations
<1>1. PICK i \in Nat, j \in Nat : i = s.burst + 1 /\ j = s.sustained + 1
  BY DEF Subscribers
<1>2. c = [s EXCEPT !.burst = i, !.sustained = j]
  BY <1>1 DEF CountFrame
<1>3. c \in Subscribers
  BY <1>2 DEF Subscribers
<1>4. /\ SameButProgress(s, c)
      /\ c.done = s.done /\ c.late = s.late /\ c.violations = s.violations
  BY <1>2 DEF Subscribers, SameButProgress
<1> QED
  BY <1>3, <1>4

\* A frame that is too old is noted.
LEMMA SubSees ==
    ASSUME NEW s \in Subscribers, NEW late \in BOOLEAN, NEW c, c = [s EXCEPT !.late = @ \/ late]
    PROVE  /\ c \in Subscribers /\ SameButProgress(s, c) /\ c.done = s.done
           /\ c.late = (s.late \/ late) /\ c.violations = s.violations
<1>1. PICK e \in BOOLEAN : e = (s.late \/ late)
  BY DEF Subscribers
<1>2. c = [s EXCEPT !.late = e]
  BY <1>1
<1>3. c \in Subscribers
  BY <1>2 DEF Subscribers
<1>4. SameButProgress(s, c) /\ c.done = s.done /\ c.late = e /\ c.violations = s.violations
  BY <1>2 DEF Subscribers, SameButProgress
<1> QED
  BY <1>1, <1>3, <1>4

\* A violation is counted.
LEMMA SubViolates ==
    ASSUME NEW s \in Subscribers, NEW c, c = Violation(s)
    PROVE  c \in Subscribers /\ SameButProgress(s, c) /\ c.done = s.done /\ c.late = s.late
<1>1. PICK i \in Nat, e \in BOOLEAN : i = s.violations + 1 /\ e = (s.violations + 1 >= MaxViolations)
  <2>1. s.violations + 1 \in Nat
    BY DEF Subscribers
  <2>2. (s.violations + 1 >= MaxViolations) \in BOOLEAN
    BY <2>1, NtpAssumption
  <2> QED
    BY <2>1, <2>2
<1>2. c = [s EXCEPT !.violations = i, !.fused = e]
  BY <1>1 DEF Violation
<1>3. c \in Subscribers
  BY <1>2 DEF Subscribers
<1>4. SameButProgress(s, c) /\ c.done = s.done /\ c.late = s.late
  BY <1>2 DEF Subscribers, SameButProgress
<1> QED
  BY <1>3, <1>4

\* A guard or a reassembler completes a frame.
LEMMA SubCompletes ==
    ASSUME NEW s \in Subscribers, NEW f \in FrameRecords, NEW c, c = Complete(s, f)
    PROVE  /\ c \in Subscribers /\ SameButProgress(s, c)
           /\ c.done = [s.done EXCEPT ![f.flow] = f.sequence]
           /\ c.late = s.late /\ c.violations = s.violations
<1>1. f.flow \in FlowSet /\ f.sequence \in Nat /\ s.done \in [FlowSet -> Nat]
  BY DEF FrameRecords, Subscribers
<1>2. PICK e \in [FlowSet -> Nat] : e = [s.done EXCEPT ![f.flow] = f.sequence]
  BY <1>1
<1>3. c = [s EXCEPT !.done = e]
  BY <1>2 DEF Complete
<1>4. c \in Subscribers
  BY <1>3 DEF Subscribers
<1>5. SameButProgress(s, c) /\ c.done = e /\ c.late = s.late /\ c.violations = s.violations
  BY <1>3 DEF Subscribers, SameButProgress
<1> QED
  BY <1>2, <1>4, <1>5

\* What becomes of a frame: counted, seen, a violation or complete.
Outcome(s, f, t) ==
    /\ t \in Subscribers /\ SameButProgress(s, t)
    /\ t.done = s.done \/ t.done = [s.done EXCEPT ![f.flow] = f.sequence]

\* The same for a frame of an honest publisher: only one that is late counts as a violation,
\* and only frames of the session in force are complete.
Clean(s, f, t) ==
    /\ t.done = s.done \/ (f.def = s.active /\ t.done = [s.done EXCEPT ![f.flow] = f.sequence])
    /\ ~t.late => ~s.late /\ t.violations = s.violations

\* poll_realtime_inner on one frame: what it may change, and that it counts no violation when
\* the guard accepts.
LEMMA FrameOutcome ==
    ASSUME NEW s \in Subscribers, NEW f \in FrameRecords, NEW late \in BOOLEAN,
           NEW t, t = OnFrame(s, f, late)
    PROVE  /\ Outcome(s, f, t)
           /\ /\ mode[s.link] = "ReliableLatestOnly"
              /\ s.active # None /\ CurrentGeneration(s, f) => GuardAccepts(s, f)
              => Clean(s, f, t)
<1>1. f.flow \in {"compact", "core", "geometry"}
  BY FlowsAre DEF FrameRecords
<1>2. s.late \in BOOLEAN /\ SameButProgress(s, s)
  BY DEF Subscribers, SameButProgress
<1>3. CASE t = s
  BY <1>2, <1>3 DEF Outcome, Clean
<1>4. PICK c : c = CountFrame(s)
  OBVIOUS
<1>5. /\ c \in Subscribers /\ SameButProgress(s, c)
      /\ c.done = s.done /\ c.late = s.late /\ c.violations = s.violations
  BY <1>4, SubCounts
<1>6. CASE t = c
  BY <1>2, <1>5, <1>6 DEF Outcome, Clean
<1>7. ASSUME s.active # None, CurrentGeneration(s, f), f.flow = "compact", t = OnCompact(c, f, late)
      PROVE  /\ Outcome(s, f, t)
             /\ GuardAccepts(s, f) => Clean(s, f, t)
  <2>1. PICK e : e = [c EXCEPT !.late = @ \/ late]
    OBVIOUS
  <2>2. /\ e \in Subscribers /\ SameButProgress(s, e) /\ e.done = s.done
        /\ e.late = (s.late \/ late) /\ e.violations = s.violations
    BY <1>5, <2>1, SubSees DEF SameButProgress
  <2>3. CASE (late \/ ~GuardAccepts(c, f)) /\ t = Violation(e)
    <3>1. t \in Subscribers /\ SameButProgress(e, t) /\ t.done = e.done /\ t.late = e.late
      BY <2>2, <2>3, SubViolates
    <3>2. Outcome(s, f, t)
      BY <2>2, <3>1 DEF Outcome, SameButProgress
    <3>3. GuardAccepts(s, f) => late
      BY <1>5, <2>3 DEF GuardAccepts, SameButProgress
    <3> QED
      BY <2>2, <3>1, <3>2, <3>3 DEF Clean
  <2>4. CASE GuardAccepts(c, f) /\ t = Complete(e, f)
    <3>1. /\ t \in Subscribers /\ SameButProgress(e, t) /\ t.late = e.late /\ t.violations = e.violations
          /\ t.done = [e.done EXCEPT ![f.flow] = f.sequence]
      BY <2>2, <2>4, SubCompletes
    <3>2. Outcome(s, f, t)
      BY <2>2, <3>1 DEF Outcome, SameButProgress
    <3>3. f.def = s.active
      BY <1>5, <2>4 DEF GuardAccepts, SameButProgress
    <3> QED
      BY <1>2, <2>2, <3>1, <3>2, <3>3 DEF Clean
  <2> QED
    BY <1>7, <2>1, <2>3, <2>4 DEF OnCompact
<1>8. ASSUME t = Violation(s) PROVE Outcome(s, f, t)
  <2>1. t \in Subscribers /\ SameButProgress(s, t) /\ t.done = s.done
    BY <1>8, SubViolates
  <2> QED
    BY <2>1 DEF Outcome
<1>9. ASSUME t = Complete(s, f) PROVE Outcome(s, f, t) /\ (f.def = s.active => Clean(s, f, t))
  <2>1. /\ t \in Subscribers /\ SameButProgress(s, t) /\ t.late = s.late /\ t.violations = s.violations
        /\ t.done = [s.done EXCEPT ![f.flow] = f.sequence]
    BY <1>9, SubCompletes
  <2> QED
    BY <1>2, <2>1 DEF Outcome, Clean
<1>11. ASSUME s.active # None, CurrentGeneration(s, f), f.flow = "core", t = OnCore(s, f, late)
       PROVE  \/ t = s
              \/ t = Violation(s) /\ ~GuardAccepts(s, f)
              \/ t = Complete(s, f) /\ f.def = s.active
  BY <1>11 DEF OnCore, GuardAccepts
<1>12. ASSUME s.active # None, CurrentGeneration(s, f), f.flow = "geometry", t = OnGeometry(s, f)
       PROVE  \/ t = s
              \/ t = Violation(s) /\ ~GuardAccepts(s, f)
              \/ t = Complete(s, f) /\ (GuardAccepts(s, f) => f.def = s.active)
  BY <1>12 DEF OnGeometry, GuardAccepts
<1>13. \/ t = s \/ t = c
       \/ /\ s.active # None /\ CurrentGeneration(s, f)
          /\ \/ f.flow = "compact" /\ t = OnCompact(c, f, late)
             \/ f.flow = "core" /\ t = OnCore(s, f, late)
             \/ f.flow = "geometry" /\ t = OnGeometry(s, f)
  BY <1>1, <1>4 DEF OnFrame
<1> QED
  BY <1>3, <1>6, <1>7, <1>8, <1>9, <1>11, <1>12, <1>13

\* While generations grow, the generation of a known frame tells its session.
LEMMA GenerationTells ==
    ASSUME NEW past \in Seq(Definitions), Growing(past), NEW d \in ToSet(past),
           LastOf(past) # None => d.generation = LastOf(past).generation
    PROVE  d = LastOf(past)
<1>1. PICK n \in Nat : n = Len(past) /\ DOMAIN past = 1 .. n
  OBVIOUS
<1>2. PICK i \in 1 .. n : d = past[i]
  BY <1>1 DEF ToSet
<1>3. n > 0 /\ n \in DOMAIN past /\ i \in DOMAIN past
  BY <1>1, <1>2
<1>4. LastOf(past) = past[n] /\ past[n] \in Definitions
  BY <1>1, <1>3 DEF LastOf
<1>5. d.generation = past[n].generation /\ past[n].generation \in Nat
  BY <1>4, NtpAssumption
<1>6. i < n => past[i].generation < past[n].generation
  BY <1>3 DEF Growing
<1>7. i = n
  BY <1>1, <1>2, <1>5, <1>6
<1> QED
  BY <1>2, <1>4, <1>7

\* The frame of a flow taken from those held, and a subscriber that keeps the rest.
Taken(held, flow, rest) ==
    rest \in Latest /\ rest[flow] = None /\ \A w \in FlowSet : w # flow => rest[w] = held[w]

\* A subscriber with one frame taken from those it holds.
Holding(s, e, rest) ==
    /\ e.link = s.link /\ e.outbox = s.outbox /\ e.pending = s.pending /\ e.active = s.active
    /\ e.past = s.past /\ e.stalled = s.stalled /\ e.latest = rest /\ e.done = s.done
    /\ e.late = s.late /\ e.violations = s.violations

\* A frame taken from those the reliable receiver holds.
LEMMA SubReceives ==
    ASSUME NEW p, NEW s, NEW a, NEW b, NEW q, NEW m, NEW on, Joint(p, s, a, b, q, m, on),
           NEW held \in Latest, NEW v \in Seq(FrameRecords), Received(q, s.latest, v, held),
           NEW flow \in FlowSet, NEW f \in FrameRecords, f = held[flow], f # None,
           NEW rest, Taken(held, flow, rest), NEW e, Holding(s, e, rest), NEW t, Outcome(e, f, t),
           /\ m = "ReliableLatestOnly"
           /\ e.active # None /\ CurrentGeneration(e, f) => GuardAccepts(e, f)
           => Clean(e, f, t)
    PROVE  Joint(p, t, a, b, v, m, on) /\ t.link = s.link
<1>1. /\ p \in Publishers /\ s \in Subscribers /\ s.latest \in Latest /\ s.past \in Seq(Definitions)
      /\ s.done \in [FlowSet -> Nat] /\ p.last \in Nat /\ p.latest \in Latest /\ q \in Seq(FrameRecords)
  <2>1. p \in Publishers /\ s \in Subscribers /\ q \in Seq(FrameRecords)
    BY DEF Joint
  <2> QED
    BY <2>1 DEF Publishers, Subscribers
<1>2. /\ held \in [FlowSet -> FrameRecords \cup {None}] /\ f.flow = flow
      /\ \A w \in FlowSet : held[w] # None => held[w].flow = w
  BY DEF Latest
<1>3. rest[flow] = None /\ \A w \in FlowSet : w # flow => rest[w] = held[w]
  BY DEF Taken
<1>4. rest \in Latest
  BY DEF Taken
<1>5. /\ e.link = s.link /\ e.outbox = s.outbox /\ e.pending = s.pending /\ e.active = s.active
      /\ e.past = s.past /\ e.stalled = s.stalled /\ e.latest = rest /\ e.done = s.done
      /\ e.late = s.late /\ e.violations = s.violations
  BY DEF Holding
<1>6. /\ t \in Subscribers /\ t.link = s.link /\ t.outbox = s.outbox /\ t.pending = s.pending
      /\ t.active = s.active /\ t.past = s.past /\ t.stalled = s.stalled /\ t.latest = rest
  BY <1>5 DEF Outcome, SameButProgress
<1>7. Carried(p, t, v) \subseteq Carried(p, s, q) /\ f \in Carried(p, s, q)
  <2>1. Kept(rest) \subseteq Kept(held) /\ f \in Kept(held)
    BY <1>3 DEF Kept
  <2> QED
    BY <1>6, <2>1 DEF Carried, Received
<1>8. ASSUME on PROVE Agreed(p, t, a \o p.outbox, b \o t.outbox, v, m)
  <2>1. Agreed(p, s, a \o p.outbox, b \o s.outbox, q, m)
    BY <1>8 DEF Joint
  <2>2. Exchange(p, t, a \o p.outbox, b \o t.outbox)
    BY <1>6, <2>1, ExchangeOfSame DEF Agreed
  <2>3. t.active = LastOf(t.past) /\ Obeys(p, t)
    BY <1>6, <2>1 DEF Agreed, Obeys
  <2>4. Known(p, t, v)
    BY <1>6, <1>7, <2>1 DEF Agreed, InStep, Known
  <2>5. ASSUME m = "ReliableLatestOnly", Growing(t.past) PROVE Honest(p, t, v)
    <3>1. Honest(p, s, q)
      BY <1>6, <2>1, <2>5 DEF Agreed, InStep
    <3>2. InOrder(held, v, p.latest)
      BY <1>1, <3>1 DEF Honest, Received
    <3>3. InOrder(rest, v, p.latest)
      BY <1>3, <3>2 DEF InOrder
    <3>4. f.def \in ToSet(s.past) /\ s.active = LastOf(s.past)
      BY <1>7, <2>1 DEF Agreed, InStep, Known
    <3>5. s.active # None /\ CurrentGeneration(e, f) => f.def = s.active
      BY <1>1, <1>5, <1>6, <2>5, <3>4, GenerationTells DEF CurrentGeneration
    <3>6. f.def = s.active => /\ f.sequence > s.done[f.flow] /\ Together(p, s)
                              /\ f.sequence <= p.last
      BY <1>7, <3>1 DEF Honest, Together
    <3>7. Clean(e, f, t)
      BY <1>5, <2>5, <3>5, <3>6 DEF GuardAccepts
    <3>8. \/ t.done = s.done
          \/ f.def = s.active /\ t.done = [s.done EXCEPT ![flow] = f.sequence]
      BY <1>2, <1>5, <3>7 DEF Clean
    <3>9. ASSUME NEW g \in Carried(p, t, v), g.def = s.active PROVE g.sequence > t.done[g.flow]
      <4>1. g.sequence > s.done[g.flow]
        BY <1>7, <3>1, <3>9 DEF Honest
      <4>2. g \in FrameRecords
        <5>1. ToSet(v) \subseteq FrameRecords
          BY DEF ToSet
        <5>2. Kept(p.latest) \subseteq FrameRecords /\ Kept(rest) \subseteq FrameRecords
          BY <1>1, <1>4 DEF Kept, Latest
        <5> QED
          BY <1>6, <5>1, <5>2 DEF Carried
      <4>3. g.flow \in FlowSet /\ g.sequence \in Nat
        BY <4>2 DEF FrameRecords
      <4>4. CASE t.done = s.done
        BY <4>1, <4>4
      <4>5. CASE g.flow # flow /\ t.done = [s.done EXCEPT ![flow] = f.sequence]
        BY <1>1, <4>1, <4>3, <4>5
      <4>6. CASE g.flow = flow /\ f.def = s.active /\ t.done = [s.done EXCEPT ![flow] = f.sequence]
        <5>1. t.done[g.flow] = f.sequence
          BY <1>1, <4>6
        <5>2. Before(f, g)
          <6>1. CASE g \in ToSet(v)
            BY <3>2, <6>1 DEF InOrder, ToSet
          <6>2. CASE g \in Kept(p.latest)
            <7>1. PICK w \in FlowSet : g = p.latest[w] /\ g # None
              BY <6>2 DEF Kept
            <7>2. w = flow
              BY <1>1, <4>6, <7>1 DEF Latest
            <7> QED
              BY <3>2, <7>1, <7>2 DEF InOrder
          <6>3. CASE g \in Kept(rest)
            <7>1. PICK w \in FlowSet : g = rest[w] /\ g # None
              BY <6>3 DEF Kept
            <7>2. w # flow /\ g.flow = w
              BY <1>3, <1>4, <7>1 DEF Latest
            <7> QED
              BY <4>6, <7>2
          <6> QED
            BY <1>6, <6>1, <6>2, <6>3 DEF Carried
        <5> QED
          BY <1>2, <3>9, <4>3, <4>6, <5>1, <5>2 DEF Before, FrameRecords
      <4> QED
        BY <3>8, <4>4, <4>5, <4>6
    <3>10. \A g \in Carried(p, t, v) : /\ g.def = p.active => g.sequence <= p.last
                                       /\ g.def = s.active => Together(p, s)
      BY <1>7, <3>1 DEF Honest
    <3>11. ASSUME NEW w \in FlowSet PROVE t.done[w] <= IF Together(p, s) THEN p.last ELSE 0
      <4>1. s.done[w] <= IF Together(p, s) THEN p.last ELSE 0
        BY <3>1 DEF Honest
      <4>2. CASE t.done = s.done
        BY <4>1, <4>2
      <4>3. CASE f.def = s.active /\ t.done = [s.done EXCEPT ![flow] = f.sequence]
        BY <1>1, <3>6, <4>1, <4>3
      <4> QED
        BY <3>8, <4>2, <4>3
    <3>12. ~t.late => t.violations = 0
      BY <1>5, <3>1, <3>7 DEF Clean, Honest
    <3>13. Together(p, t) <=> Together(p, s)
      BY <1>6 DEF Together
    <3> QED
      BY <1>6, <3>3, <3>9, <3>10, <3>11, <3>12, <3>13 DEF Honest
  <2> QED
    BY <2>2, <2>3, <2>4, <2>5 DEF Agreed, InStep
<1>9. Joint(p, t, a, b, v, m, on)
  BY <1>6, <1>8 DEF Joint
<1> QED
  BY <1>6, <1>9

\* A step of the subscriber that leaves the control stream alone.
LEMMA SubFrameStep ==
    ASSUME TypesInv, NEW t, NEW v, sub' = t, frames' = [frames EXCEPT ![sub.link] = v],
           UNCHANGED <<mode, pub, toSub, toPub>>, frames[sub.link] = <<>> => v = <<>>,
           \A p, on : Joint(p, sub, toSub[sub.link], toPub[sub.link], frames[sub.link], mode[sub.link], on)
                      => /\ Joint(p, t, toSub[sub.link], toPub[sub.link], v, mode[sub.link], on)
                         /\ t.link = sub.link
    PROVE  SubStep
<1>1. PICK l \in Links : l = sub.link
  BY StateTypes
<1>2. toSub' = toSub /\ toPub' = toPub /\ frames' = [frames EXCEPT ![l] = v]
  BY <1>1
<1>3. /\ toSub = [toSub EXCEPT ![l] = toSub[l]] /\ toPub = [toPub EXCEPT ![l] = toPub[l]]
      /\ [frames EXCEPT ![l] = v][l] = v
  BY StateTypes
<1>4. frames'[l] = v
  BY <1>2, <1>3, Zenon
<1>5. /\ toSub' = [toSub EXCEPT ![l] = toSub'[l]] /\ toPub' = [toPub EXCEPT ![l] = toPub'[l]]
      /\ frames' = [frames EXCEPT ![l] = frames'[l]]
  BY <1>2, <1>3, <1>4, Zenon
<1>6. t.link = l
  <2>1. Joint(pub, sub, toSub[l], toPub[l], frames[l], mode[l], FALSE)
    BY TypesJoin
  <2> QED
    BY <1>1, <2>1, Zenon
<1> QED
  BY <1>1, <1>2, <1>4, <1>5, <1>6, Zenon DEF SubStep

\* poll_realtime over the reliable lane is a step of the subscriber.
LEMMA PollsReliable ==
    ASSUME TypesInv, NEW late \in BOOLEAN, PollRealtimeReliable(late)
    PROVE  SubStep
<1>1. PICK l \in Links : l = sub.link
  BY StateTypes
<1>2. PICK q \in Seq(FrameRecords) : q = frames[l]
  BY StateTypes
<1>3. sub \in Subscribers /\ sub.latest \in Latest
  <2>1. sub \in Subscribers
    BY StateTypes
  <2> QED
    BY <2>1 DEF Subscribers
<1>4. PICK n : n = Least(MaxDrain, Len(q))
  OBVIOUS
<1>5. n \in Nat /\ n <= Len(q)
  BY <1>4, Bounds DEF Least
<1>6. PICK held : held = Drained(sub.latest, q, n)
  OBVIOUS
<1>7. PICK v : v = SubSeq(q, n + 1, Len(q))
  OBVIOUS
<1>8. v \in Seq(FrameRecords) /\ held \in Latest /\ Received(q, sub.latest, v, held)
  <2>1. /\ SubSeq(q, n + 1, Len(q)) \in Seq(FrameRecords) /\ Drained(sub.latest, q, n) \in Latest
        /\ Received(q, sub.latest, SubSeq(q, n + 1, Len(q)), Drained(sub.latest, q, n))
    BY <1>3, <1>5, DrainReceives
  <2> QED
    BY <1>6, <1>7, <2>1, Zenon
<1>9. PICK flow \in FlowSet :
        /\ Foremost(held, flow)
        /\ sub' = OnFrame([sub EXCEPT !.latest = [held EXCEPT ![flow] = None]], held[flow], late)
  BY <1>1, <1>2, <1>4, <1>6, Zenon DEF PollRealtimeReliable, FlowSet
<1>10. PICK rest : rest = [held EXCEPT ![flow] = None]
  OBVIOUS
<1>11. PICK e : e = [sub EXCEPT !.latest = rest]
  OBVIOUS
<1>12. PICK f \in FrameRecords : f = held[flow] /\ f # None
  <2>1. held[flow] # None
    BY <1>9, Zenon DEF Foremost
  <2>2. held[flow] \in FrameRecords \cup {None}
    BY <1>8 DEF Latest
  <2> QED
    BY <2>1, <2>2
<1>13. PICK t : t = OnFrame(e, f, late)
  OBVIOUS
<1>14. /\ sub' = t /\ mode' = mode /\ pub' = pub /\ toSub' = toSub /\ toPub' = toPub
       /\ frames' = [frames EXCEPT ![l] = v]
  <2>1. sub' = t
    BY <1>9, <1>10, <1>11, <1>12, <1>13, Zenon
  <2>2. mode' = mode /\ pub' = pub /\ toSub' = toSub /\ toPub' = toPub
    BY DEF PollRealtimeReliable
  <2>3. frames' = [frames EXCEPT ![l] = v]
    BY <1>1, <1>2, <1>4, <1>7, Zenon DEF PollRealtimeReliable
  <2> QED
    BY <2>1, <2>2, <2>3
<1>15. e \in Subscribers /\ e.link = l /\ Taken(held, flow, rest) /\ Holding(sub, e, rest)
  <2>1. rest \in [FlowSet -> FrameRecords \cup {None}] /\ rest[flow] = None
        /\ \A w \in FlowSet : w # flow => rest[w] = held[w]
    BY <1>8, <1>10 DEF Latest
  <2>2. rest \in Latest
    BY <1>8, <2>1 DEF Latest
  <2>3. e \in Subscribers /\ e.link = l
    BY <1>1, <1>3, <1>11, <2>2 DEF Subscribers
  <2>4. Holding(sub, e, rest)
    BY <1>3, <1>11 DEF Subscribers, Holding
  <2> QED
    BY <2>1, <2>2, <2>3, <2>4 DEF Taken
<1>16. /\ Outcome(e, f, t)
       /\ /\ mode[l] = "ReliableLatestOnly"
          /\ e.active # None /\ CurrentGeneration(e, f) => GuardAccepts(e, f)
          => Clean(e, f, t)
  BY <1>13, <1>15, FrameOutcome
<1>17. ASSUME NEW p, NEW on, Joint(p, sub, toSub[l], toPub[l], q, mode[l], on)
       PROVE  Joint(p, t, toSub[l], toPub[l], v, mode[l], on) /\ t.link = sub.link
  BY <1>8, <1>12, <1>15, <1>16, <1>17, SubReceives
<1>18. q = <<>> => v = <<>>
  BY <1>5, <1>7
<1> QED
  BY <1>1, <1>2, <1>14, <1>17, <1>18, SubFrameStep

\* Over datagrams what counts is that every frame is of a session the subscriber knows.
LEMMA DatagramKnown ==
    ASSUME NEW p, NEW s, NEW a, NEW b, NEW q, NEW m, NEW on, Joint(p, s, a, b, q, m, on),
           m # "ReliableLatestOnly", NEW v \in Seq(FrameRecords), ToSet(v) \subseteq ToSet(q),
           NEW t \in Subscribers, SameButProgress(s, t)
    PROVE  Joint(p, t, a, b, v, m, on)
<1>1. Carried(p, t, v) \subseteq Carried(p, s, q)
  BY DEF Carried, SameButProgress
<1>2. ASSUME on PROVE Agreed(p, t, a \o p.outbox, b \o t.outbox, v, m)
  <2>1. Agreed(p, s, a \o p.outbox, b \o s.outbox, q, m)
    BY <1>2 DEF Joint
  <2>2. Exchange(p, t, a \o p.outbox, b \o t.outbox)
    BY <2>1, ExchangeOfSame DEF Agreed, SameButProgress
  <2>3. t.active = LastOf(t.past) /\ Obeys(p, t)
    BY <2>1 DEF Agreed, Obeys, SameButProgress
  <2>4. InStep(p, t, v, m)
    BY <1>1, <2>1 DEF Agreed, InStep, Known, SameButProgress
  <2> QED
    BY <2>2, <2>3, <2>4 DEF Agreed
<1> QED
  BY <1>2 DEF Joint

\* One frame less.
LEMMA FrameLeaves ==
    ASSUME NEW q \in Seq(FrameRecords), NEW i \in DOMAIN q
    PROVE  /\ RemoveAt(q, i) \in Seq(FrameRecords) /\ ToSet(RemoveAt(q, i)) \subseteq ToSet(q)
           /\ q[i] \in FrameRecords /\ q # <<>>
<1>1. PICK v : v = RemoveAt(q, i)
  OBVIOUS
<1>2. i \in 1 .. Len(q) /\ DOMAIN q = 1 .. Len(q) /\ Len(q) \in Nat /\ q[i] \in FrameRecords
  OBVIOUS
<1>3. /\ v \in Seq(FrameRecords) /\ Len(v) = Len(q) - 1
      /\ \A j \in 1 .. (Len(q) - 1) : v[j] = IF j < i THEN q[j] ELSE q[j + 1]
  BY <1>1, <1>2, RemoveAtFacts
<1>4. DOMAIN v = 1 .. (Len(q) - 1)
  BY <1>3
<1>5. \A j \in DOMAIN v : v[j] \in ToSet(q)
  <2>1. \A j \in 1 .. (Len(q) - 1) : j \in DOMAIN q /\ j + 1 \in DOMAIN q
    BY <1>2
  <2> QED
    BY <1>3, <1>4, <2>1 DEF ToSet
<1>6. ToSet(v) \subseteq ToSet(q)
  BY <1>5 DEF ToSet
<1>7. q # <<>>
  BY <1>2
<1> QED
  BY <1>1, <1>2, <1>3, <1>6, <1>7

\* poll_realtime over datagrams is a step of the subscriber.
LEMMA PollsDatagram ==
    ASSUME TypesInv, NEW late \in BOOLEAN, PollRealtimeDatagram(late)
    PROVE  SubStep
<1>1. PICK l \in Links : l = sub.link
  BY StateTypes
<1>2. PICK q \in Seq(FrameRecords) : q = frames[l]
  BY StateTypes
<1>3. PICK i \in DOMAIN q : /\ frames' = [frames EXCEPT ![l] = RemoveAt(q, i)]
                            /\ sub' = OnFrame(sub, q[i], late)
  BY <1>1, <1>2, Zenon DEF PollRealtimeDatagram
<1>4. PICK v : v = RemoveAt(q, i)
  OBVIOUS
<1>5. v \in Seq(FrameRecords) /\ ToSet(v) \subseteq ToSet(q) /\ q[i] \in FrameRecords /\ q # <<>>
  BY <1>4, FrameLeaves
<1>6. PICK t : t = OnFrame(sub, q[i], late)
  OBVIOUS
<1>7. t \in Subscribers /\ SameButProgress(sub, t)
  <2>1. sub \in Subscribers
    BY StateTypes
  <2> QED
    BY <1>5, <1>6, <2>1, FrameOutcome DEF Outcome
<1>8. mode[l] # "ReliableLatestOnly" /\ mode' = mode /\ pub' = pub /\ toSub' = toSub /\ toPub' = toPub
  BY <1>1 DEF PollRealtimeDatagram
<1>9. \A p, on : Joint(p, sub, toSub[l], toPub[l], q, mode[l], on) =>
                 Joint(p, t, toSub[l], toPub[l], v, mode[l], on) /\ t.link = sub.link
  BY <1>5, <1>7, <1>8, DatagramKnown DEF SameButProgress
<1>10. sub' = t /\ frames' = [frames EXCEPT ![l] = v]
  BY <1>3, <1>4, <1>6
<1> QED
  BY <1>1, <1>2, <1>5, <1>8, <1>9, <1>10, SubFrameStep

\* A lost datagram changes nothing the invariant needs.
LEMMA LosesDatagram ==
    ASSUME TypesInv, LoseDatagram
    PROVE  PubStep
<1>1. PICK l \in Links : l = pub.link
  BY StateTypes
<1>2. PICK q \in Seq(FrameRecords) : q = frames[l]
  BY StateTypes
<1>3. PICK i \in DOMAIN q : frames' = [frames EXCEPT ![l] = RemoveAt(q, i)]
  BY <1>1, <1>2, Zenon DEF LoseDatagram
<1>4. PICK v : v = RemoveAt(q, i)
  OBVIOUS
<1>5. v \in Seq(FrameRecords) /\ ToSet(v) \subseteq ToSet(q)
  BY <1>4, FrameLeaves
<1>6. mode[l] # "ReliableLatestOnly" /\ mode' = mode /\ pub' = pub /\ sub' = sub /\ toSub' = toSub /\ toPub' = toPub
  BY <1>1 DEF LoseDatagram
<1>7. ASSUME NEW s, NEW on, Joint(pub, s, toSub[l], toPub[l], q, mode[l], on)
      PROVE  Joint(pub, s, toSub[l], toPub[l], v, mode[l], on)
  <2>1. s \in Subscribers /\ SameButProgress(s, s)
    BY <1>7 DEF Joint, SameButProgress
  <2> QED
    BY <1>5, <1>6, <1>7, <2>1, DatagramKnown
<1>8. frames' = [frames EXCEPT ![l] = v]
  BY <1>3, <1>4
<1> QED
  BY <1>1, <1>2, <1>6, <1>7, <1>8, PubFrameStep

\* Windows that end change no session.
LEMMA AgesStep ==
    ASSUME TypesInv, Ages
    PROVE  PubStep \/ SubStep
<1>1. /\ MaxReconfigure \in Nat /\ MaxReconfigure >= 1
      /\ mode' = mode /\ toSub' = toSub /\ toPub' = toPub /\ frames' = frames
  BY Bounds DEF Ages
<1>2. CASE Aged(pub, pub') /\ UNCHANGED sub
  <2>1. PICK l \in Links : l = pub.link
    BY StateTypes
  <2>2. pub \in Publishers
    BY StateTypes
  <2>3. pub' \in Publishers /\ SamePublisher(pub, pub') /\ pub'.outbox = pub.outbox /\ pub'.link = pub.link
    <3>1. PICK h : h = pub'
      OBVIOUS
    <3>2. PICK i : i = pub.reconfigured - 1
      OBVIOUS
    <3>3. CASE pub.reconfigured = MaxReconfigure /\ h = [pub EXCEPT !.reconfigured = i]
      <4>1. i \in Nat
        BY <1>1, <3>2, <3>3
      <4>2. h \in Publishers
        BY <2>2, <3>3, <4>1 DEF Publishers
      <4>3. SamePublisher(pub, h) /\ h.outbox = pub.outbox /\ h.link = pub.link
        BY <2>2, <3>3 DEF Publishers, SamePublisher
      <4> QED
        BY <3>1, <4>2, <4>3
    <3>4. CASE h = [pub EXCEPT !.burst = 0]
      <4>1. h \in Publishers
        BY <2>2, <3>4 DEF Publishers
      <4>2. SamePublisher(pub, h) /\ h.outbox = pub.outbox /\ h.link = pub.link
        BY <2>2, <3>4 DEF Publishers, SamePublisher
      <4> QED
        BY <3>1, <4>1, <4>2
    <3>5. CASE h = [pub EXCEPT !.burst = 0, !.sustained = 0]
      <4>1. h \in Publishers
        BY <2>2, <3>5 DEF Publishers
      <4>2. SamePublisher(pub, h) /\ h.outbox = pub.outbox /\ h.link = pub.link
        BY <2>2, <3>5 DEF Publishers, SamePublisher
      <4> QED
        BY <3>1, <4>1, <4>2
    <3> QED
      BY <1>2, <3>1, <3>2, <3>3, <3>4, <3>5 DEF Aged
  <2>4. frames' = [frames EXCEPT ![l] = frames[l]]
    BY <1>1, StateTypes
  <2>5. \A s, on : Joint(pub, s, toSub[l], toPub[l], frames[l], mode[l], on) =>
                   Joint(pub', s, toSub[l], toPub[l], frames[l], mode[l], on)
    BY <2>3, PubKeeps
  <2> QED
    BY <1>1, <1>2, <2>1, <2>3, <2>4, <2>5, PubFrameStep
<1>3. CASE Aged(sub, sub') /\ UNCHANGED pub
  <2>1. PICK l \in Links : l = sub.link
    BY StateTypes
  <2>2. sub \in Subscribers
    BY StateTypes
  <2>3. sub' \in Subscribers /\ SameSubscriber(sub, sub') /\ sub'.outbox = sub.outbox /\ sub'.link = sub.link
    <3>1. PICK h : h = sub'
      OBVIOUS
    <3>2. PICK i : i = sub.reconfigured - 1
      OBVIOUS
    <3>3. CASE sub.reconfigured = MaxReconfigure /\ h = [sub EXCEPT !.reconfigured = i]
      <4>1. i \in Nat
        BY <1>1, <3>2, <3>3
      <4>2. h \in Subscribers
        BY <2>2, <3>3, <4>1 DEF Subscribers
      <4>3. SameSubscriber(sub, h) /\ h.outbox = sub.outbox /\ h.link = sub.link
        BY <2>2, <3>3 DEF Subscribers, SameSubscriber
      <4> QED
        BY <3>1, <4>2, <4>3
    <3>4. CASE h = [sub EXCEPT !.burst = 0]
      <4>1. h \in Subscribers
        BY <2>2, <3>4 DEF Subscribers
      <4>2. SameSubscriber(sub, h) /\ h.outbox = sub.outbox /\ h.link = sub.link
        BY <2>2, <3>4 DEF Subscribers, SameSubscriber
      <4> QED
        BY <3>1, <4>1, <4>2
    <3>5. CASE h = [sub EXCEPT !.burst = 0, !.sustained = 0]
      <4>1. h \in Subscribers
        BY <2>2, <3>5 DEF Subscribers
      <4>2. SameSubscriber(sub, h) /\ h.outbox = sub.outbox /\ h.link = sub.link
        BY <2>2, <3>5 DEF Subscribers, SameSubscriber
      <4> QED
        BY <3>1, <4>1, <4>2
    <3> QED
      BY <1>3, <3>1, <3>2, <3>3, <3>4, <3>5 DEF Aged
  <2>4. frames' = [frames EXCEPT ![l] = frames[l]]
    BY <1>1, StateTypes
  <2>5. \A p, on : Joint(p, sub, toSub[l], toPub[l], frames[l], mode[l], on) =>
                   Joint(p, sub', toSub[l], toPub[l], frames[l], mode[l], on) /\ sub'.link = sub.link
    BY <2>3, SubKeeps
  <2> QED
    BY <1>1, <1>3, <2>1, <2>4, <2>5, SubFrameStep
<1> QED
  BY <1>2, <1>3 DEF Ages

-----------------------------------------------------------------------------
(* The inductive invariant *)

\* Nothing is on a link before a side uses it.
Unused ==
    /\ \A l \in Links : l > pub.link => toSub[l] = <<>> /\ frames[l] = <<>>
    /\ \A l \in Links : l > sub.link => toPub[l] = <<>>

\* The newest link, with a side that has yet to come to it as it will be then.
Newest == IF pub.link < sub.link THEN sub.link ELSE pub.link
PubView == IF pub.link < sub.link THEN FreshPublisher(sub.link) ELSE pub
SubView == IF sub.link < pub.link THEN FreshSubscriber(pub.link) ELSE sub

\* The inductive invariant: both sides agree on the newest link.
NtpInv ==
    /\ TypesInv /\ Unused
    /\ Joint(PubView, SubView, toSub[Newest], toPub[Newest], frames[Newest], mode[Newest], TRUE)

\* Two fresh sides agree on an unused link.
LEMMA FreshJoint ==
    ASSUME NEW l \in Links, NEW m
    PROVE  /\ FreshPublisher(l) \in Publishers /\ FreshSubscriber(l) \in Subscribers
           /\ FreshPublisher(l).link = l /\ FreshSubscriber(l).link = l
           /\ Joint(FreshPublisher(l), FreshSubscriber(l), <<>>, <<>>, <<>>, m, TRUE)
<1>1. PICK p, s : p = FreshPublisher(l) /\ s = FreshSubscriber(l)
  OBVIOUS
<1>2. Empty \in Latest /\ \A w \in FlowSet : Empty[w] = None
  BY DEF Empty, Latest, FlowSet
<1>3. [f \in ToSet(Flows) |-> 0] \in [FlowSet -> Nat] /\ \A w \in FlowSet : [f \in ToSet(Flows) |-> 0][w] = 0
  BY DEF FlowSet
<1>4. <<>> \in Seq(FromPublisher) /\ <<>> \in Seq(FromSubscriber) /\ <<>> \in Seq(FrameRecords)
      /\ <<>> \in Seq(Definitions)
  OBVIOUS
<1>5. None \in Sessions /\ "Stopped" \in Commands /\ {} \in SUBSET Definitions
  BY DEF Sessions, Commands
<1>6. p \in Publishers
  BY <1>1, <1>2, <1>4, <1>5 DEF FreshPublisher, Publishers
<1>7. s \in Subscribers
  BY <1>1, <1>2, <1>3, <1>4, <1>5 DEF FreshSubscriber, Subscribers
<1>8. /\ p.link = l /\ p.pending = None /\ p.accepted = FALSE /\ p.active = None /\ p.playback = "Stopped"
      /\ p.outbox = <<>> /\ p.latest = Empty /\ p.last = 0
  BY <1>1 DEF FreshPublisher
<1>9. /\ s.link = l /\ s.pending = None /\ s.active = None /\ s.outbox = <<>> /\ s.latest = Empty
      /\ s.violations = 0 /\ s.past = <<>> /\ \A w \in FlowSet : s.done[w] = 0
  BY <1>1, <1>3 DEF FreshSubscriber
<1>10. Agreed(p, s, <<>>, <<>>, <<>>, m)
  <2>1. Len(<<>>) = 0 /\ DOMAIN <<>> = {} /\ ToSet(<<>>) = {}
    BY DEF ToSet
  <2>2. s.active = LastOf(s.past)
    BY <1>9, <2>1 DEF LastOf
  <2>3. Idle(p, s, <<>>, <<>>)
    BY <1>8, <1>9, <2>1 DEF Idle, Together, Quiet, Aims
  <2>4. Carried(p, s, <<>>) = {}
    BY <1>2, <1>8, <1>9, <2>1 DEF Carried, Kept
  <2>5. InOrder(s.latest, <<>>, p.latest)
    BY <1>2, <1>8, <1>9, <2>1 DEF InOrder
  <2>6. Honest(p, s, <<>>)
    BY <1>8, <1>9, <2>4, <2>5 DEF Honest
  <2> QED
    BY <1>8, <2>2, <2>3, <2>4, <2>6 DEF Agreed, Exchange, Obeys, InStep, Known
<1>11. <<>> \o p.outbox = <<>> /\ <<>> \o s.outbox = <<>>
  BY <1>8, <1>9
<1>12. Joint(p, s, <<>>, <<>>, <<>>, m, TRUE)
  BY <1>4, <1>6, <1>7, <1>10, <1>11, Bounds DEF Joint
<1> QED
  BY <1>1, <1>6, <1>7, <1>8, <1>9, <1>12

\* The two sides and what they have on the link a step is about, changed there only.
LEMMA TypesKept ==
    ASSUME TypesInv, NEW l \in Links, NEW a, NEW b, NEW q, mode' = mode,
           toSub' = [toSub EXCEPT ![l] = a], toPub' = [toPub EXCEPT ![l] = b],
           frames' = [frames EXCEPT ![l] = q],
           Joint(pub', sub', a, b, q, mode[l], FALSE)
    PROVE  TypesInv'
<1>1. /\ pub' \in Publishers /\ sub' \in Subscribers
      /\ a \in Seq(FromPublisher) /\ b \in Seq(FromSubscriber) /\ q \in Seq(FrameRecords)
      /\ Len(a) <= ControlRoom /\ Len(b) <= ControlRoom
  BY DEF Joint
<1>2. toSub' \in [Links -> Seq(FromPublisher)] /\ \A k \in Links : toSub'[k] = IF k = l THEN a ELSE toSub[k]
  BY <1>1 DEF TypesInv
<1>3. toPub' \in [Links -> Seq(FromSubscriber)] /\ \A k \in Links : toPub'[k] = IF k = l THEN b ELSE toPub[k]
  BY <1>1 DEF TypesInv
<1>4. frames' \in [Links -> Seq(FrameRecords)]
  BY <1>1 DEF TypesInv
<1>5. \A k \in Links : Len(toSub'[k]) <= ControlRoom /\ Len(toPub'[k]) <= ControlRoom
  <2>1. \A k \in Links : Len(toSub[k]) <= ControlRoom /\ Len(toPub[k]) <= ControlRoom
    BY DEF TypesInv
  <2> QED
    BY <1>1, <1>2, <1>3, <2>1
<1> QED
  BY <1>1, <1>2, <1>3, <1>4, <1>5 DEF TypesInv

\* What a step on one link leaves on the others.
LEMMA Elsewhere ==
    ASSUME TypesInv, NEW l \in Links, NEW a, NEW b, NEW q,
           toSub' = [toSub EXCEPT ![l] = a], toPub' = [toPub EXCEPT ![l] = b],
           frames' = [frames EXCEPT ![l] = q]
    PROVE  /\ toSub'[l] = a /\ toPub'[l] = b /\ frames'[l] = q
           /\ \A k \in Links : k # l => /\ toSub'[k] = toSub[k] /\ toPub'[k] = toPub[k]
                                        /\ frames'[k] = frames[k]
  BY DEF TypesInv

\* A step of the publisher keeps the invariant, on the newest link or on one the subscriber
\* has left.
LEMMA PubStepKeeps ==
    ASSUME NtpInv, PubStep
    PROVE  NtpInv'
<1>1. TypesInv /\ Unused
  BY DEF NtpInv
<1>2. PICK l \in Links : l = pub.link
  BY <1>1, StateTypes
<1>3. PICK k \in Links : k = sub.link
  BY <1>1, StateTypes
<1>4. PICK a, b, q : a = toSub'[l] /\ b = toPub'[l] /\ q = frames'[l]
  OBVIOUS
<1>5. /\ toSub' = [toSub EXCEPT ![l] = a] /\ toPub' = [toPub EXCEPT ![l] = b]
      /\ frames' = [frames EXCEPT ![l] = q]
      /\ mode' = mode /\ sub' = sub /\ pub'.link = l /\ sub'.link = k
      /\ toPub[l] = <<>> => b = <<>>
  BY <1>2, <1>3, <1>4 DEF PubStep
<1>6. \A s, on : Joint(pub, s, toSub[l], toPub[l], frames[l], mode[l], on) =>
                 Joint(pub', s, a, b, q, mode[l], on)
  BY <1>2, <1>4 DEF PubStep
<1>7. TypesInv'
  <2>1. Joint(pub', sub', a, b, q, mode[l], FALSE)
    BY <1>1, <1>5, <1>6, TypesJoin
  <2> QED
    BY <1>1, <1>5, <2>1, TypesKept
<1>8. l \in Int /\ k \in Int /\ \A j \in Links : j \in Int
  BY Bounds DEF Links
<1>9. /\ toSub'[l] = a /\ toPub'[l] = b /\ frames'[l] = q
      /\ \A j \in Links : j # l => /\ toSub'[j] = toSub[j] /\ toPub'[j] = toPub[j]
                                   /\ frames'[j] = frames[j]
  BY <1>1, <1>5, Elsewhere
<1>10. Unused'
  <2>1. \A j \in Links : j > l => toSub'[j] = <<>> /\ frames'[j] = <<>>
    BY <1>1, <1>2, <1>8, <1>9 DEF Unused
  <2>2. \A j \in Links : j > k => toPub'[j] = <<>>
    BY <1>1, <1>3, <1>5, <1>8, <1>9 DEF Unused
  <2> QED
    BY <1>5, <2>1, <2>2 DEF Unused
<1>11. CASE l < k
  <2>1. Newest = k /\ PubView = FreshPublisher(k) /\ SubView = sub
    BY <1>2, <1>3, <1>8, <1>11 DEF Newest, PubView, SubView
  <2>2. Newest' = k /\ PubView' = FreshPublisher(k) /\ SubView' = sub
    BY <1>5, <1>8, <1>11 DEF Newest, PubView, SubView
  <2>3. Joint(FreshPublisher(k), sub, toSub[k], toPub[k], frames[k], mode[k], TRUE)
    BY <2>1 DEF NtpInv
  <2>4. toSub'[k] = toSub[k] /\ toPub'[k] = toPub[k] /\ frames'[k] = frames[k]
    BY <1>8, <1>9, <1>11
  <2>5. Joint(FreshPublisher(k), sub, toSub'[k], toPub'[k], frames'[k], mode'[k], TRUE)
    BY <1>5, <2>3, <2>4, Zenon
  <2> QED
    BY <1>7, <1>10, <2>2, <2>5, Zenon DEF NtpInv
<1>12. CASE ~(l < k)
  <2>0. PICK s : s = IF k < l THEN FreshSubscriber(l) ELSE sub
    OBVIOUS
  <2>1. Newest = l /\ PubView = pub /\ SubView = s
    BY <1>2, <1>3, <1>12, <2>0 DEF Newest, PubView, SubView
  <2>2. Newest' = l /\ PubView' = pub' /\ SubView' = s
    BY <1>5, <1>12, <2>0 DEF Newest, PubView, SubView
  <2>3. Joint(pub, s, toSub[l], toPub[l], frames[l], mode[l], TRUE)
    BY <2>1 DEF NtpInv
  <2>4. Joint(pub', s, a, b, q, mode[l], TRUE)
    BY <1>6, <2>3
  <2>5. Joint(pub', s, toSub'[l], toPub'[l], frames'[l], mode'[l], TRUE)
    BY <1>5, <1>9, <2>4, Zenon
  <2> QED
    BY <1>7, <1>10, <2>2, <2>5, Zenon DEF NtpInv
<1> QED
  BY <1>11, <1>12

\* The same for the subscriber.
LEMMA SubStepKeeps ==
    ASSUME NtpInv, SubStep
    PROVE  NtpInv'
<1>1. TypesInv /\ Unused
  BY DEF NtpInv
<1>2. PICK l \in Links : l = pub.link
  BY <1>1, StateTypes
<1>3. PICK k \in Links : k = sub.link
  BY <1>1, StateTypes
<1>4. PICK a, b, q : a = toSub'[k] /\ b = toPub'[k] /\ q = frames'[k]
  OBVIOUS
<1>5. /\ toSub' = [toSub EXCEPT ![k] = a] /\ toPub' = [toPub EXCEPT ![k] = b]
      /\ frames' = [frames EXCEPT ![k] = q]
      /\ mode' = mode /\ pub' = pub /\ pub'.link = l /\ sub'.link = k
      /\ toSub[k] = <<>> => a = <<>>
      /\ frames[k] = <<>> => q = <<>>
  BY <1>2, <1>3, <1>4 DEF SubStep
<1>6. \A p, on : Joint(p, sub, toSub[k], toPub[k], frames[k], mode[k], on) =>
                 Joint(p, sub', a, b, q, mode[k], on)
  BY <1>3, <1>4 DEF SubStep
<1>7. TypesInv'
  <2>1. Joint(pub', sub', a, b, q, mode[k], FALSE)
    BY <1>1, <1>5, <1>6, TypesJoin
  <2> QED
    BY <1>1, <1>5, <2>1, TypesKept
<1>8. l \in Int /\ k \in Int /\ \A j \in Links : j \in Int
  BY Bounds DEF Links
<1>9. /\ toSub'[k] = a /\ toPub'[k] = b /\ frames'[k] = q
      /\ \A j \in Links : j # k => /\ toSub'[j] = toSub[j] /\ toPub'[j] = toPub[j]
                                   /\ frames'[j] = frames[j]
  BY <1>1, <1>5, Elsewhere
<1>10. Unused'
  <2>1. \A j \in Links : j > l => toSub'[j] = <<>> /\ frames'[j] = <<>>
    <3>1. \A j \in Links : j > l => toSub[j] = <<>> /\ frames[j] = <<>>
      BY <1>1, <1>2 DEF Unused
    <3>2. (toSub[k] = <<>> => a = <<>>) /\ (frames[k] = <<>> => q = <<>>)
      BY <1>5
    <3> QED
      BY <1>9, <3>1, <3>2
  <2>2. \A j \in Links : j > k => toPub'[j] = <<>>
    <3>1. \A j \in Links : j > k => toPub[j] = <<>> /\ j # k
      BY <1>1, <1>3, <1>8 DEF Unused
    <3> QED
      BY <1>9, <3>1
  <2> QED
    BY <1>5, <2>1, <2>2 DEF Unused
<1>11. CASE k < l
  <2>1. Newest = l /\ PubView = pub /\ SubView = FreshSubscriber(l)
    BY <1>2, <1>3, <1>8, <1>11 DEF Newest, PubView, SubView
  <2>2. Newest' = l /\ PubView' = pub /\ SubView' = FreshSubscriber(l)
    BY <1>5, <1>8, <1>11 DEF Newest, PubView, SubView
  <2>3. Joint(pub, FreshSubscriber(l), toSub[l], toPub[l], frames[l], mode[l], TRUE)
    BY <2>1 DEF NtpInv
  <2>4. toSub'[l] = toSub[l] /\ toPub'[l] = toPub[l] /\ frames'[l] = frames[l]
    BY <1>8, <1>9, <1>11
  <2>5. Joint(pub, FreshSubscriber(l), toSub'[l], toPub'[l], frames'[l], mode'[l], TRUE)
    BY <1>5, <2>3, <2>4, Zenon
  <2> QED
    BY <1>7, <1>10, <2>2, <2>5, Zenon DEF NtpInv
<1>12. CASE ~(k < l)
  <2>0. PICK p : p = IF l < k THEN FreshPublisher(k) ELSE pub
    OBVIOUS
  <2>1. Newest = k /\ PubView = p /\ SubView = sub
    BY <1>2, <1>3, <1>8, <1>12, <2>0 DEF Newest, PubView, SubView
  <2>2. Newest' = k /\ PubView' = p /\ SubView' = sub'
    BY <1>5, <1>8, <1>12, <2>0 DEF Newest, PubView, SubView
  <2>3. Joint(p, sub, toSub[k], toPub[k], frames[k], mode[k], TRUE)
    BY <2>1 DEF NtpInv
  <2>4. Joint(p, sub', a, b, q, mode[k], TRUE)
    BY <1>6, <2>3
  <2>5. Joint(p, sub', toSub'[k], toPub'[k], frames'[k], mode'[k], TRUE)
    BY <1>5, <1>9, <2>4, Zenon
  <2> QED
    BY <1>7, <1>10, <2>2, <2>5, Zenon DEF NtpInv
<1> QED
  BY <1>11, <1>12

\* reset_for_reconnect: a side that moves on finds the new link unused, or finds what the
\* other side put there for the fresh one.
LEMMA PubResets ==
    ASSUME NtpInv, PubReset
    PROVE  NtpInv'
<1>1. TypesInv /\ Unused
  BY DEF NtpInv
<1>2. PICK l \in Links : l = pub.link
  BY <1>1, StateTypes
<1>3. PICK k \in Links : k = sub.link
  BY <1>1, StateTypes
<1>4. PICK n \in Links : n = l + 1
  BY <1>2, Bounds DEF PubReset, Links
<1>5. l \in Int /\ k \in Int /\ n \in Int /\ \A j \in Links : j \in Int
  BY Bounds DEF Links
<1>6. /\ pub' = FreshPublisher(n) /\ toPub' = [toPub EXCEPT ![l] = <<>>]
      /\ mode' = mode /\ sub' = sub /\ toSub' = toSub /\ frames' = frames
  BY <1>2, <1>4 DEF PubReset
<1>7. pub' \in Publishers /\ pub'.link = n /\ sub'.link = k
  BY <1>3, <1>6, FreshJoint
<1>8. toSub' = [toSub EXCEPT ![l] = toSub[l]] /\ frames' = [frames EXCEPT ![l] = frames[l]]
  BY <1>1, <1>6, StateTypes
<1>9. TypesInv'
  <2>1. <<>> \in Seq(FromSubscriber) /\ Len(<<>>) = 0
    OBVIOUS
  <2>2. Joint(pub', sub', toSub[l], <<>>, frames[l], mode[l], FALSE)
    BY <1>1, <1>6, <1>7, <2>1, Bounds DEF Joint, TypesInv
  <2> QED
    BY <1>1, <1>6, <1>8, <2>2, TypesKept
<1>10. toPub'[l] = <<>> /\ \A j \in Links : j # l => toPub'[j] = toPub[j]
  BY <1>1, <1>6 DEF TypesInv
<1>11. Unused'
  <2>1. \A j \in Links : j > n => toSub'[j] = <<>> /\ frames'[j] = <<>>
    BY <1>1, <1>2, <1>4, <1>5, <1>6 DEF Unused
  <2>2. \A j \in Links : j > k => toPub'[j] = <<>>
    BY <1>1, <1>3, <1>10 DEF Unused
  <2> QED
    BY <1>7, <2>1, <2>2 DEF Unused
<1>12. CASE l < k
  <2>1. Newest = k /\ PubView = FreshPublisher(k) /\ SubView = sub
    BY <1>2, <1>3, <1>5, <1>12 DEF Newest, PubView, SubView
  <2>2. n = k \/ n < k
    BY <1>4, <1>5, <1>12
  <2>3. Newest' = k /\ SubView' = sub
    BY <1>5, <1>6, <1>7, <2>2 DEF Newest, SubView
  <2>4. PubView' = FreshPublisher(k)
    BY <1>5, <1>6, <1>7, <2>2 DEF PubView
  <2>5. Joint(FreshPublisher(k), sub, toSub[k], toPub[k], frames[k], mode[k], TRUE)
    BY <2>1 DEF NtpInv
  <2>6. toPub'[k] = toPub[k]
    BY <1>5, <1>10, <1>12
  <2>7. Joint(FreshPublisher(k), sub, toSub'[k], toPub'[k], frames'[k], mode'[k], TRUE)
    BY <1>6, <2>5, <2>6, Zenon
  <2> QED
    BY <1>9, <1>11, <2>3, <2>4, <2>7, Zenon DEF NtpInv
<1>13. CASE ~(l < k)
  <2>1. k < n /\ n > l /\ ~(n < k)
    BY <1>4, <1>5, <1>13
  <2>2. Newest' = n /\ PubView' = FreshPublisher(n) /\ SubView' = FreshSubscriber(n)
    BY <1>6, <1>7, <2>1 DEF Newest, PubView, SubView
  <2>3. toSub'[n] = <<>> /\ frames'[n] = <<>> /\ toPub'[n] = <<>>
    BY <1>1, <1>2, <1>3, <1>5, <1>6, <1>10, <2>1 DEF Unused
  <2>4. Joint(FreshPublisher(n), FreshSubscriber(n), <<>>, <<>>, <<>>, mode'[n], TRUE)
    BY FreshJoint
  <2>5. Joint(FreshPublisher(n), FreshSubscriber(n), toSub'[n], toPub'[n], frames'[n], mode'[n], TRUE)
    BY <2>3, <2>4, Zenon
  <2> QED
    BY <1>9, <1>11, <2>2, <2>5, Zenon DEF NtpInv
<1> QED
  BY <1>12, <1>13

\* The same for the subscriber.
LEMMA SubResets ==
    ASSUME NtpInv, SubReset
    PROVE  NtpInv'
<1>1. TypesInv /\ Unused
  BY DEF NtpInv
<1>2. PICK l \in Links : l = pub.link
  BY <1>1, StateTypes
<1>3. PICK k \in Links : k = sub.link
  BY <1>1, StateTypes
<1>4. PICK n \in Links : n = k + 1
  BY <1>3, Bounds DEF SubReset, Links
<1>5. l \in Int /\ k \in Int /\ n \in Int /\ \A j \in Links : j \in Int
  BY Bounds DEF Links
<1>6. /\ sub' = FreshSubscriber(n) /\ toSub' = [toSub EXCEPT ![k] = <<>>]
      /\ frames' = [frames EXCEPT ![k] = <<>>]
      /\ mode' = mode /\ pub' = pub /\ toPub' = toPub
  BY <1>3, <1>4 DEF SubReset
<1>7. sub' \in Subscribers /\ sub'.link = n /\ pub'.link = l
  BY <1>2, <1>6, FreshJoint
<1>8. toPub' = [toPub EXCEPT ![k] = toPub[k]]
  BY <1>1, <1>6, StateTypes
<1>9. TypesInv'
  <2>1. <<>> \in Seq(FromPublisher) /\ <<>> \in Seq(FrameRecords) /\ Len(<<>>) = 0
    OBVIOUS
  <2>2. Joint(pub', sub', <<>>, toPub[k], <<>>, mode[k], FALSE)
    BY <1>1, <1>6, <1>7, <2>1, Bounds DEF Joint, TypesInv
  <2> QED
    BY <1>1, <1>6, <1>8, <2>2, TypesKept
<1>10. /\ toSub'[k] = <<>> /\ frames'[k] = <<>>
       /\ \A j \in Links : j # k => toSub'[j] = toSub[j] /\ frames'[j] = frames[j]
  BY <1>1, <1>6 DEF TypesInv
<1>11. Unused'
  <2>1. \A j \in Links : j > l => toSub'[j] = <<>> /\ frames'[j] = <<>>
    BY <1>1, <1>2, <1>10 DEF Unused
  <2>2. \A j \in Links : j > n => toPub'[j] = <<>>
    BY <1>1, <1>3, <1>4, <1>5, <1>6 DEF Unused
  <2> QED
    BY <1>7, <2>1, <2>2 DEF Unused
<1>12. CASE k < l
  <2>1. Newest = l /\ PubView = pub /\ SubView = FreshSubscriber(l)
    BY <1>2, <1>3, <1>5, <1>12 DEF Newest, PubView, SubView
  <2>2. n = l \/ n < l
    BY <1>4, <1>5, <1>12
  <2>3. Newest' = l /\ PubView' = pub
    BY <1>5, <1>6, <1>7, <2>2 DEF Newest, PubView
  <2>4. SubView' = FreshSubscriber(l)
    BY <1>5, <1>6, <1>7, <2>2 DEF SubView
  <2>5. Joint(pub, FreshSubscriber(l), toSub[l], toPub[l], frames[l], mode[l], TRUE)
    BY <2>1 DEF NtpInv
  <2>6. toSub'[l] = toSub[l] /\ frames'[l] = frames[l]
    BY <1>5, <1>10, <1>12
  <2>7. Joint(pub, FreshSubscriber(l), toSub'[l], toPub'[l], frames'[l], mode'[l], TRUE)
    BY <1>6, <2>5, <2>6, Zenon
  <2> QED
    BY <1>9, <1>11, <2>3, <2>4, <2>7, Zenon DEF NtpInv
<1>13. CASE ~(k < l)
  <2>1. l < n /\ n > k /\ ~(n < l)
    BY <1>4, <1>5, <1>13
  <2>2. Newest' = n /\ PubView' = FreshPublisher(n) /\ SubView' = FreshSubscriber(n)
    BY <1>6, <1>7, <2>1 DEF Newest, PubView, SubView
  <2>3. toSub'[n] = <<>> /\ frames'[n] = <<>> /\ toPub'[n] = <<>>
    BY <1>1, <1>2, <1>3, <1>5, <1>6, <1>10, <2>1 DEF Unused
  <2>4. Joint(FreshPublisher(n), FreshSubscriber(n), <<>>, <<>>, <<>>, mode'[n], TRUE)
    BY FreshJoint
  <2>5. Joint(FreshPublisher(n), FreshSubscriber(n), toSub'[n], toPub'[n], frames'[n], mode'[n], TRUE)
    BY <2>3, <2>4, Zenon
  <2> QED
    BY <1>9, <1>11, <2>2, <2>5, Zenon DEF NtpInv
<1> QED
  BY <1>12, <1>13

-----------------------------------------------------------------------------
(* Init and Next *)

\* The initial state satisfies the invariant.
LEMMA StartsAgreed ==
    ASSUME Init
    PROVE  NtpInv
<1>1. PICK m \in Modes : mode = [l \in Links |-> m]
  BY DEF Init
<1>2. /\ pub = FreshPublisher(1) /\ sub = FreshSubscriber(1)
      /\ toSub = [l \in Links |-> <<>>] /\ toPub = [l \in Links |-> <<>>]
      /\ frames = [l \in Links |-> <<>>]
  BY DEF Init
<1>3. 1 \in Links
  BY Bounds DEF Links
<1>4. /\ pub \in Publishers /\ sub \in Subscribers /\ pub.link = 1 /\ sub.link = 1
      /\ Joint(pub, sub, <<>>, <<>>, <<>>, mode[1], TRUE)
  BY <1>2, <1>3, FreshJoint
<1>5. TypesInv
  <2>1. <<>> \in Seq(FromPublisher) /\ <<>> \in Seq(FromSubscriber) /\ <<>> \in Seq(FrameRecords)
        /\ Len(<<>>) = 0
    OBVIOUS
  <2> QED
    BY <1>1, <1>2, <1>4, <2>1, Bounds DEF TypesInv
<1>6. Unused
  BY <1>2 DEF Unused
<1>7. Newest = 1 /\ PubView = pub /\ SubView = sub
  BY <1>4 DEF Newest, PubView, SubView
<1>8. toSub[1] = <<>> /\ toPub[1] = <<>> /\ frames[1] = <<>>
  BY <1>2, <1>3
<1>9. Joint(pub, sub, toSub[1], toPub[1], frames[1], mode[1], TRUE)
  BY <1>4, <1>8, Zenon
<1> QED
  BY <1>5, <1>6, <1>7, <1>9, Zenon DEF NtpInv

\* Every step keeps the invariant.
LEMMA StepsAgree ==
    ASSUME NtpInv, [Next]_vars
    PROVE  NtpInv'
<1>1. TypesInv
  BY DEF NtpInv
<1>2. CASE UNCHANGED vars
  BY <1>2 DEF vars, NtpInv, TypesInv, Unused, Newest, PubView, SubView
<1>3. CASE PubPolls
  BY <1>1, <1>3, PubPollsStep, PubStepKeeps
<1>4. CASE SubPolls
  BY <1>1, <1>4, SubPollsStep, SubStepKeeps
<1>5. CASE PollRealtime
  BY <1>1, <1>5, PollsReliable, PollsDatagram, SubStepKeeps DEF PollRealtime
<1>6. CASE PubHello
  BY <1>1, <1>6, PubHellos, PubStepKeeps
<1>7. CASE \/ SubHello \/ RequestGeometry \/ SendPing \/ SendReceiverReport
           \/ \E c \in {"Running", "Paused", "Stopped"} : SendCommand(c)
  BY <1>1, <1>7, SubCalls, SubStepKeeps
<1>8. CASE \E d \in Definitions : PublishDescriptor(d)
  BY <1>1, <1>8, PubPublishesDescriptor, PubStepKeeps
<1>9. CASE \E n \in Results : TrySendLatest(n)
  BY <1>1, <1>9, TrySends, PubStepKeeps
<1>10. CASE LoseDatagram
  BY <1>1, <1>10, LosesDatagram, PubStepKeeps
<1>11. CASE Ages
  BY <1>1, <1>11, AgesStep, PubStepKeeps, SubStepKeeps
<1>12. CASE PubReset
  BY <1>12, PubResets
<1>13. CASE SubReset
  BY <1>13, SubResets
<1> QED
  BY <1>2, <1>3, <1>4, <1>5, <1>6, <1>7, <1>8, <1>9, <1>10, <1>11, <1>12, <1>13 DEF Next

\* The invariant holds in every behaviour.
THEOREM NtpInvariant == Spec => []NtpInv
<1>1. Init => NtpInv
  BY StartsAgreed
<1>2. NtpInv /\ [Next]_vars => NtpInv'
  BY StepsAgree
<1> QED
  BY <1>1, <1>2, PTL DEF Spec

\* On one link the two sides are as the invariant says.
LEMMA OnOneLink ==
    ASSUME NtpInv, SameLink
    PROVE  /\ pub \in Publishers /\ sub \in Subscribers /\ pub.link \in Links
           /\ frames[pub.link] \in Seq(FrameRecords)
           /\ Agreed(pub, sub, toSub[pub.link] \o pub.outbox, toPub[pub.link] \o sub.outbox,
                     frames[pub.link], mode[pub.link])
<1>1. TypesInv
  BY DEF NtpInv
<1>2. pub.link \in Int /\ pub.link \in Links
  BY <1>1, StateTypes, Bounds DEF Links
<1>3. Newest = pub.link /\ PubView = pub /\ SubView = sub
  BY <1>2 DEF SameLink, Newest, PubView, SubView
<1>4. Joint(pub, sub, toSub[pub.link], toPub[pub.link], frames[pub.link], mode[pub.link], TRUE)
  BY <1>3, Zenon DEF NtpInv
<1> QED
  BY <1>1, <1>2, <1>4, StateTypes DEF Joint

\* The subscriber leads every activation (poll_control of both sides), for any number of
\* definitions, links and calls and any size of the outboxes and of the lanes.
THEOREM SubscriberAlwaysLeads == Spec => []SubscriberLeads
<1>1. NtpInv => SubscriberLeads
  <2> SUFFICES ASSUME NtpInv, SameLink
               PROVE  SubscriberLeads
    BY DEF SubscriberLeads
  <2>1. PICK a, b, q, m : q = frames[pub.link] /\ Agreed(pub, sub, a, b, q, m)
    BY OnOneLink
  <2>2. sub.past \in Seq(Definitions) /\ pub.latest \in Latest
    BY OnOneLink DEF Publishers, Subscribers
  <2>3. PICK n : n = Len(sub.past)
    OBVIOUS
  <2>4. n \in Nat
    BY <2>2, <2>3
  <2>5. sub.active = IF n > 0 THEN sub.past[n] ELSE None
    BY <2>1, <2>3 DEF Agreed, LastOf
  <2>6. \/ Together(pub, sub)
        \/ Ahead(pub, sub)
    BY <2>1 DEF Agreed, Exchange, Idle, Proposed, Answered, Confirmed, Turning, Stuck
  <2>7. IF n > 0 /\ pub.active = sub.past[n] THEN TRUE
        ELSE /\ n > 0 => pub.pending = sub.past[n] /\ pub.accepted
             /\ pub.active = IF n > 1 THEN sub.past[n - 1] ELSE None
    BY <2>3, <2>4, <2>5, <2>6 DEF Together, Ahead, BeforeLast
  <2>8. ASSUME NEW f \in ToSet(frames[pub.link]) \cup {pub.latest[w] : w \in DOMAIN pub.latest}, f # None
        PROVE  f.def \in ToSet(sub.past)
    <3>1. DOMAIN pub.latest = FlowSet
      BY <2>2 DEF Latest
    <3>2. f \in Carried(pub, sub, q)
      BY <2>1, <2>8, <3>1 DEF Carried, Kept
    <3> QED
      BY <2>1, <3>2 DEF Agreed, InStep, Known
  <2> QED
    BY <2>3, <2>7, <2>8 DEF SubscriberLeads
<1> QED
  BY <1>1, NtpInvariant, PTL

\* A command acts on the session it was sent for (Publisher.poll_control).
THEOREM CommandsStayWithTheirSession == Spec => []CommandsReachTheirSession
<1>1. NtpInv => CommandsReachTheirSession
  BY OnOneLink DEF CommandsReachTheirSession, Agreed, Obeys
<1> QED
  BY <1>1, NtpInvariant, PTL

\* Frames of an honest publisher are never violations (Subscriber.poll_realtime).
THEOREM HonestStreamStaysClean == Spec => []HonestStreamIsClean
<1>1. NtpInv => HonestStreamIsClean
  <2> SUFFICES ASSUME NtpInv, SameLink, mode[sub.link] = "ReliableLatestOnly", ~sub.late,
                      Growing(sub.past)
               PROVE  sub.violations = 0
    BY DEF HonestStreamIsClean
  <2>1. PICK a, b, q : Agreed(pub, sub, a, b, q, mode[pub.link])
    BY OnOneLink
  <2> QED
    BY <2>1 DEF SameLink, Agreed, InStep, Honest
<1> QED
  BY <1>1, NtpInvariant, PTL
=============================================================================
