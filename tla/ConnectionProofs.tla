-------------------------- MODULE ConnectionProofs --------------------------
(***************************************************************************)
(* Proofs about the connections: what the tasks of FramedConnection        *)
(* guarantee between two owners, for every capacity and every number of    *)
(* messages, what MemoryTransport guarantees between two threads, and what *)
(* RealtimePath guarantees of datagrams that may be lost.                  *)
(***************************************************************************)
EXTENDS FramedConnection, MemoryTransport, RealtimePath, DataFacts, FiniteSetTheorems

Frames == [lane : Lanes, kind : Lanes, big : BOOLEAN,
           part : {"whole", "length", "body"}, n : Nat]

\* Concatenation of frames, for steps that only rewrite.
LEMMA FrameSequences ==
    /\ \A s, t \in Seq(Frames) : s \o t \in Seq(Frames)
    /\ \A s, t, u \in Seq(Frames) : (s \o t) \o u = s \o (t \o u)
    /\ \A s \in Seq(Frames) : s \o <<>> = s /\ <<>> \o s = s
    /\ \A s \in Seq(Frames) : \A x \in Frames :
          Append(s, x) \in Seq(Frames) /\ Append(s, x) = s \o <<x>>
    /\ \A x \in Frames : <<x>> \in Seq(Frames)
    /\ <<>> \in Seq(Frames)
    /\ \A s \in Seq(Frames) : s # <<>> =>
          /\ Head(s) \in Frames
          /\ Tail(s) \in Seq(Frames)
          /\ s = <<Head(s)>> \o Tail(s)
<1> DEFINE S == Frames
<1> HIDE DEF S
<1>1. \A s, t \in Seq(S) : s \o t \in Seq(S)
  BY ConcatProperties
<1>2. \A s, t, u \in Seq(S) : (s \o t) \o u = s \o (t \o u)
  BY ConcatAssociative
<1>3. \A s \in Seq(S) : s \o <<>> = s /\ <<>> \o s = s
  BY ConcatEmptySeq
<1>4. \A s \in Seq(S) : \A x \in S : Append(s, x) \in Seq(S) /\ Append(s, x) = s \o <<x>>
  BY AppendIsConcat, AppendProperties
<1>5. <<>> \in Seq(S) /\ \A x \in S : <<x>> \in Seq(S)
  OBVIOUS
<1>6. \A s \in Seq(S) : s # <<>> =>
          Head(s) \in S /\ Tail(s) \in Seq(S) /\ s = <<Head(s)>> \o Tail(s)
  <2> TAKE s \in Seq(S)
  <2> HAVE s # <<>>
  <2>1. Head(s) \in S /\ Tail(s) \in Seq(S)
    BY HeadTailProperties
  <2>2. s = <<Head(s)>> \o Tail(s)
    OBVIOUS
  <2> QED
    BY <2>1, <2>2
<1> QED
  BY <1>1, <1>2, <1>3, <1>4, <1>5, <1>6, Zenon DEF S

\* Names for the short sequences a task holds.
LEMMA ShortSequences ==
    /\ \E none \in Seq(Frames) : none = <<>>
    /\ \A f \in Frames : \E one \in Seq(Frames) : one = <<f>>
  BY FrameSequences, Zenon

\* Concatenation of frame sequences is associative.
LEMMA Associative ==
    \A s, t, u \in Seq(Frames) : (s \o t) \o u = s \o (t \o u)
  BY FrameSequences

\* A frame appended to the second of two sequences is appended to both.
LEMMA AppendConcat ==
    ASSUME NEW S, NEW s \in Seq(S), NEW t \in Seq(S), NEW x \in S
    PROVE  /\ s \o t \in Seq(S)
           /\ s \o Append(t, x) = Append(s \o t, x)
  OBVIOUS

-----------------------------------------------------------------------------
(* Through: a filter, by induction on the length *)

IsKept(kept, frames, lane, kind, last) ==
    kept = [i \in 0 .. last |->
              IF i = 0 THEN <<>>
              ELSE IF Passes(frames[i], lane, kind) THEN Append(kept[i - 1], frames[i])
              ELSE kept[i - 1]]

\* The recursive function of Through exists, up to every position.
LEMMA KeptExists ==
    ASSUME NEW frames, NEW lane, NEW kind, NEW last \in Nat
    PROVE  \E kept : IsKept(kept, frames, lane, kind, last)
<1> DEFINE K == {i \in 0 .. last : Passes(frames[i], lane, kind)}
<1>1. PICK kept : IsFilter(kept, frames, K, last)
  BY FilterExists
<1> QED
  BY <1>1 DEF IsFilter, IsKept

\* A prefix of the frames is filtered in the same way.
LEMMA KeptAgrees ==
    ASSUME NEW s, NEW t, NEW lane, NEW kind, NEW n \in Nat, NEW last \in Nat, n <= last,
           \A i \in 1 .. n : s[i] = t[i],
           NEW f, IsKept(f, s, lane, kind, n), NEW g, IsKept(g, t, lane, kind, last)
    PROVE  f[n] = g[n]
<1> DEFINE T == {k \in 0 .. n : f[k] # g[k]}
<1> SUFFICES ASSUME T # {} PROVE FALSE
  OBVIOUS
<1>0. T \in SUBSET Nat
  OBVIOUS
<1>1. PICK k \in T : \A m \in T : k <= m
  <2> HIDE DEF T
  <2> QED
    BY <1>0, LeastElement
<1>2. k \in 0 .. n /\ k \in 0 .. last /\ f[k] # g[k]
  BY <1>1
<1>3. CASE k = 0
  <2>1. f[0] = <<>> /\ g[0] = <<>>
    BY DEF IsKept
  <2> QED
    BY <1>2, <1>3, <2>1
<1>4. CASE k # 0
  <2>1. k - 1 \in 0 .. n /\ k - 1 \notin T /\ k \in 1 .. n
    BY <1>1, <1>2, <1>4
  <2>2. f[k - 1] = g[k - 1] /\ s[k] = t[k]
    BY <2>1
  <2>3. f[k] = IF Passes(s[k], lane, kind) THEN Append(f[k - 1], s[k]) ELSE f[k - 1]
    BY <1>2, <1>4 DEF IsKept
  <2>4. g[k] = IF Passes(t[k], lane, kind) THEN Append(g[k - 1], t[k]) ELSE g[k - 1]
    BY <1>2, <1>4 DEF IsKept
  <2> QED
    BY <1>2, <2>2, <2>3, <2>4
<1> QED
  BY <1>3, <1>4

\* Through, a recursive function, satisfies its own equations.
LEMMA ThroughIsKept ==
    ASSUME NEW frames, NEW lane, NEW kind, Len(frames) \in Nat
    PROVE  \E kept : /\ IsKept(kept, frames, lane, kind, Len(frames))
                     /\ Through(frames, lane, kind) = kept[Len(frames)]
<1>1. \E kept : IsKept(kept, frames, lane, kind, Len(frames))
  BY KeptExists
<1> QED
  BY <1>1, Zenon DEF IsKept, Through

\* The empty sequence, and one frame more.
LEMMA ThroughEmpty ==
    ASSUME NEW lane, NEW kind
    PROVE  Through(<<>>, lane, kind) = <<>>
<1>1. PICK f : IsKept(f, <<>>, lane, kind, 0) /\ Through(<<>>, lane, kind) = f[0]
  <2>1. Len(<<>>) = 0
    OBVIOUS
  <2> QED
    BY <2>1, ThroughIsKept
<1> QED
  BY <1>1 DEF IsKept

\* A frame appended to a sequence is picked out by Through exactly when it passes.
LEMMA ThroughAppend ==
    ASSUME NEW lane, NEW kind, NEW s \in Seq(Frames), NEW frame \in Frames
    PROVE  Through(Append(s, frame), lane, kind) =
             IF Passes(frame, lane, kind) THEN Append(Through(s, lane, kind), frame)
             ELSE Through(s, lane, kind)
<1> DEFINE t == Append(s, frame)
<1>1. PICK n \in Nat : n = Len(s)
  OBVIOUS
<1>2. t \in Seq(Frames) /\ Len(t) = n + 1 /\ t[n + 1] = frame /\ \A i \in 1 .. n : s[i] = t[i]
  BY <1>1
<1> HIDE DEF t
<1>3. PICK f : IsKept(f, s, lane, kind, n) /\ Through(s, lane, kind) = f[n]
  BY <1>1, ThroughIsKept
<1>4. PICK g : IsKept(g, t, lane, kind, n + 1) /\ Through(t, lane, kind) = g[n + 1]
  BY <1>2, ThroughIsKept
<1>5. f[n] = g[n]
  BY <1>2, <1>3, <1>4, KeptAgrees
<1>6. g[n + 1] = IF Passes(t[n + 1], lane, kind) THEN Append(g[n], t[n + 1]) ELSE g[n]
  <2>1. n + 1 \in 0 .. n + 1 /\ n + 1 # 0 /\ (n + 1) - 1 = n
    OBVIOUS
  <2> QED
    BY <1>4, <2>1 DEF IsKept
<1> QED
  BY <1>2, <1>3, <1>4, <1>5, <1>6 DEF t

\* A sequence is empty, or another with one element appended.
LEMMA LastOf ==
    ASSUME NEW S, NEW s \in Seq(S), s # <<>>
    PROVE  \E r \in Seq(S), x \in S : s = Append(r, x) /\ Len(r) = Len(s) - 1
<1>1. PICK n \in Nat : n = Len(s) /\ n # 0
  OBVIOUS
<1> DEFINE r == [i \in 1 .. n - 1 |-> s[i]]
<1>2. r \in Seq(S) /\ Len(r) = n - 1
  BY <1>1
<1>3. s[n] \in S
  BY <1>1
<1>4. s = Append(r, s[n])
  BY <1>1, <1>2, <1>3
<1> QED
  BY <1>1, <1>2, <1>3, <1>4

\* Filtering a sequence gives a sequence.
LEMMA ThroughType ==
    ASSUME NEW lane, NEW kind, NEW s \in Seq(Frames)
    PROVE  Through(s, lane, kind) \in Seq(Frames)
<1> DEFINE T == {n \in Nat : \E r \in Seq(Frames) :
                                Len(r) = n /\ Through(r, lane, kind) \notin Seq(Frames)}
<1> SUFFICES ASSUME T # {} PROVE FALSE
  OBVIOUS
<1>1. PICK n \in T : \A m \in T : n <= m
  BY LeastElement
<1>2. PICK r \in Seq(Frames) : Len(r) = n /\ Through(r, lane, kind) \notin Seq(Frames)
  BY <1>1
<1>3. CASE r = <<>>
  BY <1>2, <1>3, ThroughEmpty
<1>4. CASE r # <<>>
  <2>1. PICK q \in Seq(Frames), x \in Frames : r = Append(q, x) /\ Len(q) = Len(r) - 1
    BY <1>4, LastOf
  <2>2. Len(q) \in Nat /\ Len(q) < n
    BY <1>2, <2>1
  <2>3. Through(q, lane, kind) \in Seq(Frames)
    BY <1>1, <2>2
  <2>4. Through(r, lane, kind) = IF Passes(x, lane, kind)
                                 THEN Append(Through(q, lane, kind), x)
                                 ELSE Through(q, lane, kind)
    BY <2>1, ThroughAppend
  <2> QED
    BY <1>2, <2>3, <2>4, AppendProperties
<1> QED
  BY <1>3, <1>4

\* Filtering distributes over concatenation.
LEMMA ThroughConcat ==
    ASSUME NEW lane, NEW kind, NEW s \in Seq(Frames), NEW t \in Seq(Frames)
    PROVE  Through(s \o t, lane, kind) = Through(s, lane, kind) \o Through(t, lane, kind)
<1> DEFINE F(u) == Through(u, lane, kind)
           T == {n \in Nat : \E r \in Seq(Frames) : Len(r) = n /\ F(s \o r) # F(s) \o F(r)}
<1> SUFFICES ASSUME T # {} PROVE FALSE
  OBVIOUS
<1>1. PICK n \in T : \A m \in T : n <= m
  BY LeastElement
<1>2. PICK r \in Seq(Frames) : Len(r) = n /\ F(s \o r) # F(s) \o F(r)
  BY <1>1
<1>0. \A u \in Seq(Frames) : F(u) \in Seq(Frames)
  BY ThroughType
<1>3. CASE r = <<>>
  <2>1. s \o r = s /\ F(s) \o <<>> = F(s)
    BY <1>0, <1>3, ConcatEmptySeq
  <2>2. F(r) = <<>>
    BY <1>3, ThroughEmpty
  <2> HIDE DEF F
  <2> QED
    BY <1>2, <2>1, <2>2
<1>4. CASE r # <<>>
  <2>1. PICK q \in Seq(Frames), x \in Frames : r = Append(q, x) /\ Len(q) = Len(r) - 1
    BY <1>4, LastOf
  <2>2. Len(q) \in Nat /\ Len(q) < n
    BY <1>2, <2>1
  <2>3. F(s \o q) = F(s) \o F(q)
    BY <1>1, <2>2
  <2>4. s \o q \in Seq(Frames) /\ s \o r = Append(s \o q, x)
    BY <2>1, AppendConcat, SMTT(60)
  <2>5. F(r) = IF Passes(x, lane, kind) THEN Append(F(q), x) ELSE F(q)
    BY <2>1, ThroughAppend
  <2>6. F(s \o r) = IF Passes(x, lane, kind) THEN Append(F(s \o q), x) ELSE F(s \o q)
    BY <2>4, ThroughAppend, ZenonT(60)
  <2>7. Append(F(s) \o F(q), x) = F(s) \o Append(F(q), x)
    <3> HIDE DEF F, T
    <3>1. PICK a \in Seq(Frames), b \in Seq(Frames) : a = F(s) /\ b = F(q)
      BY <1>0
    <3>2. a \o Append(b, x) = Append(a \o b, x)
      BY AppendConcat
    <3> QED
      BY <3>1, <3>2, Zenon
  <2> HIDE DEF F
  <2> QED
    BY <1>2, <2>3, <2>5, <2>6, <2>7
<1> QED
  BY <1>3, <1>4

-----------------------------------------------------------------------------
(* The tasks and their queues *)

\* Each end has one peer, and is that peer's.
LEMMA PeerFacts ==
    ASSUME NEW e \in Ends
    PROVE  /\ Peer(e) \in Ends /\ Peer(e) # e /\ Peer(Peer(e)) = e
           /\ \A x \in Ends : x = e \/ x = Peer(e)
<1>1. PICK a \in Ends, b \in Ends : a # b /\ Ends = {a, b}
  BY FramedAssumption
<1>2. Peer(a) = b /\ Peer(b) = a
  <2>1. \A p \in Ends : (p # a <=> p = b) /\ (p # b <=> p = a)
    BY <1>1
  <2> QED
    BY <2>1 DEF Peer
<1> QED
  BY <1>1, <1>2

Sent(lane) == {f \in Frames : f.lane = lane /\ f.part = "whole"}
Sorted(kind) == {f \in Frames : f.kind = kind /\ f.part = "whole"}

Writers == [pc : {"select", "write", "done"}, frame : Seq(Frames), open : SUBSET Lanes]
Readers == [pc : {"read", "deliver", "done"}, frame : Seq(Frames)]

\* A task at another place with another frame.
Moved(task, e, pc, frame) == [task EXCEPT ![e].pc = pc, ![e].frame = frame]

\* A writer task that moves changes its own place and frame only.
LEMMA WriterMoves ==
    ASSUME NEW w \in [Ends -> Writers], NEW e \in Ends, NEW pc \in {"select", "write", "done"},
           NEW frame \in Seq(Frames)
    PROVE  /\ Moved(w, e, pc, frame) \in [Ends -> Writers]
           /\ Moved(w, e, pc, frame)[e].pc = pc /\ Moved(w, e, pc, frame)[e].frame = frame
           /\ Moved(w, e, pc, frame)[e].open = w[e].open
           /\ \A x \in Ends \ {e} : Moved(w, e, pc, frame)[x] = w[x]
<1> DEFINE u == [w EXCEPT ![e].pc = pc]
           v == [u EXCEPT ![e].frame = frame]
<1>1. u \in [Ends -> Writers] /\ u[e].pc = pc /\ u[e].open = w[e].open
  BY DEF Writers
<1>2. \A x \in Ends \ {e} : u[x] = w[x]
  OBVIOUS
<1>3. v = Moved(w, e, pc, frame)
  BY DEF Moved
<1> HIDE DEF u
<1>4. v \in [Ends -> Writers]
  BY <1>1 DEF Writers
<1>5. v[e].pc = u[e].pc /\ v[e].frame = frame /\ v[e].open = u[e].open
  BY <1>1 DEF Writers
<1>6. \A x \in Ends \ {e} : v[x] = u[x]
  BY <1>1
<1> HIDE DEF v
<1> QED
  BY <1>1, <1>2, <1>3, <1>4, <1>5, <1>6, Zenon

\* The same for a reader task.
LEMMA ReaderMoves ==
    ASSUME NEW w \in [Ends -> Readers], NEW e \in Ends, NEW pc \in {"read", "deliver", "done"},
           NEW frame \in Seq(Frames)
    PROVE  /\ Moved(w, e, pc, frame) \in [Ends -> Readers]
           /\ Moved(w, e, pc, frame)[e].pc = pc /\ Moved(w, e, pc, frame)[e].frame = frame
           /\ \A x \in Ends \ {e} : Moved(w, e, pc, frame)[x] = w[x]
<1> DEFINE u == [w EXCEPT ![e].pc = pc]
           v == [u EXCEPT ![e].frame = frame]
<1>1. u \in [Ends -> Readers] /\ u[e].pc = pc
  BY DEF Readers
<1>2. \A x \in Ends \ {e} : u[x] = w[x]
  OBVIOUS
<1>3. v = Moved(w, e, pc, frame)
  BY DEF Moved
<1> HIDE DEF u
<1>4. v \in [Ends -> Readers]
  BY <1>1 DEF Readers
<1>5. v[e].pc = u[e].pc /\ v[e].frame = frame
  BY <1>1 DEF Readers
<1>6. \A x \in Ends \ {e} : v[x] = u[x]
  BY <1>1
<1> HIDE DEF v
<1> QED
  BY <1>1, <1>2, <1>3, <1>4, <1>5, <1>6, Zenon

FramedTypes ==
    /\ senders \in [Ends -> BOOLEAN]
    /\ writer \in [Ends -> Writers]
    /\ wire \in [Ends -> Seq(Frames)]
    /\ shut \in [Ends -> BOOLEAN]
    /\ reader \in [Ends -> Readers]
    /\ write_closed \in [Ends -> BOOLEAN]
    /\ accepted \in [Ends -> Seq(Frames)]
    /\ received \in [Ends -> Seq(Frames)]
    /\ delay \in [Ends -> Nat]
    /\ sendq \in [Ends -> [Lanes -> Seq(Frames)]]
    /\ recvq \in [Ends -> [Lanes -> Seq(Frames)]]

\* A queue holds the frames of its lane.
QueueOK(e) ==
    \A l \in Lanes : sendq[e][l] \in Seq(Sent(l)) /\ recvq[e][l] \in Seq(Sorted(l))

\* A task holds a frame exactly while it hands it on.
Holds(task, pc) ==
    /\ task.pc = pc => \E f \in Frames : f.part = "whole" /\ task.frame = <<f>>
    /\ task.pc # pc => task.frame = <<>>

\* A lane the writer has seen the end of stays empty; the stream is shut down
\* after both have ended.
WriterOK(e) ==
    /\ Holds(writer[e], "write")
    /\ \A l \in Lanes \ writer[e].open : ~ senders[e] /\ sendq[e][l] = <<>>
    /\ ~ senders[e] => write_closed[e]
    /\ shut[e] => Done(writer[e]) /\ writer[e].open = {}

ReaderOK(e) == Holds(reader[e], "deliver")

\* While the writer writes a frame, no control frame has been passed over.
DelayOK(e) ==
    /\ delay[e] \in {0, 1}
    /\ writer[e].pc = "write" => delay[e] = 0
    /\ sendq[e]["control"] = <<>> => delay[e] = 0

TasksInv ==
    FramedTypes /\ \A e \in Ends : QueueOK(e) /\ WriterOK(e) /\ ReaderOK(e) /\ DelayOK(e)

\* A new connection has both tasks waiting and nothing queued.
LEMMA TasksInit == Init => TasksInv
  BY DEF Init, TasksInv, FramedTypes, QueueOK, WriterOK, ReaderOK, DelayOK, Holds, Done, Lanes,
         Writers, Readers

\* What try_send accepts is a frame of its lane.
LEMMA OffersAreFrames ==
    ASSUME NEW offer \in Offers, NEW n \in Nat,
           NEW frame, frame = [lane |-> offer.lane, kind |-> offer.kind, big |-> offer.big,
                               part |-> "whole", n |-> n]
    PROVE  frame \in Frames /\ frame \in Sent(offer.lane) /\ offer.lane \in Lanes
  BY FramedAssumption DEF Frames, Sent

\* try_send and try_send_control queue into a lane the writer still serves.
LEMMA SendTasks ==
    ASSUME TasksInv, NEW e \in Ends, NEW offer \in Offers, TrySend(e, offer)
    PROVE  TasksInv'
<1> DEFINE frame == [lane |-> offer.lane, kind |-> offer.kind, big |-> offer.big,
                     part |-> "whole", n |-> Len(accepted[e]) + 1]
<1>1. /\ frame \in Frames /\ frame \in Sent(offer.lane) /\ offer.lane \in Lanes
  <2>1. Len(accepted[e]) + 1 \in Nat
    BY DEF TasksInv, FramedTypes
  <2> QED
    BY <2>1, OffersAreFrames
<1>2. /\ sendq' = [sendq EXCEPT ![e][offer.lane] = Append(@, frame)]
      /\ accepted' = [accepted EXCEPT ![e] = Append(@, frame)]
      /\ ~ write_closed[e]
      /\ UNCHANGED <<senders, wire, shut, recvq, tasks, flags, received, told, delay>>
  BY Zenon DEF TrySend
<1> HIDE DEF frame
<1>3. FramedTypes'
  BY <1>1, <1>2 DEF TasksInv, FramedTypes, tasks, flags
<1>4. ASSUME NEW x \in Ends PROVE QueueOK(x)' /\ WriterOK(x)' /\ ReaderOK(x)' /\ DelayOK(x)'
  <2>1. QueueOK(x)'
    BY <1>1, <1>2 DEF TasksInv, FramedTypes, QueueOK
  <2>2. WriterOK(x)'
    BY <1>1, <1>2 DEF TasksInv, FramedTypes, WriterOK, Done, Holds, tasks, flags
  <2>3. ReaderOK(x)' /\ DelayOK(x)'
    BY <1>1, <1>2, SMTT(60) DEF TasksInv, FramedTypes, ReaderOK, DelayOK, Holds, tasks, flags
  <2> QED
    BY <2>1, <2>2, <2>3
<1> QED
  BY <1>3, <1>4 DEF TasksInv

\* The owner's other calls: a receive shortens a queue, the closes set flags.
LEMMA ReceiveTasks ==
    ASSUME TasksInv, NEW e \in Ends, NEW lane \in Lanes, TryReceive(e, lane)
    PROVE  TasksInv'
<1>1. UNCHANGED <<sendq, senders, wire, shut, writer, reader, accepted, delay, write_closed>>
  BY DEF TryReceive, tasks
<1>2. CASE UNCHANGED <<recvq, received>>
  BY <1>1, <1>2 DEF TasksInv, FramedTypes, QueueOK, WriterOK, ReaderOK, DelayOK, Holds, Done
<1>3. CASE /\ recvq[e][lane] # <<>>
           /\ received' = [received EXCEPT ![e] = Append(@, Head(recvq[e][lane]))]
           /\ recvq' = [recvq EXCEPT ![e][lane] = Tail(@)]
  <2>1. FramedTypes'
    BY <1>1, <1>3 DEF TasksInv, FramedTypes
  <2>2. ASSUME NEW x \in Ends PROVE QueueOK(x)'
    BY <1>1, <1>3 DEF TasksInv, FramedTypes, QueueOK
  <2>3. ASSUME NEW x \in Ends PROVE WriterOK(x)' /\ ReaderOK(x)' /\ DelayOK(x)'
    BY <1>1 DEF TasksInv, WriterOK, ReaderOK, DelayOK, Holds, Done
  <2> QED
    BY <2>1, <2>2, <2>3 DEF TasksInv
<1> QED
  BY <1>2, <1>3 DEF TryReceive

\* Closing, aborting, observing is_finished and a broken stream change flags only.
LEMMA FlagTasks ==
    ASSUME TasksInv,
           \/ \E e \in Ends : IsFinished(e) \/ CloseWrite(e) \/ CloseRead(e) \/ Abort(e)
           \/ Break
    PROVE  TasksInv'
<1>1. UNCHANGED <<sendq, wire, shut, recvq, writer, reader, accepted, received, delay>>
  BY DEF IsFinished, CloseWrite, CloseRead, Abort, Break, queues, tasks, history
<1> DEFINE FlagsOK ==
      /\ senders' \in [Ends -> BOOLEAN] /\ write_closed' \in [Ends -> BOOLEAN]
      /\ \A x \in Ends : ~ senders[x] => ~ senders'[x]
      /\ \A x \in Ends : ~ senders'[x] => write_closed'[x]
<1>2. FlagsOK
  <2>1. senders \in [Ends -> BOOLEAN] /\ write_closed \in [Ends -> BOOLEAN]
    BY DEF TasksInv, FramedTypes
  <2>2. \A x \in Ends : ~ senders[x] => write_closed[x]
    BY DEF TasksInv, WriterOK
  <2>3. CASE UNCHANGED <<senders, write_closed>>
    BY <2>1, <2>2, <2>3
  <2>4. ASSUME NEW e \in Ends, CloseWrite(e) PROVE FlagsOK
    BY <2>1, <2>2, <2>4, Zenon DEF CloseWrite
  <2>5. ASSUME NEW e \in Ends, Abort(e) PROVE FlagsOK
    BY <2>1, <2>2, <2>5 DEF Abort
  <2> QED
    BY <2>3, <2>4, <2>5 DEF IsFinished, CloseRead, Break, queues, flags
<1>3. FramedTypes'
  BY <1>1, <1>2 DEF TasksInv, FramedTypes
<1>4. ASSUME NEW x \in Ends PROVE QueueOK(x)' /\ WriterOK(x)' /\ ReaderOK(x)' /\ DelayOK(x)'
  <2>1. QueueOK(x)' /\ ReaderOK(x)' /\ DelayOK(x)'
    BY <1>1 DEF TasksInv, QueueOK, ReaderOK, DelayOK, Holds
  <2>2. WriterOK(x)'
    <3>1. writer' = writer /\ sendq' = sendq /\ shut' = shut /\ WriterOK(x)
      BY <1>1 DEF TasksInv
    <3>2. (~ senders[x] => ~ senders'[x]) /\ (~ senders'[x] => write_closed'[x])
      BY <1>2, Zenon
    <3> QED
      BY <3>1, <3>2, Zenon DEF WriterOK, Holds, Done
  <2> QED
    BY <2>1, <2>2
<1> QED
  BY <1>3, <1>4 DEF TasksInv

\* The writer's steps.
LEMMA TakeTasks ==
    ASSUME TasksInv, NEW e \in Ends, TakeFrame(e)
    PROVE  TasksInv'
<1>1. PICK lane \in LaneToWrite(e) :
        /\ writer' = [writer EXCEPT ![e].pc = "write", ![e].frame = <<Head(sendq[e][lane])>>]
        /\ sendq' = [sendq EXCEPT ![e][lane] = Tail(@)]
        /\ delay' = [delay EXCEPT ![e] = IF lane = "control" THEN 0 ELSE @]
  BY DEF TakeFrame
<1>2. UNCHANGED <<senders, wire, shut, recvq, reader, write_closed, accepted, received>>
  BY DEF TakeFrame, flags
<1>3. /\ writer[e].pc = "select" /\ lane \in Lanes /\ lane \in writer[e].open
      /\ sendq[e][lane] # <<>>
      /\ lane = "data" => sendq[e]["control"] = <<>>
  <2>1. writer[e].open \subseteq Lanes /\ lane \in writer[e].open
    BY DEF LaneToWrite, TasksInv, FramedTypes, Writers
  <2>2. "control" \notin writer[e].open => sendq[e]["control"] = <<>>
    BY DEF TasksInv, WriterOK, Lanes
  <2> QED
    BY <2>1, <2>2 DEF LaneToWrite, TakeFrame
<1>4. PICK frame \in Frames : frame = Head(sendq[e][lane]) /\ frame.part = "whole"
  <2>1. sendq[e][lane] \in Seq(Sent(lane))
    BY <1>3 DEF TasksInv, QueueOK
  <2>2. Head(sendq[e][lane]) \in Sent(lane)
    BY <1>3, <2>1, HeadTailProperties
  <2> QED
    BY <2>2 DEF Sent
<1>41. /\ writer' \in [Ends -> Writers]
       /\ writer'[e].pc = "write" /\ writer'[e].frame = <<frame>>
       /\ writer'[e].open = writer[e].open
       /\ \A x \in Ends \ {e} : writer'[x] = writer[x]
  <2>1. PICK one \in Seq(Frames) : one = <<frame>>
    BY ShortSequences
  <2>2. writer \in [Ends -> Writers] /\ writer' = Moved(writer, e, "write", one)
    BY <1>1, <1>4, <2>1, Zenon DEF Moved, TasksInv, FramedTypes
  <2>3. /\ writer' \in [Ends -> Writers]
        /\ writer'[e].pc = "write" /\ writer'[e].frame = one
        /\ writer'[e].open = writer[e].open
        /\ \A x \in Ends \ {e} : writer'[x] = writer[x]
    BY <2>2, WriterMoves
  <2> QED
    BY <2>1, <2>3, Zenon
<1>5. FramedTypes'
  <2>1. sendq' \in [Ends -> [Lanes -> Seq(Frames)]]
    BY <1>1, <1>3 DEF TasksInv, FramedTypes
  <2>2. writer' \in [Ends -> Writers]
    BY <1>41
  <2>3. delay' \in [Ends -> Nat]
    BY <1>1 DEF TasksInv, FramedTypes
  <2> QED
    BY <1>2, <2>1, <2>2, <2>3 DEF TasksInv, FramedTypes
<1>6. ASSUME NEW x \in Ends PROVE QueueOK(x)' /\ WriterOK(x)' /\ ReaderOK(x)' /\ DelayOK(x)'
  <2>1. QueueOK(x)'
    BY <1>1, <1>2, <1>3 DEF TasksInv, FramedTypes, QueueOK
  <2>2. ReaderOK(x)'
    BY <1>2 DEF TasksInv, ReaderOK
  <2>3. WriterOK(x)'
    BY <1>1, <1>2, <1>3, <1>4, <1>41, SMTT(60) DEF TasksInv, FramedTypes, WriterOK, Holds, Done
  <2>4. DelayOK(x)'
    BY <1>1, <1>2, <1>3, <1>41 DEF TasksInv, FramedTypes, DelayOK, Lanes
  <2> QED
    BY <2>1, <2>2, <2>3, <2>4
<1> QED
  BY <1>5, <1>6 DEF TasksInv

\* The writer leaves a lane that is empty and has no sender, and shuts the stream down last.
LEMMA EndTasks ==
    ASSUME TasksInv, NEW e \in Ends, Shutdown(e) \/ \E lane \in Lanes : LaneEnded(e, lane)
    PROVE  TasksInv'
<1>1. UNCHANGED <<sendq, senders, wire, recvq, reader, write_closed, accepted, received, delay>>
  BY DEF Shutdown, LaneEnded, queues, flags, history
<1>2. CASE Shutdown(e)
  <2>1. /\ writer[e].pc = "select" /\ writer[e].open = {}
        /\ shut' = [shut EXCEPT ![e] = TRUE]
        /\ writer' = [writer EXCEPT ![e].pc = "done"]
    BY <1>2 DEF Shutdown
  <2>2. FramedTypes'
    BY <1>1, <2>1 DEF TasksInv, FramedTypes, Writers
  <2>3. ASSUME NEW x \in Ends PROVE WriterOK(x)'
    BY <1>1, <2>1 DEF TasksInv, FramedTypes, Writers, WriterOK, Holds, Done
  <2>4. ASSUME NEW x \in Ends PROVE QueueOK(x)' /\ ReaderOK(x)' /\ DelayOK(x)'
    BY <1>1, <2>1 DEF TasksInv, FramedTypes, Writers, QueueOK, ReaderOK, DelayOK, Holds
  <2> QED
    BY <2>2, <2>3, <2>4 DEF TasksInv
<1>3. ASSUME NEW lane \in Lanes, LaneEnded(e, lane) PROVE TasksInv'
  <2>1. /\ writer[e].pc = "select" /\ ~ senders[e] /\ sendq[e][lane] = <<>>
        /\ writer' = [writer EXCEPT ![e].open = @ \ {lane}]
        /\ UNCHANGED shut
    BY <1>3 DEF LaneEnded, queues
  <2>2. FramedTypes'
    BY <1>1, <2>1, ZenonT(60) DEF TasksInv, FramedTypes, Writers
  <2>3. ASSUME NEW x \in Ends PROVE WriterOK(x)'
    BY <1>1, <2>1 DEF TasksInv, FramedTypes, Writers, WriterOK, Holds, Done
  <2>4. ASSUME NEW x \in Ends PROVE QueueOK(x)' /\ ReaderOK(x)' /\ DelayOK(x)'
    BY <1>1, <2>1 DEF TasksInv, FramedTypes, Writers, QueueOK, ReaderOK, DelayOK, Holds
  <2> QED
    BY <2>2, <2>3, <2>4 DEF TasksInv
<1> QED
  BY <1>2, <1>3

\* A frame is written, whole or torn by a cancellation.
LEMMA WriteTasks ==
    ASSUME TasksInv, NEW e \in Ends, WriteFrame(e) \/ CancelWriter(e)
    PROVE  TasksInv'
<1>1. UNCHANGED <<sendq, senders, shut, recvq, reader, write_closed, accepted, received>>
  BY DEF WriteFrame, CancelWriter, flags, history
<1>2. ~ Done(writer[e]) /\ ~ shut[e]
  BY DEF TasksInv, WriterOK, WriteFrame, CancelWriter, Done
<1>3. /\ writer' \in [Ends -> Writers]
      /\ writer'[e].pc \in {"select", "done"} /\ writer'[e].frame = <<>>
      /\ writer'[e].open = writer[e].open
      /\ \A x \in Ends \ {e} : writer'[x] = writer[x]
  <2>1. PICK none \in Seq(Frames) : none = <<>>
    BY ShortSequences
  <2>2. PICK pc \in {"select", "done"} : writer' = Moved(writer, e, pc, none)
    BY <2>1, Zenon DEF WriteFrame, CancelWriter, Moved
  <2>3. writer \in [Ends -> Writers] /\ pc \in {"select", "write", "done"}
    BY DEF TasksInv, FramedTypes
  <2>4. /\ writer' \in [Ends -> Writers]
        /\ writer'[e].pc = pc /\ writer'[e].frame = none
        /\ writer'[e].open = writer[e].open
        /\ \A x \in Ends \ {e} : writer'[x] = writer[x]
    BY <2>2, <2>3, WriterMoves
  <2> QED
    BY <2>1, <2>4, Zenon
<1>4. wire' \in [Ends -> Seq(Frames)]
  <2>1. wire \in [Ends -> Seq(Frames)] /\ writer[e].frame \in Seq(Frames)
    BY DEF TasksInv, FramedTypes, Writers
  <2>2. CASE UNCHANGED wire
    BY <2>1, <2>2
  <2>3. CASE wire' = [wire EXCEPT ![e] = @ \o writer[e].frame]
    BY <2>1, <2>3, FrameSequences
  <2>4. ASSUME NEW part \in {"length", "body"}, writer[e].pc = "write",
               wire' = [wire EXCEPT ![e] = Append(@, [writer[e].frame[1] EXCEPT !.part = part])]
        PROVE  wire' \in [Ends -> Seq(Frames)]
    <3>1. PICK f \in Frames : writer[e].frame = <<f>>
      BY <2>4 DEF TasksInv, WriterOK, Holds
    <3>2. [f EXCEPT !.part = part] \in Frames
      BY DEF Frames
    <3>3. writer[e].frame[1] = f
      BY <3>1
    <3> QED
      BY <2>1, <2>4, <3>2, <3>3, FrameSequences
  <2> QED
    BY <2>2, <2>3, <2>4 DEF WriteFrame, CancelWriter
<1>5. delay' \in [Ends -> Nat] /\ \A x \in Ends : DelayOK(x)'
  <2>1. delay \in [Ends -> Nat] /\ \A x \in Ends : DelayOK(x)
    BY DEF TasksInv, FramedTypes
  <2>2. writer'[e].pc # "write" /\ \A x \in Ends \ {e} : writer'[x] = writer[x]
    BY <1>3 DEF TasksInv, FramedTypes
  <2>3. CASE UNCHANGED delay
    BY <1>1, <2>1, <2>2, <2>3 DEF DelayOK
  <2>4. CASE /\ writer[e].pc = "write"
             /\ delay' = [delay EXCEPT ![e] =
                            IF writer[e].frame[1].lane = "data" /\ sendq[e]["control"] # <<>>
                            THEN @ + 1 ELSE @]
    BY <1>1, <2>1, <2>2, <2>4 DEF DelayOK
  <2> QED
    BY <2>3, <2>4 DEF WriteFrame, CancelWriter, history
<1>6. FramedTypes'
  BY <1>1, <1>3, <1>4, <1>5 DEF TasksInv, FramedTypes
<1>7. ASSUME NEW x \in Ends PROVE QueueOK(x)' /\ WriterOK(x)' /\ ReaderOK(x)'
  <2>1. QueueOK(x)' /\ ReaderOK(x)'
    BY <1>1 DEF TasksInv, QueueOK, ReaderOK
  <2>2. /\ WriterOK(x) /\ senders' = senders /\ sendq' = sendq /\ shut' = shut
        /\ write_closed' = write_closed
    BY <1>1 DEF TasksInv
  <2>3. CASE x = e
    <3>1. writer'[x].frame = <<>> /\ writer'[x].pc # "write" /\ writer'[x].open = writer[x].open
      BY <1>3, <2>3
    <3>2. ~ shut'[x] /\ shut' = shut
      BY <1>1, <1>2, <2>3, Zenon
    <3> QED
      BY <2>1, <2>2, <3>1, <3>2, Zenon DEF WriterOK, Holds
  <2>4. CASE x # e
    <3>1. writer'[x] = writer[x]
      BY <1>3, <2>4
    <3> QED
      BY <2>1, <2>2, <3>1, Zenon DEF WriterOK, Holds, Done
  <2> QED
    BY <2>1, <2>3, <2>4
<1> QED
  BY <1>5, <1>6, <1>7 DEF TasksInv

\* The reader's steps.
LEMMA ReadTasks ==
    ASSUME TasksInv, NEW e \in Ends,
           ReadFrame(e) \/ ReadEnd(e) \/ ReadError(e) \/ CancelReader(e)
    PROVE  TasksInv'
<1>1. UNCHANGED <<sendq, senders, shut, recvq, writer, write_closed, accepted, received, delay>>
  BY DEF ReadFrame, ReadEnd, ReadError, CancelReader, queues, flags, history
<1>2. CASE reader' = [reader EXCEPT ![e].pc = "done", ![e].frame = <<>>] /\ UNCHANGED wire
  <2>0. /\ reader' \in [Ends -> Readers] /\ reader'[e].pc = "done" /\ reader'[e].frame = <<>>
        /\ \A x \in Ends \ {e} : reader'[x] = reader[x]
    <3>1. PICK none \in Seq(Frames) : none = <<>>
      BY ShortSequences
    <3>2. reader \in [Ends -> Readers] /\ reader' = Moved(reader, e, "done", none)
      BY <1>2, <3>1, Zenon DEF Moved, TasksInv, FramedTypes
    <3>3. /\ reader' \in [Ends -> Readers] /\ reader'[e].pc = "done" /\ reader'[e].frame = none
          /\ \A x \in Ends \ {e} : reader'[x] = reader[x]
      BY <3>2, ReaderMoves
    <3> QED
      BY <3>1, <3>3, Zenon
  <2>1. FramedTypes'
    BY <1>1, <1>2, <2>0 DEF TasksInv, FramedTypes
  <2>2. ASSUME NEW x \in Ends PROVE ReaderOK(x)'
    BY <2>0 DEF TasksInv, ReaderOK, Holds
  <2>3. ASSUME NEW x \in Ends PROVE QueueOK(x)' /\ WriterOK(x)' /\ DelayOK(x)'
    BY <1>1 DEF TasksInv, QueueOK, WriterOK, DelayOK, Holds, Done
  <2> QED
    BY <2>1, <2>2, <2>3 DEF TasksInv
<1> DEFINE p == Peer(e)
           next == Head(wire[p])
<1>3. CASE /\ wire[p] # <<>> /\ next.part = "whole"
           /\ reader' = [reader EXCEPT ![e].pc = "deliver", ![e].frame = <<next>>]
           /\ wire' = [wire EXCEPT ![p] = Tail(@)]
  <2>1. p \in Ends
    BY PeerFacts
  <2> HIDE DEF p
  <2>2. wire[p] \in Seq(Frames)
    BY <2>1 DEF TasksInv, FramedTypes
  <2>3. next \in Frames /\ Tail(wire[p]) \in Seq(Frames)
    BY <1>3, <2>2, HeadTailProperties
  <2> HIDE DEF next
  <2>0. /\ reader' \in [Ends -> Readers] /\ reader'[e].pc = "deliver"
        /\ reader'[e].frame = <<next>>
        /\ \A x \in Ends \ {e} : reader'[x] = reader[x]
    <3>1. PICK one \in Seq(Frames) : one = <<next>>
      BY <2>3, ShortSequences
    <3>2. reader \in [Ends -> Readers] /\ reader' = Moved(reader, e, "deliver", one)
      BY <1>3, <3>1, Zenon DEF Moved, TasksInv, FramedTypes
    <3>3. /\ reader' \in [Ends -> Readers] /\ reader'[e].pc = "deliver"
          /\ reader'[e].frame = one /\ \A x \in Ends \ {e} : reader'[x] = reader[x]
      BY <3>2, ReaderMoves
    <3> QED
      BY <3>1, <3>3, Zenon
  <2>4. FramedTypes'
    BY <1>1, <1>3, <2>0, <2>1, <2>3 DEF TasksInv, FramedTypes
  <2>5. ASSUME NEW x \in Ends PROVE ReaderOK(x)'
    <3>1. Holds(reader[x], "deliver")
      BY DEF TasksInv, ReaderOK
    <3>2. next.part = "whole"
      BY <1>3
    <3> QED
      BY <2>0, <2>3, <3>1, <3>2 DEF ReaderOK, Holds
  <2>6. ASSUME NEW x \in Ends PROVE QueueOK(x)' /\ WriterOK(x)' /\ DelayOK(x)'
    BY <1>1 DEF TasksInv, QueueOK, WriterOK, DelayOK, Holds, Done
  <2> QED
    BY <2>4, <2>5, <2>6 DEF TasksInv
<1> QED
  BY <1>2, <1>3 DEF ReadFrame, ReadEnd, ReadError, CancelReader, ReaderEnds, queues

\* The reader puts the frame it holds into the receive queue of its kind.
LEMMA DeliverTasks ==
    ASSUME TasksInv, NEW e \in Ends, Deliver(e)
    PROVE  TasksInv'
<1>1. UNCHANGED <<sendq, senders, wire, shut, writer, write_closed, accepted, received, delay>>
  BY DEF Deliver, flags, history
<1>2. PICK f \in Frames : f.part = "whole" /\ reader[e].frame = <<f>>
  BY DEF Deliver, TasksInv, ReaderOK, Holds
<1>3. f.kind \in Lanes /\ f \in Sorted(f.kind)
  BY <1>2 DEF Frames, Sorted
<1>4. recvq' = [recvq EXCEPT ![e][f.kind] = Append(@, f)]
  <2>1. reader[e].frame[1] = f
    BY <1>2
  <2>2. recvq' = [recvq EXCEPT ![e][f.kind] = @ \o <<f>>]
    BY <1>2, <2>1, Zenon DEF Deliver
  <2>3. recvq[e][f.kind] \o <<f>> = Append(recvq[e][f.kind], f)
    BY <1>3, FrameSequences DEF TasksInv, FramedTypes
  <2> QED
    BY <2>2, <2>3
<1>5. /\ reader' \in [Ends -> Readers] /\ reader'[e].pc = "read" /\ reader'[e].frame = <<>>
      /\ \A x \in Ends \ {e} : reader'[x] = reader[x]
  <2>1. PICK none \in Seq(Frames) : none = <<>>
    BY ShortSequences
  <2>2. reader \in [Ends -> Readers] /\ reader' = Moved(reader, e, "read", none)
    BY <2>1, Zenon DEF Deliver, Moved, TasksInv, FramedTypes
  <2>3. /\ reader' \in [Ends -> Readers] /\ reader'[e].pc = "read" /\ reader'[e].frame = none
        /\ \A x \in Ends \ {e} : reader'[x] = reader[x]
    BY <2>2, ReaderMoves
  <2> QED
    BY <2>1, <2>3, Zenon
<1>6. FramedTypes'
  <2>1. recvq' \in [Ends -> [Lanes -> Seq(Frames)]]
    BY <1>3, <1>4 DEF TasksInv, FramedTypes
  <2> QED
    BY <1>1, <1>5, <2>1 DEF TasksInv, FramedTypes
<1>7. ASSUME NEW x \in Ends PROVE QueueOK(x)'
  BY <1>1, <1>3, <1>4 DEF TasksInv, FramedTypes, QueueOK
<1>8. ASSUME NEW x \in Ends PROVE ReaderOK(x)'
  BY <1>5 DEF TasksInv, ReaderOK, Holds
<1>9. ASSUME NEW x \in Ends PROVE WriterOK(x)' /\ DelayOK(x)'
  BY <1>1 DEF TasksInv, WriterOK, DelayOK, Holds, Done
<1> QED
  BY <1>6, <1>7, <1>8, <1>9 DEF TasksInv

\* Every step keeps what holds of the tasks and their queues.
LEMMA TasksStep == TasksInv /\ [Next]_vars => TasksInv'
<1> SUFFICES ASSUME TasksInv, [Next]_vars PROVE TasksInv'
  OBVIOUS
<1>1. CASE UNCHANGED vars
  BY <1>1 DEF vars, queues, tasks, flags, history, TasksInv, FramedTypes, QueueOK, WriterOK,
              ReaderOK, DelayOK, Holds, Done
<1>2. ASSUME NEW e \in Ends, WriterStep(e) PROVE TasksInv'
  BY <1>2, TakeTasks, EndTasks, WriteTasks DEF WriterStep
<1>3. ASSUME NEW e \in Ends, ReaderStep(e) PROVE TasksInv'
  BY <1>3, ReadTasks, DeliverTasks DEF ReaderStep
<1> QED
  BY <1>1, <1>2, <1>3, SendTasks, ReceiveTasks, FlagTasks, ReadTasks DEF Next

\* The tasks and their queues keep their shape under every interleaving of
\* the owner's calls with write_loop and read_loop, aborts and resets included.
THEOREM TasksInvariant == Spec => []TasksInv
<1> QED
  BY TasksInit, TasksStep, PTL DEF Spec

\* write_loop's biased select: an accepted control frame is passed by at most
\* the data frame that was being written, for every capacity and load.
THEOREM ControlIsNotDelayed == Spec => []ControlNotDelayed
<1>1. TasksInv => ControlNotDelayed
  BY DEF TasksInv, DelayOK, ControlNotDelayed
<1> QED
  BY <1>1, TasksInvariant, PTL

-----------------------------------------------------------------------------
(* What is on its way *)

\* What was sent has arrived, is in flight, or is not yet written; without the
\* reader only the first part is known, without the writer only the first two.
Flow(sent, arrived, flying, unwritten, reading, live) ==
    \E rest \in Seq(Frames) :
        /\ sent = arrived \o rest
        /\ reading => \E lost \in Seq(Frames) :
                         rest = flying \o lost /\ (live => lost = unwritten)

\* What is accepted is appended to what is still unwritten.
LEMMA FlowSend ==
    ASSUME NEW a \in Seq(Frames), NEW d \in Seq(Frames), NEW f \in Seq(Frames),
           NEW u \in Seq(Frames), NEW x \in Seq(Frames), NEW reading, NEW live,
           Flow(a, d, f, u, reading, live)
    PROVE  Flow(a \o x, d, f, u \o x, reading, live)
<1>1. PICK rest \in Seq(Frames) :
        /\ a = d \o rest
        /\ reading => \E lost \in Seq(Frames) : rest = f \o lost /\ (live => lost = u)
  BY Zenon DEF Flow
<1>2. a \o x = d \o (rest \o x) /\ rest \o x \in Seq(Frames)
  BY <1>1, FrameSequences
<1>3. ASSUME reading
      PROVE  \E lost \in Seq(Frames) : rest \o x = f \o lost /\ (live => lost = u \o x)
  <2>1. PICK lost \in Seq(Frames) : rest = f \o lost /\ (live => lost = u)
    BY <1>1, <1>3
  <2>2. rest \o x = f \o (lost \o x) /\ lost \o x \in Seq(Frames)
    BY <2>1, FrameSequences, SMTT(60)
  <2>3. live => lost \o x = u \o x
    BY <2>1
  <2> QED
    BY <2>2, <2>3
<1> QED
  BY <1>2, <1>3, Zenon DEF Flow

\* What is written moves from the unwritten part to the part in flight.
LEMMA FlowWrite ==
    ASSUME NEW a \in Seq(Frames), NEW d \in Seq(Frames), NEW f \in Seq(Frames),
           NEW u \in Seq(Frames), NEW x \in Seq(Frames), NEW reading,
           Flow(a, d, f, x \o u, reading, TRUE)
    PROVE  Flow(a, d, f \o x, u, reading, TRUE)
<1>1. PICK rest \in Seq(Frames) :
        /\ a = d \o rest
        /\ reading => \E lost \in Seq(Frames) : rest = f \o lost /\ (TRUE => lost = x \o u)
  BY Zenon DEF Flow
<1>2. ASSUME reading
      PROVE  \E lost \in Seq(Frames) : rest = (f \o x) \o lost /\ (TRUE => lost = u)
  <2>1. rest = f \o (x \o u)
    BY <1>1, <1>2
  <2>2. (f \o x) \o u = f \o (x \o u)
    BY Associative, SMTT(60)
  <2> QED
    BY <2>1, <2>2, Zenon
<1> QED
  BY <1>1, <1>2, Zenon DEF Flow

\* What is handed over moves from the part in flight to what has arrived.
LEMMA FlowDeliver ==
    ASSUME NEW a \in Seq(Frames), NEW d \in Seq(Frames), NEW f \in Seq(Frames),
           NEW u \in Seq(Frames), NEW x \in Seq(Frames), NEW live,
           Flow(a, d, x \o f, u, TRUE, live)
    PROVE  Flow(a, d \o x, f, u, TRUE, live)
<1>1. PICK rest \in Seq(Frames) :
        /\ a = d \o rest
        /\ TRUE => \E lost \in Seq(Frames) : rest = (x \o f) \o lost /\ (live => lost = u)
  BY Zenon DEF Flow
<1>2. PICK lost \in Seq(Frames) : rest = (x \o f) \o lost /\ (live => lost = u)
  BY <1>1
<1>3. f \o lost \in Seq(Frames) /\ a = (d \o x) \o (f \o lost)
  <2>1. (x \o f) \o lost = x \o (f \o lost)
    BY Associative, SMTT(60)
  <2>2. f \o lost \in Seq(Frames)
    BY FrameSequences
  <2>3. (d \o x) \o (f \o lost) = d \o (x \o (f \o lost))
    <3>1. \A y \in Seq(Frames) : (d \o x) \o y = d \o (x \o y)
      BY Associative, Zenon
    <3> QED
      BY <2>2, <3>1, Zenon
  <2> QED
    BY <1>1, <1>2, <2>1, <2>2, <2>3, Zenon
<1> QED
  BY <1>2, <1>3, Zenon DEF Flow

\* A task that ends takes knowledge away and nothing else.
LEMMA FlowWeaken ==
    ASSUME NEW a, NEW d, NEW f, NEW u, NEW g, NEW v,
           NEW reading, NEW live, NEW reading2, NEW live2,
           Flow(a, d, f, u, reading, live),
           reading2 => reading /\ g = f,
           reading2 /\ live2 => live /\ v = u
    PROVE  Flow(a, d, g, v, reading2, live2)
  BY Zenon DEF Flow

\* Through on a single frame.
LEMMA ThroughOne ==
    ASSUME NEW f \in Frames, NEW lane, NEW kind
    PROVE  Through(<<f>>, lane, kind) = IF Passes(f, lane, kind) THEN <<f>> ELSE <<>>
<1>1. PICK none \in Seq(Frames) : none = <<>>
  BY ShortSequences
<1>2. Append(none, f) = <<f>>
  BY <1>1
<1>3. Through(none, lane, kind) = none
  BY <1>1, ThroughEmpty
<1>4. Through(Append(none, f), lane, kind) =
        IF Passes(f, lane, kind) THEN Append(Through(none, lane, kind), f)
        ELSE Through(none, lane, kind)
  BY ThroughAppend
<1> QED
  BY <1>1, <1>2, <1>3, <1>4, Zenon

\* A frame put at the end of the second of two parts.
LEMMA ThroughExtended ==
    ASSUME NEW lane, NEW kind,
           NEW s \in Seq(Frames), NEW t \in Seq(Frames), NEW u \in Seq(Frames)
    PROVE  Through(s \o (t \o u), lane, kind) =
             Through(s \o t, lane, kind) \o Through(u, lane, kind)
<1>1. PICK st \in Seq(Frames) : st = s \o t
  BY FrameSequences
<1>2. s \o (t \o u) = st \o u
  BY <1>1, Associative, SMTT(60)
<1>3. Through(st \o u, lane, kind) = Through(st, lane, kind) \o Through(u, lane, kind)
  BY ThroughConcat
<1> QED
  BY <1>1, <1>2, <1>3, Zenon

\* The parts of the stream from d, for one lane and kind.
WasSent(d, l, k) == Through(accepted[d], l, k)
HasArrived(d, l, k) == Through(received[Peer(d)] \o recvq[Peer(d)][k], l, k)
InFlight(d, l, k) == Through(reader[Peer(d)].frame \o wire[d], l, k)
Unwritten(d, l, k) == Through(writer[d].frame \o sendq[d][l], l, k)
Reading(d) == ~ Done(reader[Peer(d)])
Live(d) == ~ Done(writer[d]) \/ shut[d]

FlowOK(d, l, k) ==
    Flow(WasSent(d, l, k), HasArrived(d, l, k), InFlight(d, l, k), Unwritten(d, l, k),
         Reading(d), Live(d))

\* The sequences a flow is made of.
LEMMA FlowTypes ==
    ASSUME TasksInv, NEW d \in Ends, NEW l \in Lanes, NEW k \in Lanes
    PROVE  /\ Peer(d) \in Ends
           /\ accepted[d] \in Seq(Frames) /\ received[Peer(d)] \in Seq(Frames)
           /\ recvq[Peer(d)][k] \in Seq(Frames) /\ reader[Peer(d)].frame \in Seq(Frames)
           /\ wire[d] \in Seq(Frames) /\ writer[d].frame \in Seq(Frames)
           /\ sendq[d][l] \in Seq(Frames)
           /\ WasSent(d, l, k) \in Seq(Frames) /\ HasArrived(d, l, k) \in Seq(Frames)
           /\ InFlight(d, l, k) \in Seq(Frames) /\ Unwritten(d, l, k) \in Seq(Frames)
<1>1. Peer(d) \in Ends
  BY PeerFacts
<1>2. /\ accepted[d] \in Seq(Frames) /\ received[Peer(d)] \in Seq(Frames)
      /\ recvq[Peer(d)][k] \in Seq(Frames) /\ reader[Peer(d)].frame \in Seq(Frames)
      /\ wire[d] \in Seq(Frames) /\ writer[d].frame \in Seq(Frames)
      /\ sendq[d][l] \in Seq(Frames)
  BY <1>1 DEF TasksInv, FramedTypes, Readers, Writers
<1>3. /\ received[Peer(d)] \o recvq[Peer(d)][k] \in Seq(Frames)
      /\ reader[Peer(d)].frame \o wire[d] \in Seq(Frames)
      /\ writer[d].frame \o sendq[d][l] \in Seq(Frames)
  BY <1>2, FrameSequences
<1> QED
  BY <1>1, <1>2, <1>3, ThroughType DEF WasSent, HasArrived, InFlight, Unwritten

\* A flow whose parts stay as they are, as far as its tasks live, is kept.
LEMMA FlowKept ==
    ASSUME NEW d, NEW l, NEW k, FlowOK(d, l, k),
           WasSent(d, l, k)' = WasSent(d, l, k), HasArrived(d, l, k)' = HasArrived(d, l, k),
           Reading(d)' => Reading(d) /\ InFlight(d, l, k)' = InFlight(d, l, k),
           Reading(d)' /\ Live(d)' => Live(d) /\ Unwritten(d, l, k)' = Unwritten(d, l, k)
    PROVE  FlowOK(d, l, k)'
  BY Zenon DEF FlowOK, Flow

\* The flow of the next state, from the next state's parts.
LEMMA FlowPrimed ==
    ASSUME NEW d, NEW l, NEW k,
           Flow(WasSent(d, l, k)', HasArrived(d, l, k)', InFlight(d, l, k)',
                Unwritten(d, l, k)', Reading(d)', Live(d)')
    PROVE  FlowOK(d, l, k)'
  BY Zenon DEF FlowOK, Flow

\* A step that leaves the stream from d alone.
LEMMA FlowAside ==
    ASSUME NEW d \in Ends, NEW l \in Lanes, NEW k \in Lanes, FlowOK(d, l, k),
           accepted'[d] = accepted[d], received'[Peer(d)] = received[Peer(d)],
           recvq'[Peer(d)] = recvq[Peer(d)], reader'[Peer(d)] = reader[Peer(d)],
           wire'[d] = wire[d], writer'[d] = writer[d], sendq'[d] = sendq[d], shut'[d] = shut[d]
    PROVE  FlowOK(d, l, k)'
<1>1. /\ WasSent(d, l, k)' = WasSent(d, l, k) /\ HasArrived(d, l, k)' = HasArrived(d, l, k)
      /\ InFlight(d, l, k)' = InFlight(d, l, k) /\ Unwritten(d, l, k)' = Unwritten(d, l, k)
  BY Zenon DEF WasSent, HasArrived, InFlight, Unwritten
<1>2. (Reading(d)' <=> Reading(d)) /\ (Live(d)' <=> Live(d))
  BY Zenon DEF Reading, Live, Done
<1> QED
  BY <1>1, <1>2, FlowKept, Zenon

\* try_send keeps every flow.
LEMMA SendFlow ==
    ASSUME TasksInv, NEW e \in Ends, NEW offer \in Offers, TrySend(e, offer),
           NEW d \in Ends, NEW l \in Lanes, NEW k \in Lanes, FlowOK(d, l, k)
    PROVE  FlowOK(d, l, k)'
<1> DEFINE frame == [lane |-> offer.lane, kind |-> offer.kind, big |-> offer.big,
                     part |-> "whole", n |-> Len(accepted[e]) + 1]
<1>1. /\ frame \in Frames /\ frame \in Sent(offer.lane) /\ offer.lane \in Lanes
  <2>1. Len(accepted[e]) + 1 \in Nat
    BY DEF TasksInv, FramedTypes
  <2> QED
    BY <2>1, OffersAreFrames
<1>2. /\ sendq' = [sendq EXCEPT ![e][offer.lane] = Append(@, frame)]
      /\ accepted' = [accepted EXCEPT ![e] = Append(@, frame)]
  BY Zenon DEF TrySend
<1>3. UNCHANGED <<wire, shut, recvq, writer, reader, received>>
  BY DEF TrySend, tasks
<1> HIDE DEF frame
<1>4. CASE d # e
  <2>1. accepted'[d] = accepted[d] /\ sendq'[d] = sendq[d]
    BY <1>2, <1>4 DEF TasksInv, FramedTypes
  <2> QED
    BY <1>3, <2>1, FlowAside
<1>5. CASE d = e
  <2>1. PICK one \in Seq(Frames) : one = <<frame>>
    BY <1>1, ShortSequences
  <2> DEFINE x == Through(one, l, k)
  <2>2. x \in Seq(Frames)
    BY ThroughType
  <2>3. WasSent(d, l, k)' = WasSent(d, l, k) \o x
    <3>1. accepted[d] \in Seq(Frames)
      BY FlowTypes
    <3>2. accepted'[d] = accepted[d] \o one
      <4>1. accepted'[d] = Append(accepted[d], frame)
        BY <1>2, <1>5 DEF TasksInv, FramedTypes
      <4>2. Append(accepted[d], frame) = accepted[d] \o <<frame>>
        BY <1>1, <3>1, FrameSequences
      <4> QED
        BY <2>1, <4>1, <4>2, Zenon
    <3>3. Through(accepted[d] \o one, l, k) = Through(accepted[d], l, k) \o x
      BY <3>1, ThroughConcat
    <3> QED
      BY <3>2, <3>3, Zenon DEF WasSent
  <2>4. Unwritten(d, l, k)' = Unwritten(d, l, k) \o x
    <3>0. sendq[d][l] \in Seq(Frames) /\ writer[d].frame \in Seq(Frames)
          /\ Unwritten(d, l, k) \in Seq(Frames)
      BY FlowTypes
    <3>1. CASE offer.lane = l
      <4>1. sendq'[d][l] = Append(sendq[d][l], frame)
        BY <1>1, <1>2, <1>5, <3>1 DEF TasksInv, FramedTypes
      <4>2. Append(sendq[d][l], frame) = sendq[d][l] \o <<frame>>
        BY <1>1, <3>0, FrameSequences
      <4>3. sendq'[d][l] = sendq[d][l] \o one /\ writer' = writer
        BY <1>3, <2>1, <4>1, <4>2
      <4>4. Through(writer[d].frame \o (sendq[d][l] \o one), l, k) =
              Through(writer[d].frame \o sendq[d][l], l, k) \o x
        BY <3>0, ThroughExtended, ZenonT(60)
      <4> QED
        BY <4>3, <4>4, Zenon DEF Unwritten
    <3>2. CASE offer.lane # l
      <4>1. sendq'[d][l] = sendq[d][l] /\ writer' = writer
        BY <1>1, <1>2, <1>3, <1>5, <3>2 DEF TasksInv, FramedTypes
      <4>2. ~ Passes(frame, l, k)
        BY <1>1, <3>2 DEF Passes, Sent
      <4>3. x = <<>>
        BY <1>1, <2>1, <4>2, ThroughOne
      <4>4. Unwritten(d, l, k) \o <<>> = Unwritten(d, l, k)
        BY <3>0, FrameSequences
      <4>5. Unwritten(d, l, k)' = Unwritten(d, l, k)
        BY <4>1, Zenon DEF Unwritten
      <4> HIDE DEF x
      <4> QED
        BY <4>3, <4>4, <4>5, Zenon
    <3> QED
      BY <3>1, <3>2
  <2>5. /\ HasArrived(d, l, k)' = HasArrived(d, l, k) /\ InFlight(d, l, k)' = InFlight(d, l, k)
        /\ (Reading(d)' <=> Reading(d)) /\ (Live(d)' <=> Live(d))
    BY <1>3 DEF HasArrived, InFlight, Reading, Live, Done
  <2> HIDE DEF x
  <2>6. Flow(WasSent(d, l, k) \o x, HasArrived(d, l, k), InFlight(d, l, k),
             Unwritten(d, l, k) \o x, Reading(d), Live(d))
    BY <2>2, FlowTypes, FlowSend DEF FlowOK
  <2> QED
    BY <2>3, <2>4, <2>5, <2>6, Zenon DEF Flow, FlowOK
<1> QED
  BY <1>4, <1>5

\* try_receive keeps every flow.
LEMMA ReceiveFlow ==
    ASSUME TasksInv, NEW e \in Ends, NEW lane \in Lanes, TryReceive(e, lane),
           NEW d \in Ends, NEW l \in Lanes, NEW k \in Lanes, FlowOK(d, l, k)
    PROVE  FlowOK(d, l, k)'
<1>1. UNCHANGED <<sendq, wire, shut, writer, reader, accepted>>
  BY DEF TryReceive, tasks
<1>2. CASE UNCHANGED <<recvq, received>>
  BY <1>1, <1>2, FlowAside
<1> DEFINE p == Peer(d)
<1>3. CASE /\ recvq[e][lane] # <<>>
           /\ received' = [received EXCEPT ![e] = Append(@, Head(recvq[e][lane]))]
           /\ recvq' = [recvq EXCEPT ![e][lane] = Tail(@)]
  <2>1. CASE p # e
    <3>1. received'[p] = received[p] /\ recvq'[p] = recvq[p]
      BY <1>3, <2>1, FlowTypes DEF TasksInv, FramedTypes
    <3> QED
      BY <1>1, <3>1, FlowAside
  <2>2. CASE p = e
    <3>1. recvq[p][lane] \in Seq(Frames) /\ received[p] \in Seq(Frames)
      BY FlowTypes
    <3>2. PICK head \in Sorted(lane) : head = Head(recvq[p][lane])
      <4>1. recvq[p][lane] \in Seq(Sorted(lane))
        BY <2>2 DEF TasksInv, QueueOK
      <4> QED
        BY <1>3, <2>2, <4>1, HeadTailProperties
    <3>3. head \in Frames /\ head.kind = lane
      BY DEF Sorted
    <3>4. PICK one \in Seq(Frames) : one = <<head>>
      BY <3>3, ShortSequences
    <3>5. PICK tail \in Seq(Frames) : tail = Tail(recvq[p][lane]) /\ recvq[p][lane] = one \o tail
      BY <1>3, <2>2, <3>1, <3>2, <3>4, FrameSequences
    <3>6. received'[p] = received[p] \o one
      <4>1. received'[p] = Append(received[p], head)
        BY <1>3, <2>2, <3>2 DEF TasksInv, FramedTypes
      <4>2. Append(received[p], head) = received[p] \o <<head>>
        BY <3>1, <3>3, FrameSequences
      <4> QED
        BY <3>4, <4>1, <4>2, Zenon
    <3>7. HasArrived(d, l, k)' = HasArrived(d, l, k)
      <4>1. CASE k = lane
        <5>1. recvq'[p][k] = tail
          BY <1>3, <2>2, <3>5, <4>1 DEF TasksInv, FramedTypes
        <5>2. (received[p] \o one) \o tail = received[p] \o (one \o tail)
          BY <3>1, Associative, Zenon
        <5> QED
          BY <3>5, <3>6, <4>1, <5>1, <5>2, Zenon DEF HasArrived
      <4>2. CASE k # lane
        <5> DEFINE q == recvq[p][k]
        <5>1. recvq'[p][k] = q /\ q \in Seq(Frames)
          BY <1>3, <2>2, <4>2, FlowTypes DEF TasksInv, FramedTypes
        <5> HIDE DEF q
        <5>2. Through(one, l, k) = <<>>
          <6>1. ~ Passes(head, l, k)
            BY <3>3, <4>2 DEF Passes
          <6> QED
            BY <3>3, <3>4, <6>1, ThroughOne
        <5>3. Through(received[p] \o one, l, k) = Through(received[p], l, k)
          <6>1. Through(received[p] \o one, l, k) = Through(received[p], l, k) \o Through(one, l, k)
            BY <3>1, ThroughConcat
          <6>2. Through(received[p], l, k) \in Seq(Frames)
            BY <3>1, ThroughType
          <6>3. Through(received[p], l, k) \o <<>> = Through(received[p], l, k)
            BY <6>2, FrameSequences
          <6> QED
            BY <5>2, <6>1, <6>3, Zenon
        <5>4. received[p] \o one \in Seq(Frames)
          BY <3>1, FrameSequences
        <5>5. Through((received[p] \o one) \o q, l, k) =
                Through(received[p] \o one, l, k) \o Through(q, l, k)
          BY <5>1, <5>4, ThroughConcat
        <5>6. Through(received[p] \o q, l, k) = Through(received[p], l, k) \o Through(q, l, k)
          BY <3>1, <5>1, ThroughConcat
        <5> QED
          BY <3>6, <5>1, <5>3, <5>5, <5>6, Zenon DEF HasArrived, q
      <4> QED
        BY <4>1, <4>2
    <3>8. /\ WasSent(d, l, k)' = WasSent(d, l, k) /\ InFlight(d, l, k)' = InFlight(d, l, k)
          /\ Unwritten(d, l, k)' = Unwritten(d, l, k)
          /\ (Reading(d)' <=> Reading(d)) /\ (Live(d)' <=> Live(d))
      BY <1>1 DEF WasSent, InFlight, Unwritten, Reading, Live, Done
    <3> QED
      BY <3>7, <3>8, FlowKept, Zenon
  <2> QED
    BY <2>1, <2>2
<1> QED
  BY <1>2, <1>3 DEF TryReceive

\* The writer's select keeps every flow.
LEMMA TakeFlow ==
    ASSUME TasksInv, NEW e \in Ends, TakeFrame(e),
           NEW d \in Ends, NEW l \in Lanes, NEW k \in Lanes, FlowOK(d, l, k)
    PROVE  FlowOK(d, l, k)'
<1>1. PICK lane \in LaneToWrite(e) :
        /\ writer' = [writer EXCEPT ![e].pc = "write", ![e].frame = <<Head(sendq[e][lane])>>]
        /\ sendq' = [sendq EXCEPT ![e][lane] = Tail(@)]
  BY DEF TakeFrame
<1>2. UNCHANGED <<wire, shut, recvq, reader, accepted, received>>
  BY DEF TakeFrame
<1>3. writer[e].pc = "select" /\ lane \in Lanes /\ sendq[e][lane] # <<>>
  BY DEF LaneToWrite, TakeFrame, TasksInv, FramedTypes, Writers
<1>4. PICK head \in Sent(lane) : head = Head(sendq[e][lane])
  <2>1. sendq[e][lane] \in Seq(Sent(lane))
    BY <1>3 DEF TasksInv, QueueOK
  <2> QED
    BY <1>3, <2>1, HeadTailProperties
<1>5. head \in Frames /\ head.lane = lane
  BY DEF Sent
<1>6. PICK one \in Seq(Frames) : one = <<head>>
  BY <1>5, ShortSequences
<1>7. /\ writer' \in [Ends -> Writers] /\ writer'[e].pc = "write" /\ writer'[e].frame = one
      /\ \A x \in Ends \ {e} : writer'[x] = writer[x]
  <2>1. writer \in [Ends -> Writers] /\ writer' = Moved(writer, e, "write", one)
    BY <1>1, <1>4, <1>6, Zenon DEF Moved, TasksInv, FramedTypes
  <2> QED
    BY <2>1, WriterMoves
<1>8. CASE d # e
  <2>1. writer'[d] = writer[d] /\ sendq'[d] = sendq[d]
    BY <1>1, <1>7, <1>8 DEF TasksInv, FramedTypes
  <2> QED
    BY <1>2, <2>1, FlowAside
<1>9. CASE d = e
  <2>1. writer[d].frame = <<>> /\ sendq[d][lane] \in Seq(Frames) /\ sendq[d][l] \in Seq(Frames)
    BY <1>3, <1>9, FlowTypes DEF TasksInv, WriterOK, Holds
  <2>2. <<>> \o sendq[d][l] = sendq[d][l]
    BY <2>1, FrameSequences
  <2>3. Unwritten(d, l, k) = Through(sendq[d][l], l, k)
    BY <2>1, <2>2, Zenon DEF Unwritten
  <2>4. Unwritten(d, l, k)' = Through(sendq[d][l], l, k)
    <3>1. CASE l = lane
      <4>1. PICK tail \in Seq(Frames) : tail = Tail(sendq[d][l]) /\ sendq[d][l] = one \o tail
        BY <1>3, <1>4, <1>6, <1>9, <2>1, <3>1, FrameSequences
      <4>2. sendq'[d][l] = tail
        BY <1>1, <1>3, <1>9, <3>1, <4>1 DEF TasksInv, FramedTypes
      <4> QED
        BY <1>7, <1>9, <4>1, <4>2, Zenon DEF Unwritten
    <3>2. CASE l # lane
      <4> DEFINE q == sendq[d][l]
      <4>1. sendq'[d][l] = q /\ q \in Seq(Frames)
        BY <1>1, <1>9, <2>1, <3>2 DEF TasksInv, FramedTypes
      <4> HIDE DEF q
      <4>2. Through(one, l, k) = <<>>
        <5>1. ~ Passes(head, l, k)
          BY <1>5, <3>2 DEF Passes
        <5> QED
          BY <1>5, <1>6, <5>1, ThroughOne
      <4>3. Through(one \o q, l, k) = Through(one, l, k) \o Through(q, l, k)
        BY <4>1, ThroughConcat
      <4>4. Through(q, l, k) \in Seq(Frames)
        BY <4>1, ThroughType
      <4>5. <<>> \o Through(q, l, k) = Through(q, l, k)
        BY <4>4, FrameSequences
      <4> QED
        BY <1>7, <1>9, <4>1, <4>2, <4>3, <4>5, Zenon DEF Unwritten, q
    <3> QED
      BY <3>1, <3>2
  <2>5. /\ WasSent(d, l, k)' = WasSent(d, l, k) /\ InFlight(d, l, k)' = InFlight(d, l, k)
        /\ HasArrived(d, l, k)' = HasArrived(d, l, k) /\ (Reading(d)' <=> Reading(d))
    BY <1>2 DEF WasSent, InFlight, HasArrived, Reading, Done
  <2>6. Live(d)
    BY <1>3, <1>9 DEF Live, Done
  <2> QED
    BY <2>3, <2>4, <2>5, <2>6, FlowKept, Zenon
<1> QED
  BY <1>8, <1>9

\* The end of a lane or of the stream keeps every flow.
LEMMA EndFlow ==
    ASSUME TasksInv, NEW e \in Ends, Shutdown(e) \/ \E lane \in Lanes : LaneEnded(e, lane),
           NEW d \in Ends, NEW l \in Lanes, NEW k \in Lanes, FlowOK(d, l, k)
    PROVE  FlowOK(d, l, k)'
<1>1. UNCHANGED <<sendq, wire, recvq, reader, accepted, received>>
  BY DEF Shutdown, LaneEnded, queues, history
<1>2. /\ writer'[d].frame = writer[d].frame
      /\ Live(d)' => Live(d)
  <2>1. CASE Shutdown(e)
    <3>1. /\ writer[e].pc = "select" /\ writer' = [writer EXCEPT ![e].pc = "done"]
          /\ shut' = [shut EXCEPT ![e] = TRUE]
      BY <2>1 DEF Shutdown
    <3> QED
      BY <3>1 DEF Live, Done, TasksInv, FramedTypes, Writers
  <2>2. ASSUME NEW lane \in Lanes, LaneEnded(e, lane)
        PROVE  writer'[d].frame = writer[d].frame /\ (Live(d)' => Live(d))
    <3>1. writer' = [writer EXCEPT ![e].open = @ \ {lane}] /\ shut' = shut
      BY <2>2 DEF LaneEnded, queues
    <3> QED
      BY <3>1 DEF Live, Done, TasksInv, FramedTypes, Writers
  <2> QED
    BY <2>1, <2>2
<1>3. /\ WasSent(d, l, k)' = WasSent(d, l, k) /\ InFlight(d, l, k)' = InFlight(d, l, k)
      /\ HasArrived(d, l, k)' = HasArrived(d, l, k) /\ (Reading(d)' <=> Reading(d))
      /\ Unwritten(d, l, k)' = Unwritten(d, l, k)
  BY <1>1, <1>2 DEF WasSent, InFlight, HasArrived, Unwritten, Reading, Done
<1> QED
  BY <1>2, <1>3, FlowKept, Zenon

\* A torn frame passes no lane.
LEMMA TornFrame ==
    ASSUME NEW torn \in Frames, torn.part # "whole", NEW lane, NEW kind
    PROVE  Through(<<torn>>, lane, kind) = <<>>
<1>1. ~ Passes(torn, lane, kind)
  BY DEF Passes
<1> QED
  BY <1>1, ThroughOne

\* A torn frame at the end of the stream adds nothing to any lane.
LEMMA TornWire ==
    ASSUME NEW r \in Seq(Frames), NEW w \in Seq(Frames), NEW torn \in Frames,
           NEW lane, NEW kind, Through(<<torn>>, lane, kind) = <<>>
    PROVE  Through(r \o Append(w, torn), lane, kind) = Through(r \o w, lane, kind)
<1>1. PICK one \in Seq(Frames) : one = <<torn>>
  BY ShortSequences
<1>2. Append(w, torn) = w \o <<torn>>
  BY FrameSequences
<1>3. Through(r \o (w \o one), lane, kind) =
        Through(r \o w, lane, kind) \o Through(one, lane, kind)
  BY ThroughExtended
<1>4. r \o w \in Seq(Frames)
  BY FrameSequences
<1>5. Through(r \o w, lane, kind) \in Seq(Frames)
  BY <1>4, ThroughType
<1>6. Through(r \o w, lane, kind) \o <<>> = Through(r \o w, lane, kind)
  BY <1>5, FrameSequences
<1> QED
  BY <1>1, <1>2, <1>3, <1>6, Zenon

\* A writer that fails or is cancelled: at most a torn frame reaches the stream.
Stops(e) ==
    /\ ~ Done(writer[e])
    /\ writer' = [writer EXCEPT ![e].pc = "done", ![e].frame = <<>>]
    /\ \/ UNCHANGED wire
       \/ /\ writer[e].pc = "write"
          /\ \E part \in {"length", "body"} :
               wire' = [wire EXCEPT ![e] = Append(@, [writer[e].frame[1] EXCEPT !.part = part])]
    /\ UNCHANGED <<sendq, shut, recvq, reader, accepted, received>>

\* A task that stops takes only its own part of a flow with it.
LEMMA StopFlow ==
    ASSUME TasksInv, NEW e \in Ends, Stops(e),
           NEW d \in Ends, NEW l \in Lanes, NEW k \in Lanes, FlowOK(d, l, k)
    PROVE  FlowOK(d, l, k)'
<1>0. UNCHANGED <<sendq, shut, recvq, reader, accepted, received>>
  BY DEF Stops
<1>1. /\ writer' \in [Ends -> Writers] /\ writer'[e].pc = "done"
      /\ \A x \in Ends \ {e} : writer'[x] = writer[x]
  <2>1. PICK none \in Seq(Frames) : none = <<>>
    BY ShortSequences
  <2>2. writer \in [Ends -> Writers] /\ writer' = Moved(writer, e, "done", none)
    BY <2>1, Zenon DEF Stops, Moved, TasksInv, FramedTypes
  <2>3. \A w \in [Ends -> Writers] :
          LET v == Moved(w, e, "done", none)
          IN  v \in [Ends -> Writers] /\ v[e].pc = "done" /\ \A x \in Ends \ {e} : v[x] = w[x]
    BY WriterMoves
  <2> QED
    BY <2>2, <2>3, Zenon
<1>2. wire \in [Ends -> Seq(Frames)]
  BY DEF TasksInv, FramedTypes
<1>3. CASE d # e
  <2>1. writer'[d] = writer[d] /\ wire'[d] = wire[d]
    BY <1>1, <1>2, <1>3 DEF Stops
  <2> QED
    BY <1>0, <2>1, FlowAside
<1>4. CASE d = e
  <2>1. ~ Live(d)'
    BY <1>0, <1>1, <1>4 DEF Stops, Live, Done, TasksInv, WriterOK
  <2>2. InFlight(d, l, k)' = InFlight(d, l, k)
    <3>1. CASE UNCHANGED wire
      BY <1>0, <3>1 DEF InFlight
    <3>2. ASSUME NEW part \in {"length", "body"}, writer[e].pc = "write",
                 wire' = [wire EXCEPT ![e] = Append(@, [writer[e].frame[1] EXCEPT !.part = part])]
          PROVE  InFlight(d, l, k)' = InFlight(d, l, k)
      <4>1. PICK f \in Frames : writer[e].frame = <<f>>
        BY <3>2 DEF TasksInv, WriterOK, Holds
      <4>2. PICK torn \in Frames : torn = [f EXCEPT !.part = part] /\ torn.part = part
        <5>1. [f EXCEPT !.part = part] \in Frames
          BY SMTT(60) DEF Frames
        <5>2. [f EXCEPT !.part = part].part = part
          BY SMTT(60) DEF Frames
        <5> QED
          BY <5>1, <5>2, Zenon
      <4>3. writer[e].frame[1] = f
        BY <4>1
      <4>4. PICK r \in Seq(Frames), w \in Seq(Frames) : r = reader[Peer(d)].frame /\ w = wire[d]
        BY FlowTypes
      <4>5. wire'[d] = Append(w, torn) /\ reader' = reader
        BY <1>0, <1>2, <1>4, <3>2, <4>2, <4>3, <4>4
      <4>6. Through(r \o Append(w, torn), l, k) = Through(r \o w, l, k)
        <5>0. torn.part # "whole"
          BY <4>2
        <5>1. Through(<<torn>>, l, k) = <<>>
          BY <5>0, TornFrame
        <5> QED
          BY <5>1, TornWire
      <4> QED
        BY <4>4, <4>5, <4>6, Zenon DEF InFlight
    <3> QED
      BY <3>1, <3>2 DEF Stops
  <2>3. /\ WasSent(d, l, k)' = WasSent(d, l, k) /\ (Reading(d)' <=> Reading(d))
        /\ HasArrived(d, l, k)' = HasArrived(d, l, k)
    BY <1>0 DEF WasSent, HasArrived, Reading, Done
  <2> QED
    BY <2>1, <2>2, <2>3, FlowKept, Zenon
<1> QED
  BY <1>3, <1>4

\* Writing a frame, whole or torn, keeps every flow.
LEMMA WriteFlow ==
    ASSUME TasksInv, NEW e \in Ends, WriteFrame(e) \/ CancelWriter(e),
           NEW d \in Ends, NEW l \in Lanes, NEW k \in Lanes, FlowOK(d, l, k)
    PROVE  FlowOK(d, l, k)'
<1>1. UNCHANGED <<sendq, shut, recvq, reader, accepted, received>>
  BY DEF WriteFrame, CancelWriter, history
<1>2. CASE CancelWriter(e)
  BY <1>1, <1>2, StopFlow DEF CancelWriter, Stops
<1>3. CASE /\ writer[e].pc = "write"
           /\ writer' = [writer EXCEPT ![e].pc = "done", ![e].frame = <<>>] /\ UNCHANGED wire
  BY <1>1, <1>3, StopFlow DEF Done, Stops
<1>4. CASE /\ writer[e].pc = "write"
           /\ wire' = [wire EXCEPT ![e] = @ \o writer[e].frame]
           /\ writer' = [writer EXCEPT ![e].pc = "select", ![e].frame = <<>>]
  <2>1. /\ writer' \in [Ends -> Writers] /\ writer'[e].pc = "select" /\ writer'[e].frame = <<>>
        /\ \A x \in Ends \ {e} : writer'[x] = writer[x]
    <3>1. PICK none \in Seq(Frames) : none = <<>>
      BY ShortSequences
    <3>2. writer \in [Ends -> Writers] /\ writer' = Moved(writer, e, "select", none)
      BY <1>4, <3>1, Zenon DEF Moved, TasksInv, FramedTypes
    <3>3. /\ writer' \in [Ends -> Writers] /\ writer'[e].pc = "select" /\ writer'[e].frame = none
          /\ \A x \in Ends \ {e} : writer'[x] = writer[x]
      BY <3>2, WriterMoves
    <3> QED
      BY <3>1, <3>3, Zenon
  <2>2. wire \in [Ends -> Seq(Frames)]
    BY DEF TasksInv, FramedTypes
  <2>3. CASE d # e
    <3>1. writer'[d] = writer[d] /\ wire'[d] = wire[d]
      BY <1>4, <2>1, <2>2, <2>3
    <3> QED
      BY <1>1, <3>1, FlowAside
  <2>4. CASE d = e
    <3> DEFINE x == Through(writer[d].frame, l, k)
               q == Through(sendq[d][l], l, k)
    <3>1. /\ writer[d].frame \in Seq(Frames) /\ sendq[d][l] \in Seq(Frames)
          /\ wire[d] \in Seq(Frames) /\ reader[Peer(d)].frame \in Seq(Frames)
      BY FlowTypes
    <3>2. x \in Seq(Frames) /\ q \in Seq(Frames)
      BY <3>1, ThroughType
    <3>3. Unwritten(d, l, k) = x \o q
      BY <3>1, ThroughConcat DEF Unwritten
    <3>4. Unwritten(d, l, k)' = q
      <4>1. <<>> \o sendq[d][l] = sendq[d][l]
        BY <3>1, FrameSequences
      <4>2. sendq' = sendq
        BY <1>1
      <4> QED
        BY <2>1, <2>4, <4>1, <4>2, Zenon DEF Unwritten
    <3>5. InFlight(d, l, k)' = InFlight(d, l, k) \o x
      <4>1. wire'[d] = wire[d] \o writer[d].frame /\ reader' = reader
        BY <1>1, <1>4, <2>2, <2>4
      <4>2. Through(reader[Peer(d)].frame \o (wire[d] \o writer[d].frame), l, k) =
              Through(reader[Peer(d)].frame \o wire[d], l, k) \o x
        BY <3>1, ThroughExtended, ZenonT(60)
      <4> QED
        BY <4>1, <4>2, Zenon DEF InFlight
    <3>6. /\ WasSent(d, l, k)' = WasSent(d, l, k) /\ (Reading(d)' <=> Reading(d))
          /\ HasArrived(d, l, k)' = HasArrived(d, l, k)
      BY <1>1 DEF WasSent, HasArrived, Reading, Done
    <3>7. Live(d) /\ Live(d)'
      BY <1>4, <2>1, <2>4 DEF Live, Done
    <3> HIDE DEF x, q
    <3>8. Flow(WasSent(d, l, k), HasArrived(d, l, k), InFlight(d, l, k), x \o q, Reading(d), TRUE)
      BY <3>3, <3>7, Zenon DEF FlowOK, Flow
    <3>9. Flow(WasSent(d, l, k), HasArrived(d, l, k), InFlight(d, l, k) \o x, q, Reading(d), TRUE)
      <4>1. /\ WasSent(d, l, k) \in Seq(Frames) /\ HasArrived(d, l, k) \in Seq(Frames)
            /\ InFlight(d, l, k) \in Seq(Frames)
        BY FlowTypes
      <4> QED
        BY <3>2, <3>8, <4>1, FlowWrite
    <3> QED
      BY <3>4, <3>5, <3>6, <3>7, <3>9, Zenon DEF FlowOK, Flow
  <2> QED
    BY <2>3, <2>4
<1> QED
  BY <1>2, <1>3, <1>4 DEF WriteFrame

\* Reading a frame, the end or an error keeps every flow.
LEMMA ReadFlow ==
    ASSUME TasksInv, NEW e \in Ends,
           ReadFrame(e) \/ ReadEnd(e) \/ ReadError(e) \/ CancelReader(e),
           NEW d \in Ends, NEW l \in Lanes, NEW k \in Lanes, FlowOK(d, l, k)
    PROVE  FlowOK(d, l, k)'
<1>1. UNCHANGED <<sendq, shut, recvq, writer, accepted, received>>
  BY DEF ReadFrame, ReadEnd, ReadError, CancelReader, queues, history
<1>2. Peer(d) \in Ends /\ Peer(e) \in Ends /\ Peer(Peer(d)) = d /\ (Peer(d) # e => Peer(e) # d)
  BY PeerFacts
<1>3. /\ WasSent(d, l, k)' = WasSent(d, l, k) /\ HasArrived(d, l, k)' = HasArrived(d, l, k)
      /\ Unwritten(d, l, k)' = Unwritten(d, l, k) /\ (Live(d)' <=> Live(d))
  BY <1>1 DEF WasSent, HasArrived, Unwritten, Live, Done
<1>4. CASE reader' = [reader EXCEPT ![e].pc = "done", ![e].frame = <<>>] /\ UNCHANGED wire
  <2>1. /\ reader'[e].pc = "done"
        /\ \A x \in Ends \ {e} : reader'[x] = reader[x]
    <3>1. PICK none \in Seq(Frames) : none = <<>>
      BY ShortSequences
    <3>2. reader \in [Ends -> Readers] /\ reader' = Moved(reader, e, "done", none)
      BY <1>4, <3>1, Zenon DEF Moved, TasksInv, FramedTypes
    <3> QED
      BY <3>2, ReaderMoves
  <2>2. CASE Peer(d) = e
    <3>1. ~ Reading(d)'
      BY <2>1, <2>2 DEF Reading, Done
    <3> QED
      BY <1>3, <3>1, FlowKept, Zenon
  <2>3. CASE Peer(d) # e
    <3>1. reader'[Peer(d)] = reader[Peer(d)] /\ wire' = wire
      BY <1>2, <1>4, <2>1, <2>3
    <3> QED
      BY <1>1, <3>1, FlowAside
  <2> QED
    BY <2>2, <2>3
<1> DEFINE next == Head(wire[Peer(e)])
<1>5. CASE /\ reader[e].pc = "read" /\ wire[Peer(e)] # <<>>
           /\ reader' = [reader EXCEPT ![e].pc = "deliver", ![e].frame = <<next>>]
           /\ wire' = [wire EXCEPT ![Peer(e)] = Tail(@)]
  <2>1. wire \in [Ends -> Seq(Frames)] /\ wire[Peer(e)] \in Seq(Frames)
    BY <1>2 DEF TasksInv, FramedTypes
  <2>2. /\ next \in Frames /\ Tail(wire[Peer(e)]) \in Seq(Frames)
        /\ wire[Peer(e)] = <<next>> \o Tail(wire[Peer(e)])
    BY <1>5, <2>1, FrameSequences
  <2> HIDE DEF next
  <2>3. PICK one \in Seq(Frames) : one = <<next>>
    BY <2>2, ShortSequences
  <2>4. /\ reader'[e].pc = "deliver" /\ reader'[e].frame = one
        /\ \A x \in Ends \ {e} : reader'[x] = reader[x]
    <3>1. reader \in [Ends -> Readers] /\ reader' = Moved(reader, e, "deliver", one)
      BY <1>5, <2>3, Zenon DEF Moved, TasksInv, FramedTypes
    <3> QED
      BY <3>1, ReaderMoves
  <2>5. CASE Peer(d) # e
    <3>1. reader'[Peer(d)] = reader[Peer(d)] /\ wire'[d] = wire[d]
      BY <1>2, <1>5, <2>1, <2>4, <2>5
    <3> QED
      BY <1>1, <3>1, FlowAside
  <2>6. CASE Peer(d) = e
    <3>1. Peer(e) = d
      BY <1>2, <2>6
    <3>2. reader[e].frame = <<>>
      BY <1>5 DEF TasksInv, ReaderOK, Holds
    <3>3. <<>> \o wire[d] = wire[d]
      BY <2>1, <3>1, FrameSequences
    <3>4. wire'[d] = Tail(wire[d])
      BY <1>2, <1>5, <2>1, <3>1
    <3>5. InFlight(d, l, k)' = InFlight(d, l, k)
      BY <2>2, <2>3, <2>4, <2>6, <3>1, <3>2, <3>3, <3>4, Zenon DEF InFlight
    <3>6. Reading(d)
      BY <1>5, <2>6 DEF Reading, Done
    <3> QED
      BY <1>3, <3>5, <3>6, FlowKept, Zenon
  <2> QED
    BY <2>5, <2>6
<1> QED
  BY <1>4, <1>5 DEF ReadFrame, ReadEnd, ReadError, CancelReader, ReaderEnds, queues

\* Delivering the frame that was read keeps every flow.
LEMMA DeliverFlow ==
    ASSUME TasksInv, NEW e \in Ends, Deliver(e),
           NEW d \in Ends, NEW l \in Lanes, NEW k \in Lanes, FlowOK(d, l, k)
    PROVE  FlowOK(d, l, k)'
<1>1. UNCHANGED <<sendq, wire, shut, writer, accepted, received>>
  BY DEF Deliver, history
<1>2. PICK f \in Frames : f.part = "whole" /\ reader[e].frame = <<f>>
  BY DEF Deliver, TasksInv, ReaderOK, Holds
<1>3. f.kind \in Lanes
  BY DEF Frames
<1>4. PICK one \in Seq(Frames) : one = <<f>>
  BY ShortSequences
<1>5. recvq' = [recvq EXCEPT ![e][f.kind] = @ \o one]
  <2>1. reader[e].frame[1] = f
    BY <1>2
  <2> QED
    BY <1>2, <1>4, <2>1, Zenon DEF Deliver
<1>6. /\ reader'[e].pc = "read" /\ reader'[e].frame = <<>>
      /\ \A x \in Ends \ {e} : reader'[x] = reader[x]
  <2>1. PICK none \in Seq(Frames) : none = <<>>
    BY ShortSequences
  <2>2. reader \in [Ends -> Readers] /\ reader' = Moved(reader, e, "read", none)
    BY <2>1, Zenon DEF Deliver, Moved, TasksInv, FramedTypes
  <2>3. /\ reader'[e].pc = "read" /\ reader'[e].frame = none
        /\ \A x \in Ends \ {e} : reader'[x] = reader[x]
    BY <2>2, ReaderMoves
  <2> QED
    BY <2>1, <2>3, Zenon
<1> DEFINE p == Peer(d)
<1>7. CASE p # e
  <2>1. reader'[p] = reader[p] /\ recvq'[p] = recvq[p]
    BY <1>5, <1>6, <1>7, FlowTypes DEF TasksInv, FramedTypes
  <2> QED
    BY <1>1, <2>1, FlowAside
<1>8. CASE p = e
  <2> DEFINE x == Through(one, l, k)
             w == Through(wire[d], l, k)
  <2>1. /\ recvq[p][k] \in Seq(Frames) /\ received[p] \in Seq(Frames) /\ wire[d] \in Seq(Frames)
        /\ HasArrived(d, l, k) \in Seq(Frames)
    BY FlowTypes
  <2>2. x \in Seq(Frames) /\ w \in Seq(Frames)
    BY <2>1, ThroughType
  <2>3. InFlight(d, l, k) = x \o w
    <3>1. reader[p].frame = one
      BY <1>2, <1>4, <1>8, Zenon
    <3>2. Through(one \o wire[d], l, k) = x \o w
      BY <2>1, ThroughConcat
    <3> QED
      BY <3>1, <3>2, Zenon DEF InFlight
  <2>4. InFlight(d, l, k)' = w
    <3>1. <<>> \o wire[d] = wire[d]
      BY <2>1, FrameSequences
    <3>2. wire' = wire
      BY <1>1
    <3> QED
      BY <1>6, <1>8, <3>1, <3>2, Zenon DEF InFlight
  <2>5. HasArrived(d, l, k)' = HasArrived(d, l, k) \o x
    <3>0. received' = received
      BY <1>1
    <3>1. CASE f.kind = k
      <4>1. recvq'[p][k] = recvq[p][k] \o one
        BY <1>3, <1>5, <1>8, <3>1 DEF TasksInv, FramedTypes
      <4>2. Through(received[p] \o (recvq[p][k] \o one), l, k) =
              Through(received[p] \o recvq[p][k], l, k) \o x
        <5>1. PICK r \in Seq(Frames), q \in Seq(Frames) : r = received[p] /\ q = recvq[p][k]
          BY <2>1
        <5>2. Through(r \o (q \o one), l, k) = Through(r \o q, l, k) \o Through(one, l, k)
          BY ThroughExtended, ZenonT(60)
        <5> QED
          BY <5>1, <5>2, Zenon
      <4> QED
        BY <3>0, <4>1, <4>2, Zenon DEF HasArrived
    <3>2. CASE f.kind # k
      <4>1. recvq'[p][k] = recvq[p][k]
        BY <1>5, <1>8, <3>2 DEF TasksInv, FramedTypes
      <4>2. x = <<>>
        <5>1. ~ Passes(f, l, k)
          BY <3>2 DEF Passes
        <5> QED
          BY <1>4, <5>1, ThroughOne
      <4>3. HasArrived(d, l, k) \o <<>> = HasArrived(d, l, k)
        BY <2>1, FrameSequences
      <4>4. HasArrived(d, l, k)' = HasArrived(d, l, k)
        BY <3>0, <4>1, Zenon DEF HasArrived
      <4> HIDE DEF x
      <4> QED
        BY <4>2, <4>3, <4>4, Zenon
    <3> QED
      BY <3>1, <3>2
  <2>6. /\ WasSent(d, l, k)' = WasSent(d, l, k) /\ Unwritten(d, l, k)' = Unwritten(d, l, k)
        /\ (Live(d)' <=> Live(d))
    BY <1>1 DEF WasSent, Unwritten, Live, Done
  <2>7. Reading(d) /\ Reading(d)'
    BY <1>6, <1>8 DEF Deliver, Reading, Done
  <2> HIDE DEF x, w
  <2>8. Flow(WasSent(d, l, k), HasArrived(d, l, k), x \o w, Unwritten(d, l, k), TRUE, Live(d))
    BY <2>3, <2>7, Zenon DEF FlowOK, Flow
  <2>9. Flow(WasSent(d, l, k), HasArrived(d, l, k) \o x, w, Unwritten(d, l, k), TRUE, Live(d))
    <3>1. WasSent(d, l, k) \in Seq(Frames) /\ Unwritten(d, l, k) \in Seq(Frames)
      BY FlowTypes
    <3> QED
      BY <2>1, <2>2, <2>8, <3>1, FlowDeliver
  <2> QED
    BY <2>4, <2>5, <2>6, <2>7, <2>9, Zenon DEF FlowOK, Flow
<1> QED
  BY <1>7, <1>8

FramedInv == TasksInv /\ \A d \in Ends, l \in Lanes, k \in Lanes : FlowOK(d, l, k)

\* A new connection's flows are empty.
LEMMA FlowInit ==
    ASSUME Init, NEW d \in Ends, NEW l \in Lanes, NEW k \in Lanes
    PROVE  FlowOK(d, l, k)
<1>1. PICK none \in Seq(Frames) : none = <<>>
  BY ShortSequences
<1>2. Peer(d) \in Ends
  BY PeerFacts
<1>3. /\ accepted[d] = none /\ received[Peer(d)] = none /\ recvq[Peer(d)][k] = none
      /\ reader[Peer(d)].frame = none /\ wire[d] = none /\ writer[d].frame = none
      /\ sendq[d][l] = none
  BY <1>1, <1>2 DEF Init
<1>4. none \o none = none
  BY <1>1, FrameSequences
<1>5. Through(none, l, k) = none
  BY <1>1, ThroughEmpty
<1>6. /\ WasSent(d, l, k) = none /\ HasArrived(d, l, k) = none
      /\ InFlight(d, l, k) = none /\ Unwritten(d, l, k) = none
  BY <1>3, <1>4, <1>5, Zenon DEF WasSent, HasArrived, InFlight, Unwritten
<1> QED
  BY <1>4, <1>6, Zenon DEF FlowOK, Flow

\* Every step keeps every flow.
LEMMA FlowStep ==
    ASSUME FramedInv, [Next]_vars, NEW d \in Ends, NEW l \in Lanes, NEW k \in Lanes
    PROVE  FlowOK(d, l, k)'
<1>0. TasksInv /\ FlowOK(d, l, k)
  BY DEF FramedInv
<1>1. CASE UNCHANGED <<sendq, wire, shut, recvq, writer, reader, accepted, received>>
  BY <1>0, <1>1, FlowAside
<1>2. ASSUME NEW e \in Ends, WriterStep(e) PROVE FlowOK(d, l, k)'
  BY <1>0, <1>2, TakeFlow, EndFlow, WriteFlow DEF WriterStep
<1>3. ASSUME NEW e \in Ends, ReaderStep(e) \/ ReadError(e) PROVE FlowOK(d, l, k)'
  BY <1>0, <1>3, ReadFlow, DeliverFlow DEF ReaderStep
<1>4. ASSUME NEW e \in Ends, IsFinished(e) \/ CloseWrite(e) \/ CloseRead(e) \/ Abort(e)
      PROVE  UNCHANGED <<sendq, wire, shut, recvq, writer, reader, accepted, received>>
  BY <1>4 DEF IsFinished, CloseWrite, CloseRead, Abort, queues, tasks, history
<1>5. Break => UNCHANGED <<sendq, wire, shut, recvq, writer, reader, accepted, received>>
  BY DEF Break, queues, tasks, history
<1>6. UNCHANGED vars => UNCHANGED <<sendq, wire, shut, recvq, writer, reader, accepted, received>>
  BY DEF vars, queues, tasks, history
<1> QED
  BY <1>0, <1>1, <1>2, <1>3, <1>4, <1>5, <1>6, SendFlow, ReceiveFlow DEF Next

\* Every step keeps the invariant of the framed connection.
LEMMA FramedInvStep == FramedInv /\ [Next]_vars => FramedInv'
<1> SUFFICES ASSUME FramedInv, [Next]_vars PROVE FramedInv'
  OBVIOUS
<1>1. TasksInv'
  BY TasksStep DEF FramedInv
<1>2. \A d \in Ends, l \in Lanes, k \in Lanes : FlowOK(d, l, k)'
  BY FlowStep
<1> QED
  BY <1>1, <1>2, Zenon DEF FramedInv

\* A sequence is a prefix of whatever continues it.
LEMMA PrefixOfConcat ==
    ASSUME NEW s \in Seq(Frames), NEW t \in Seq(Frames)
    PROVE  IsPrefix(s, s \o t)
<1>1. PICK n \in Nat, m \in Nat : n = Len(s) /\ m = Len(t)
  OBVIOUS
<1>2. /\ s \o t \in Seq(Frames) /\ Len(s \o t) = n + m
      /\ \A i \in 1 .. n : (s \o t)[i] = s[i]
  BY <1>1
<1>3. SubSeq(s \o t, 1, n) = SubSeq(s, 1, n)
  BY <1>1, <1>2
<1> QED
  BY <1>1, <1>2, <1>3 DEF IsPrefix

\* The first of three parts is a prefix of the whole.
LEMMA PrefixOfThree ==
    ASSUME NEW s \in Seq(Frames), NEW t \in Seq(Frames), NEW u \in Seq(Frames)
    PROVE  IsPrefix(s, (s \o t) \o u)
<1>1. (s \o t) \o u = s \o (t \o u)
  BY Associative, Zenon
<1>2. PICK tu \in Seq(Frames) : tu = t \o u
  BY FrameSequences
<1>3. IsPrefix(s, s \o tu)
  BY PrefixOfConcat
<1> QED
  BY <1>1, <1>2, <1>3, Zenon

\* The six parts of a pipeline, in pairs.
Chain(a, b, c, d, e, f) == a \o b \o c \o d \o e \o f
Pairs(a, b, c, d, e, f) == (a \o b) \o ((c \o d) \o (e \o f))

\* The six parts of a pipeline, bracketed one way or the other.
LEMMA InPairs ==
    ASSUME NEW a \in Seq(Frames), NEW b \in Seq(Frames), NEW c \in Seq(Frames),
           NEW d \in Seq(Frames), NEW e \in Seq(Frames), NEW f \in Seq(Frames)
    PROVE  Chain(a, b, c, d, e, f) = Pairs(a, b, c, d, e, f)
<1>1. PICK ab \in Seq(Frames), cd \in Seq(Frames) : ab = a \o b /\ cd = c \o d
  BY FrameSequences
<1>2. PICK ef \in Seq(Frames) : ef = e \o f
  BY FrameSequences
<1>3. PICK abcd \in Seq(Frames) : abcd = ab \o cd
  BY FrameSequences
<1>4. (ab \o c) \o d = ab \o (c \o d)
  <2>1. \A s, t \in Seq(Frames) : (ab \o s) \o t = ab \o (s \o t)
    BY Associative, Zenon
  <2>2. \A t \in Seq(Frames) : (ab \o c) \o t = ab \o (c \o t)
    BY <2>1, Zenon
  <2> QED
    BY <2>2, Zenon
<1>5. (abcd \o e) \o f = abcd \o (e \o f)
  <2>1. \A s, t \in Seq(Frames) : (abcd \o s) \o t = abcd \o (s \o t)
    BY Associative, Zenon
  <2>2. \A t \in Seq(Frames) : (abcd \o e) \o t = abcd \o (e \o t)
    BY <2>1, Zenon
  <2> QED
    BY <2>2, Zenon
<1>6. (ab \o cd) \o ef = ab \o (cd \o ef)
  <2>1. \A s, t \in Seq(Frames) : (ab \o s) \o t = ab \o (s \o t)
    BY Associative, Zenon
  <2>2. \A t \in Seq(Frames) : (ab \o cd) \o t = ab \o (cd \o t)
    BY <2>1, Zenon
  <2> QED
    BY <2>2, Zenon
<1> QED
  BY <1>1, <1>2, <1>3, <1>4, <1>5, <1>6, Zenon DEF Chain, Pairs

\* What LanesReliable says of a direction and a lane follows from its flow.
LEMMA FlowImpliesReliable ==
    ASSUME TasksInv, NEW d \in Ends, NEW l \in Lanes, NEW k \in Lanes, FlowOK(d, l, k)
    PROVE  /\ IsPrefix(Through(received[Peer(d)], l, k), Through(accepted[d], l, k))
           /\ Intact(d) => Pipeline(d, l, k) = Through(accepted[d], l, k)
<1>1. PICK rec \in Seq(Frames), rq \in Seq(Frames), rd \in Seq(Frames), wi \in Seq(Frames),
           wr \in Seq(Frames), sq \in Seq(Frames) :
        /\ rec = received[Peer(d)] /\ rq = recvq[Peer(d)][k] /\ rd = reader[Peer(d)].frame
        /\ wi = wire[d] /\ wr = writer[d].frame /\ sq = sendq[d][l]
  BY FlowTypes
<1>0. Chain(rec, rq, rd, wi, wr, sq) = Pairs(rec, rq, rd, wi, wr, sq)
  BY InPairs
<1>2. PICK a \in Seq(Frames) : a = Through(accepted[d], l, k)
  BY FlowTypes DEF WasSent
<1>3. PICK x \in Seq(Frames), y \in Seq(Frames) : x = rec \o rq /\ y = rd \o wi
  BY FrameSequences
<1>4. PICK z \in Seq(Frames) : z = wr \o sq
  BY FrameSequences
<1> DEFINE F(s) == Through(s, l, k)
<1>5. PICK rest \in Seq(Frames) :
        /\ a = F(x) \o rest
        /\ Reading(d) => \E lost \in Seq(Frames) : rest = F(y) \o lost /\ (Live(d) => lost = F(z))
  BY <1>1, <1>2, <1>3, <1>4, Zenon DEF FlowOK, Flow, WasSent, HasArrived, InFlight, Unwritten
<1>6. \A s \in Seq(Frames) : F(s) \in Seq(Frames)
  BY ThroughType
<1>7. \A s, t \in Seq(Frames) : F(s \o t) = F(s) \o F(t)
  BY ThroughConcat
<1> HIDE DEF F
<1>8. IsPrefix(F(rec), a)
  <2>1. F(x) = F(rec) \o F(rq)
    BY <1>3, <1>7, Zenon
  <2>2. F(rec) \in Seq(Frames) /\ F(rq) \in Seq(Frames)
    BY <1>6
  <2>3. PICK r \in Seq(Frames), q \in Seq(Frames) : r = F(rec) /\ q = F(rq)
    BY <2>2
  <2>4. IsPrefix(r, (r \o q) \o rest)
    BY PrefixOfThree
  <2> QED
    BY <1>5, <2>1, <2>3, <2>4, Zenon
<1>9. ASSUME Intact(d) PROVE Pipeline(d, l, k) = a
  <2>1. a = F(x) \o (F(y) \o F(z))
    BY <1>5, <1>9, Zenon DEF Intact, Reading, Live
  <2>2. PICK yz \in Seq(Frames) : yz = y \o z
    BY FrameSequences
  <2>3. F(yz) = F(y) \o F(z) /\ F(x \o yz) = F(x) \o F(yz)
    BY <1>7, <2>2
  <2>4. rec \o rq \o rd \o wi \o wr \o sq = x \o yz
    BY <1>3, <1>4, <1>0, <2>2, Zenon DEF Chain, Pairs
  <2> QED
    BY <1>1, <2>1, <2>3, <2>4, Zenon DEF Pipeline, F
<1> QED
  BY <1>1, <1>2, <1>8, <1>9, Zenon DEF F

\* Between any two owners, for every capacity, every load and every abort,
\* reset, timeout and oversized frame: what the peer's owner received on a lane
\* is a prefix of what was accepted for it, and nothing is lost, doubled or
\* overtaken while both tasks between them live.
THEOREM LanesAreReliable == Spec => []LanesReliable
<1>1. Init => FramedInv
  BY TasksInit, FlowInit DEF FramedInv
<1>2. FramedInv => LanesReliable
  BY FlowImpliesReliable DEF FramedInv, LanesReliable
<1> QED
  BY <1>1, <1>2, FramedInvStep, PTL DEF Spec

-----------------------------------------------------------------------------
(* The in-memory connection *)

Streams == Protocols \cup {Free}
Messages == [number : Nat, protocol : Streams]

Sends == [op : {"send"}, lane : MemoryLanes, message : Messages]
Receives == [op : {"receive"}, lane : MemoryLanes, begun_closed : BOOLEAN]

Sending(s) == working[s] # Free /\ working[s].op = "send"
Receiving(s) == working[s] # Free /\ working[s].op = "receive"

Queue(s, l) == sides[s].queue[l]

MemoryTypes ==
    /\ sides \in [MemorySides -> [ queue : [MemoryLanes -> Seq(Messages)], write_closed : BOOLEAN,
                                   read_closed : BOOLEAN, aborted : BOOLEAN ]]
    /\ working \in [MemorySides -> {Free} \cup Sends \cup Receives]
    /\ written \in Nat
    /\ ends \subseteq MemorySides \X MemoryLanes
    /\ handed \subseteq MemorySides \X MemoryLanes \X Streams \X Messages

\* A message is in one place: in a send, in one position of one queue, or with one caller.
OnePlace ==
    /\ \A s, t \in MemorySides, l, k \in MemoryLanes :
         \A i \in 1 .. Len(Queue(s, l)), j \in 1 .. Len(Queue(t, k)) :
             Queue(s, l)[i].number = Queue(t, k)[j].number => s = t /\ l = k /\ i = j
    /\ \A s, t \in MemorySides :
         Sending(s) /\ Sending(t) /\ working[s].message.number = working[t].message.number => s = t
    /\ \A g, h \in handed : g[4].number = h[4].number => g = h
    /\ \A s \in MemorySides, l \in MemoryLanes : \A i \in 1 .. Len(Queue(s, l)) :
         /\ \A t \in MemorySides : Sending(t) => working[t].message.number # Queue(s, l)[i].number
         /\ \A h \in handed : h[4].number # Queue(s, l)[i].number
    /\ \A t \in MemorySides, h \in handed : Sending(t) => working[t].message.number # h[4].number

\* Numbers are given out once.
Numbered ==
    /\ \A s \in MemorySides, l \in MemoryLanes : \A i \in 1 .. Len(Queue(s, l)) :
         Queue(s, l)[i].number <= written
    /\ \A s \in MemorySides : Sending(s) => working[s].message.number <= written
    /\ \A h \in handed : h[4].number <= written

\* Whoever closed its writing is in no send, and what was empty then stays empty.
Ended ==
    /\ \A s \in MemorySides : sides[s].write_closed => ~ Sending(s)
    /\ \A s \in MemorySides : Receiving(s) /\ working[s].begun_closed =>
         sides[Opposite(s)].write_closed /\ Queue(s, working[s].lane) = <<>>
    /\ \A e \in ends : sides[Opposite(e[1])].write_closed /\ Queue(e[1], e[2]) = <<>>
    /\ \A h \in handed : h[2] = "control" => h[4].protocol = h[3]

MemoryInv == MemoryTypes /\ OnePlace /\ Numbered /\ Ended

\* A new in-memory connection satisfies the invariant.
LEMMA MemoryInitial == MemoryInit => MemoryInv
<1> SUFFICES ASSUME MemoryInit PROVE MemoryInv
  OBVIOUS
<1>1. /\ MemoryTypes
      /\ \A s \in MemorySides, l \in MemoryLanes : Queue(s, l) = <<>>
      /\ \A s \in MemorySides : ~ Sending(s) /\ ~ Receiving(s) /\ ~ sides[s].write_closed
      /\ ends = {} /\ handed = {}
  BY DEF MemoryInit, MemoryTypes, Queue, Sending, Receiving
<1> QED
  BY <1>1 DEF MemoryInv, OnePlace, Numbered, Ended

\* The two sides are each other's opposite.
LEMMA OppositeFacts ==
    ASSUME NEW s \in MemorySides
    PROVE  Opposite(s) \in MemorySides /\ Opposite(s) # s /\ Opposite(Opposite(s)) = s
  BY DEF Opposite, MemorySides

\* The numbers of messages are numbers, wherever the message is.
LEMMA NumbersTyped ==
    ASSUME MemoryInv
    PROVE  /\ \A s \in MemorySides, l \in MemoryLanes :
                /\ Queue(s, l) \in Seq(Messages)
                /\ \A i \in 1 .. Len(Queue(s, l)) : Queue(s, l)[i].number \in Nat
           /\ \A s \in MemorySides : Sending(s) => working[s].message.number \in Nat
           /\ \A h \in handed : h[4].number \in Nat
<1>1. \A s \in MemorySides, l \in MemoryLanes : Queue(s, l) \in Seq(Messages)
  BY DEF MemoryInv, MemoryTypes, Queue
<1>2. \A q \in Seq(Messages) : \A i \in 1 .. Len(q) : q[i].number \in Nat
  <2>1. \A m \in Messages : m.number \in Nat
    BY DEF Messages
  <2>2. \A q \in Seq(Messages) : \A i \in 1 .. Len(q) : q[i] \in Messages
    OBVIOUS
  <2> QED
    BY <2>1, <2>2
<1>3. \A s \in MemorySides : Sending(s) => working[s].message.number \in Nat
  BY DEF MemoryInv, MemoryTypes, Sending, Sends, Receives, Messages
<1>4. \A h \in handed : h[4].number \in Nat
  BY DEF MemoryInv, MemoryTypes, Messages
<1> QED
  BY <1>1, <1>2, <1>3, <1>4

\* A send's first section, under its own lock, keeps the invariant.
LEMMA StartSendStep ==
    ASSUME MemoryInv, NEW s \in MemorySides, NEW lane \in MemoryLanes, NEW protocol \in Streams,
           StartSend(s, lane, protocol)
    PROVE  MemoryInv'
<1>0. written \in Nat /\ written' = written + 1
  BY DEF StartSend, MemoryInv, MemoryTypes
<1> DEFINE m == [number |-> written + 1, protocol |-> protocol]
<1>1. PICK message \in Messages :
        /\ message.number = written + 1
        /\ working' = [working EXCEPT ![s] = [op |-> "send", lane |-> lane, message |-> message]]
  <2>1. m \in Messages /\ m.number = written + 1
    BY <1>0 DEF Messages
  <2>2. working' = [working EXCEPT ![s] = [op |-> "send", lane |-> lane, message |-> m]]
    BY <1>0 DEF StartSend
  <2> QED
    BY <2>1, <2>2
<1>2. PICK w \in Sends : w.op = "send" /\ w.message = message /\
                         working' = [working EXCEPT ![s] = w]
  <2> DEFINE v == [op |-> "send", lane |-> lane, message |-> message]
  <2>1. v \in Sends /\ v.op = "send" /\ v.message = message
    BY DEF Sends
  <2> QED
    BY <1>1, <2>1
<1>3. /\ written \in Nat /\ written' = written + 1 /\ ~ sides[s].write_closed
      /\ sides' = sides /\ ends' = ends /\ handed' = handed
      /\ working[s] = Free
  BY DEF StartSend, MayStartSend, MemoryInv, MemoryTypes
<1>4. /\ \A t \in MemorySides \ {s} : working'[t] = working[t]
      /\ working'[s] = w
      /\ working' \in [MemorySides -> {Free} \cup Sends \cup Receives]
  BY <1>2 DEF MemoryInv, MemoryTypes
<1>5. \A t \in MemorySides, l \in MemoryLanes : Queue(t, l)' = Queue(t, l)
  BY <1>3 DEF Queue
<1>6. MemoryTypes'
  BY <1>3, <1>4 DEF MemoryInv, MemoryTypes
<1>7. /\ \A t \in MemorySides \ {s} : Sending(t)' <=> Sending(t)
      /\ Sending(s)' => working'[s].message.number = written + 1
      /\ \A t \in MemorySides, l \in MemoryLanes : \A i \in 1 .. Len(Queue(t, l)) :
           Queue(t, l)[i].number \in Nat /\ Queue(t, l)[i].number # written + 1
      /\ \A h \in handed : h[4].number \in Nat /\ h[4].number # written + 1
      /\ \A t \in MemorySides : Sending(t) => /\ working[t].message.number \in Nat
                                              /\ working[t].message.number # written + 1
  <2>1. \A t \in MemorySides \ {s} : Sending(t)' <=> Sending(t)
    BY <1>4 DEF Sending
  <2>2. Sending(s)' => working'[s].message.number = written + 1
    BY <1>1, <1>2, <1>4 DEF Sending
  <2>3. \A t \in MemorySides, l \in MemoryLanes : \A i \in 1 .. Len(Queue(t, l)) :
           Queue(t, l)[i].number \in Nat /\ Queue(t, l)[i].number # written + 1
    BY NumbersTyped, <1>0 DEF MemoryInv, Numbered
  <2>4. \A h \in handed : h[4].number \in Nat /\ h[4].number # written + 1
    BY NumbersTyped, <1>0 DEF MemoryInv, Numbered
  <2>5. \A t \in MemorySides : Sending(t) => /\ working[t].message.number \in Nat
                                             /\ working[t].message.number # written + 1
    BY NumbersTyped, <1>0 DEF MemoryInv, Numbered
  <2> QED
    BY <2>1, <2>2, <2>3, <2>4, <2>5
<1>8. OnePlace'
  <2>1. OnePlace
    BY DEF MemoryInv
  <2> QED
    BY <2>1, <1>3, <1>4, <1>5, <1>7 DEF OnePlace
<1>9. Numbered'
  <2>1. Numbered
    BY DEF MemoryInv
  <2> QED
    BY <1>0, <2>1, <1>3, <1>4, <1>5, <1>7 DEF Numbered
<1>10. Ended'
  BY <1>2, <1>3, <1>4, <1>5 DEF MemoryInv, Ended, Sending, Receiving, Queue
<1> QED
  BY <1>6, <1>8, <1>9, <1>10 DEF MemoryInv


\* A queue that gained a message, and one that lost its first.
LEMMA Appended ==
    ASSUME NEW S, NEW q \in Seq(S), NEW m \in S
    PROVE  /\ Append(q, m) \in Seq(S) /\ Len(Append(q, m)) = Len(q) + 1
           /\ \A i \in 1 .. Len(Append(q, m)) :
                \/ i \in 1 .. Len(q) /\ Append(q, m)[i] = q[i]
                \/ i = Len(q) + 1 /\ Append(q, m)[i] = m
  OBVIOUS

\* The head of a queue and the positions of the rest.
LEMMA Popped ==
    ASSUME NEW S, NEW q \in Seq(S), q # <<>>
    PROVE  /\ Tail(q) \in Seq(S) /\ Head(q) = q[1] /\ Head(q) \in S /\ 1 \in 1 .. Len(q)
           /\ \A i \in 1 .. Len(Tail(q)) :
                i + 1 \in 1 .. Len(q) /\ i + 1 # 1 /\ Tail(q)[i] = q[i + 1]
  OBVIOUS

\* A thread that leaves its operation, the queues as they were.
LEMMA LeavesOperation ==
    ASSUME MemoryInv, NEW s \in MemorySides, working' = [working EXCEPT ![s] = Free]
    PROVE  /\ working' \in [MemorySides -> {Free} \cup Sends \cup Receives]
           /\ ~ Sending(s)' /\ ~ Receiving(s)'
           /\ \A t \in MemorySides \ {s} : /\ working'[t] = working[t]
                                           /\ Sending(t)' <=> Sending(t)
                                           /\ Receiving(t)' <=> Receiving(t)
<1>1. /\ working' \in [MemorySides -> {Free} \cup Sends \cup Receives]
      /\ working'[s] = Free /\ \A t \in MemorySides \ {s} : working'[t] = working[t]
  BY DEF MemoryInv, MemoryTypes
<1> QED
  BY <1>1 DEF Sending, Receiving

\* A send's second section, under the peer's lock, keeps the invariant.
LEMMA FinishSendStep ==
    ASSUME MemoryInv, NEW s \in MemorySides, FinishSend(s)
    PROVE  MemoryInv'
<1>0. PICK p \in MemorySides : p = Opposite(s) /\ p # s /\ Opposite(p) = s
  BY OppositeFacts
<1>1. /\ Sending(s) /\ working' = [working EXCEPT ![s] = Free]
      /\ written' = written /\ ends' = ends /\ handed' = handed
  BY DEF FinishSend, Sending
<1>2. PICK l \in MemoryLanes, m \in Messages : l = working[s].lane /\ m = working[s].message
  BY <1>1 DEF MemoryInv, MemoryTypes, Sending, Sends, Receives
<1>3. /\ working' \in [MemorySides -> {Free} \cup Sends \cup Receives]
      /\ ~ Sending(s)' /\ ~ Receiving(s)'
      /\ \A t \in MemorySides \ {s} : /\ working'[t] = working[t]
                                      /\ Sending(t)' <=> Sending(t)
                                      /\ Receiving(t)' <=> Receiving(t)
  BY <1>1, LeavesOperation
<1>4. /\ OnePlace /\ Numbered /\ Ended /\ MemoryTypes
  BY DEF MemoryInv
<1>5. CASE sides' = sides
  <2>1. \A t \in MemorySides, k \in MemoryLanes : Queue(t, k)' = Queue(t, k)
    BY <1>5 DEF Queue
  <2>2. MemoryTypes'
    BY <1>1, <1>3, <1>4, <1>5 DEF MemoryTypes
  <2>3. OnePlace'
    BY <1>1, <1>3, <1>4, <2>1 DEF OnePlace
  <2>4. Numbered'
    BY <1>1, <1>3, <1>4, <2>1 DEF Numbered
  <2>5. Ended'
    BY <1>1, <1>3, <1>4, <1>5 DEF Ended, Queue
  <2> QED
    BY <2>2, <2>3, <2>4, <2>5 DEF MemoryInv
<1>6. CASE sides' = [sides EXCEPT ![p].queue[l] = Append(@, m)]
  <2>1. Queue(p, l) \in Seq(Messages) /\ Append(Queue(p, l), m) \in Seq(Messages)
    BY <1>0, <1>2, NumbersTyped, Appended
  <2>2. /\ Queue(p, l)' = Append(Queue(p, l), m)
        /\ \A t \in MemorySides, k \in MemoryLanes :
             t # p \/ k # l => Queue(t, k)' = Queue(t, k)
        /\ \A t \in MemorySides : sides'[t].write_closed = sides[t].write_closed
    BY <1>0, <1>2, <1>4, <1>6 DEF MemoryTypes, Queue
  <2>3. MemoryTypes'
    <3>1. Append(sides[p].queue[l], m) \in Seq(Messages)
      BY <2>1 DEF Queue
    <3>2. sides' \in [MemorySides -> [ queue : [MemoryLanes -> Seq(Messages)],
                                       write_closed : BOOLEAN,
                                       read_closed : BOOLEAN, aborted : BOOLEAN ]]
      BY <1>0, <1>2, <1>4, <1>6, <3>1, ZenonT(60) DEF MemoryTypes
    <3> QED
      BY <1>1, <1>3, <1>4, <3>2 DEF MemoryTypes
  <2>4. \A t \in MemorySides, k \in MemoryLanes : \A i \in 1 .. Len(Queue(t, k)') :
          \/ i \in 1 .. Len(Queue(t, k)) /\ Queue(t, k)'[i] = Queue(t, k)[i]
          \/ t = p /\ k = l /\ i = Len(Queue(p, l)) + 1 /\ Queue(t, k)'[i] = m
    BY <1>2, <2>1, <2>2, Appended
  <2>5. /\ \A t \in MemorySides, k \in MemoryLanes : \A i \in 1 .. Len(Queue(t, k)) :
               Queue(t, k)[i].number # m.number
        /\ \A t \in MemorySides \ {s} : Sending(t) => working[t].message.number # m.number
        /\ \A h \in handed : h[4].number # m.number
        /\ m.number <= written
    BY <1>1, <1>2, <1>4 DEF OnePlace, Numbered
  <2>6. OnePlace'
    <3>1. \A x, t \in MemorySides, h, k \in MemoryLanes :
            \A i \in 1 .. Len(Queue(x, h)'), j \in 1 .. Len(Queue(t, k)') :
              Queue(x, h)'[i].number = Queue(t, k)'[j].number => x = t /\ h = k /\ i = j
      <4> TAKE x, t \in MemorySides, h, k \in MemoryLanes
      <4> TAKE i \in 1 .. Len(Queue(x, h)'), j \in 1 .. Len(Queue(t, k)')
      <4> HAVE Queue(x, h)'[i].number = Queue(t, k)'[j].number
      <4>1. \/ i \in 1 .. Len(Queue(x, h)) /\ Queue(x, h)'[i] = Queue(x, h)[i]
            \/ x = p /\ h = l /\ i = Len(Queue(p, l)) + 1 /\ Queue(x, h)'[i] = m
        BY <2>4
      <4>2. \/ j \in 1 .. Len(Queue(t, k)) /\ Queue(t, k)'[j] = Queue(t, k)[j]
            \/ t = p /\ k = l /\ j = Len(Queue(p, l)) + 1 /\ Queue(t, k)'[j] = m
        BY <2>4
      <4>3. \A x1, t1 \in MemorySides, h1, k1 \in MemoryLanes :
              \A i1 \in 1 .. Len(Queue(x1, h1)), j1 \in 1 .. Len(Queue(t1, k1)) :
                Queue(x1, h1)[i1].number = Queue(t1, k1)[j1].number => x1 = t1 /\ h1 = k1 /\ i1 = j1
        BY <1>4 DEF OnePlace
      <4> QED
        BY <2>5, <4>1, <4>2, <4>3
    <3>2. \A x, t \in MemorySides :
            (Sending(x) /\ Sending(t)
             /\ working[x].message.number = working[t].message.number => x = t)'
      BY <1>3, <1>4 DEF OnePlace
    <3>3. \A x \in MemorySides, k \in MemoryLanes : \A i \in 1 .. Len(Queue(x, k)') :
            /\ \A t \in MemorySides : Sending(t)' => working'[t].message.number # Queue(x, k)'[i].number
            /\ \A h \in handed : h[4].number # Queue(x, k)'[i].number
      <4> TAKE x \in MemorySides, k \in MemoryLanes
      <4> TAKE i \in 1 .. Len(Queue(x, k)')
      <4>1. CASE i \in 1 .. Len(Queue(x, k)) /\ Queue(x, k)'[i] = Queue(x, k)[i]
        <5>1. \A t \in MemorySides : Sending(t) => working[t].message.number # Queue(x, k)[i].number
          BY <1>4, <4>1 DEF OnePlace
        <5>2. \A h \in handed : h[4].number # Queue(x, k)[i].number
          BY <1>4, <4>1 DEF OnePlace
        <5> QED
          BY <1>3, <4>1, <5>1, <5>2
      <4>2. CASE Queue(x, k)'[i] = m
        BY <1>3, <2>5, <4>2
      <4> QED
        BY <2>4, <4>1, <4>2
    <3>4. \A t \in MemorySides, h \in handed : Sending(t)' => working'[t].message.number # h[4].number
      BY <1>3, <1>4 DEF OnePlace
    <3> QED
      BY <1>1, <1>4, <3>1, <3>2, <3>3, <3>4 DEF OnePlace
  <2>7. Numbered'
    BY <1>1, <1>3, <1>4, <2>4, <2>5 DEF Numbered
  <2>8. Ended'
    <3>1. ~ sides[s].write_closed
      BY <1>1, <1>4 DEF Ended
    <3>2. \A t \in MemorySides : sides[Opposite(t)].write_closed => t # p
      BY <1>0, <3>1
    <3>3. \A t \in MemorySides : sides'[Opposite(t)].write_closed = sides[Opposite(t)].write_closed
      BY <2>2, OppositeFacts
    <3>4. \A e \in ends : e[1] \in MemorySides /\ e[2] \in MemoryLanes
      BY <1>4 DEF MemoryTypes
    <3>5. \A t \in MemorySides : Receiving(t) => working[t].lane \in MemoryLanes
      BY <1>4 DEF MemoryTypes, Receiving, Sends, Receives
    <3> QED
      BY <1>1, <1>3, <1>4, <2>2, <3>2, <3>3, <3>4, <3>5 DEF Ended
  <2> QED
    BY <2>3, <2>6, <2>7, <2>8 DEF MemoryInv
<1> QED
  BY <1>0, <1>2, <1>5, <1>6 DEF FinishSend

\* A receive's first section, under its own lock, keeps the invariant.
LEMMA TakeMessageStep ==
    ASSUME MemoryInv, NEW s \in MemorySides, NEW lane \in MemoryLanes, NEW stream \in Streams,
           TakeMessage(s, lane, stream)
    PROVE  MemoryInv'
<1>1. MemoryTypes /\ OnePlace /\ Numbered /\ Ended
  BY DEF MemoryInv
<1>2. written' = written /\ ends' = ends /\ working[s] = Free
  BY DEF TakeMessage
<1>3. Queue(s, lane) \in Seq(Messages)
  BY NumbersTyped
<1>4. CASE Queue(s, lane) = <<>>
  <2>1. PICK w \in Receives :
          /\ w.op = "receive" /\ w.lane = lane
          /\ w.begun_closed = sides[Opposite(s)].write_closed
          /\ working' = [working EXCEPT ![s] = w]
    <3> DEFINE v == [op |-> "receive", lane |-> lane,
                     begun_closed |-> sides[Opposite(s)].write_closed]
    <3>1. sides[Opposite(s)].write_closed \in BOOLEAN
      BY <1>1, OppositeFacts DEF MemoryTypes
    <3>2. /\ v \in Receives /\ v.op = "receive" /\ v.lane = lane
          /\ v.begun_closed = sides[Opposite(s)].write_closed
      BY <3>1 DEF Receives
    <3>3. working' = [working EXCEPT ![s] = v]
      BY <1>4 DEF TakeMessage, Queue
    <3> QED
      BY <3>2, <3>3
  <2>2. sides' = sides /\ handed' = handed
    BY <1>4 DEF TakeMessage, Queue
  <2>3. /\ working' \in [MemorySides -> {Free} \cup Sends \cup Receives]
        /\ working'[s] = w /\ ~ Sending(s)' /\ ~ Sending(s)
        /\ \A t \in MemorySides \ {s} : /\ working'[t] = working[t]
                                        /\ Sending(t)' <=> Sending(t)
                                        /\ Receiving(t)' <=> Receiving(t)
    <3>1. /\ working' \in [MemorySides -> {Free} \cup Sends \cup Receives]
          /\ working'[s] = w /\ \A t \in MemorySides \ {s} : working'[t] = working[t]
      BY <1>1, <2>1 DEF MemoryTypes
    <3> QED
      BY <1>2, <2>1, <3>1 DEF Sending, Receiving
  <2>4. \A t \in MemorySides, k \in MemoryLanes : Queue(t, k)' = Queue(t, k)
    BY <2>2 DEF Queue
  <2>5. MemoryTypes'
    BY <1>1, <1>2, <2>2, <2>3 DEF MemoryTypes
  <2>6. OnePlace'
    BY <1>1, <2>2, <2>3, <2>4 DEF OnePlace
  <2>7. Numbered'
    BY <1>1, <1>2, <2>2, <2>3, <2>4 DEF Numbered
  <2>8. Ended'
    BY <1>1, <1>2, <1>4, <2>1, <2>2, <2>3 DEF Ended, Queue
  <2> QED
    BY <2>5, <2>6, <2>7, <2>8 DEF MemoryInv
<1>5. CASE Queue(s, lane) # <<>>
  <2>1. PICK m \in Messages : m = Head(Queue(s, lane)) /\ m = Queue(s, lane)[1]
    BY <1>3, <1>5, Popped
  <2>2. /\ sides' = [sides EXCEPT ![s].queue[lane] = Tail(@)]
        /\ handed' = IF Accepts(lane, stream, m)
                     THEN handed \cup {<<s, lane, stream, m>>} ELSE handed
        /\ working' = working
    BY <1>5, <2>1 DEF TakeMessage, Queue
  <2>3. Tail(Queue(s, lane)) \in Seq(Messages)
    BY <1>3, <1>5, Popped
  <2>4. /\ Queue(s, lane)' = Tail(Queue(s, lane))
        /\ \A t \in MemorySides, k \in MemoryLanes :
             t # s \/ k # lane => Queue(t, k)' = Queue(t, k)
        /\ \A t \in MemorySides : sides'[t].write_closed = sides[t].write_closed
    BY <1>1, <2>2 DEF MemoryTypes, Queue
  <2>5. MemoryTypes'
    <3>1. Tail(sides[s].queue[lane]) \in Seq(Messages)
      BY <2>3 DEF Queue
    <3>2. sides' \in [MemorySides -> [ queue : [MemoryLanes -> Seq(Messages)],
                                       write_closed : BOOLEAN,
                                       read_closed : BOOLEAN, aborted : BOOLEAN ]]
      BY <1>1, <2>2, <3>1 DEF MemoryTypes
    <3>3. handed' \subseteq MemorySides \X MemoryLanes \X Streams \X Messages
      BY <1>1, <2>2 DEF MemoryTypes
    <3> QED
      BY <1>1, <1>2, <2>2, <3>2, <3>3 DEF MemoryTypes
  <2>6. \A t \in MemorySides, k \in MemoryLanes : \A i \in 1 .. Len(Queue(t, k)') :
          \E j \in 1 .. Len(Queue(t, k)) :
             /\ Queue(t, k)'[i] = Queue(t, k)[j]
             /\ j = IF t = s /\ k = lane THEN i + 1 ELSE i
             /\ t = s /\ k = lane => j # 1
    <3> TAKE t \in MemorySides, k \in MemoryLanes
    <3> TAKE i \in 1 .. Len(Queue(t, k)')
    <3>1. CASE t = s /\ k = lane
      <4>1. i + 1 \in 1 .. Len(Queue(s, lane)) /\ i + 1 # 1
            /\ Tail(Queue(s, lane))[i] = Queue(s, lane)[i + 1]
        BY <1>3, <1>5, <2>4, <3>1, Popped
      <4> QED
        BY <2>4, <3>1, <4>1
    <3>2. CASE ~ (t = s /\ k = lane)
      BY <2>4, <3>2
    <3> QED
      BY <3>1, <3>2
  <2>7. /\ 1 \in 1 .. Len(Queue(s, lane))
        /\ m.number <= written
        /\ \A t \in MemorySides : Sending(t) => working[t].message.number # m.number
        /\ \A h \in handed : h[4].number # m.number
    BY <1>1, <1>3, <1>5, <2>1, Popped DEF OnePlace, Numbered
  <2>8. \A t \in MemorySides, k \in MemoryLanes : \A i \in 1 .. Len(Queue(t, k)') :
          Queue(t, k)'[i].number # m.number
    <3> TAKE t \in MemorySides, k \in MemoryLanes
    <3> TAKE i \in 1 .. Len(Queue(t, k)')
    <3>1. PICK j \in 1 .. Len(Queue(t, k)) :
             Queue(t, k)'[i] = Queue(t, k)[j] /\ (t = s /\ k = lane => j # 1)
      BY <2>6
    <3> QED
      BY <1>1, <2>1, <2>7, <3>1 DEF OnePlace
  <2>9. /\ \A t \in MemorySides : /\ working'[t] = working[t]
                                  /\ Sending(t)' <=> Sending(t)
                                  /\ Receiving(t)' <=> Receiving(t)
        /\ \A h \in handed' : \/ h \in handed
                              \/ h = <<s, lane, stream, m>> /\ Accepts(lane, stream, m)
    BY <2>2 DEF Sending, Receiving
  <2>10. OnePlace'
    <3>1. \A x, t \in MemorySides, h, k \in MemoryLanes :
            \A i \in 1 .. Len(Queue(x, h)'), j \in 1 .. Len(Queue(t, k)') :
              Queue(x, h)'[i].number = Queue(t, k)'[j].number => x = t /\ h = k /\ i = j
      <4> TAKE x, t \in MemorySides, h, k \in MemoryLanes
      <4> TAKE i \in 1 .. Len(Queue(x, h)'), j \in 1 .. Len(Queue(t, k)')
      <4> HAVE Queue(x, h)'[i].number = Queue(t, k)'[j].number
      <4>1. PICK i1 \in 1 .. Len(Queue(x, h)) :
              /\ Queue(x, h)'[i] = Queue(x, h)[i1]
              /\ i1 = IF x = s /\ h = lane THEN i + 1 ELSE i
        BY <2>6
      <4>2. PICK j1 \in 1 .. Len(Queue(t, k)) :
              /\ Queue(t, k)'[j] = Queue(t, k)[j1]
              /\ j1 = IF t = s /\ k = lane THEN j + 1 ELSE j
        BY <2>6
      <4>3. x = t /\ h = k /\ i1 = j1
        BY <1>1, <4>1, <4>2 DEF OnePlace
      <4> QED
        BY <4>1, <4>2, <4>3
    <3>2. \A x, t \in MemorySides :
            (Sending(x) /\ Sending(t)
             /\ working[x].message.number = working[t].message.number => x = t)'
      BY <1>1, <2>9 DEF OnePlace
    <3>3. \A x \in MemorySides, k \in MemoryLanes : \A i \in 1 .. Len(Queue(x, k)') :
            /\ \A t \in MemorySides : Sending(t)' => working'[t].message.number # Queue(x, k)'[i].number
            /\ \A h \in handed' : h[4].number # Queue(x, k)'[i].number
      <4> TAKE x \in MemorySides, k \in MemoryLanes
      <4> TAKE i \in 1 .. Len(Queue(x, k)')
      <4>1. PICK j \in 1 .. Len(Queue(x, k)) : Queue(x, k)'[i] = Queue(x, k)[j]
        BY <2>6
      <4>2. \A t \in MemorySides : Sending(t)' => working'[t].message.number # Queue(x, k)'[i].number
        BY <1>1, <2>9, <4>1 DEF OnePlace
      <4>3. \A h \in handed : h[4].number # Queue(x, k)'[i].number
        BY <1>1, <4>1 DEF OnePlace
      <4>4. Queue(x, k)'[i].number # m.number
        BY <2>8
      <4> QED
        BY <2>9, <4>2, <4>3, <4>4
    <3>4. \A t \in MemorySides, h \in handed' : Sending(t)' => working'[t].message.number # h[4].number
      BY <1>1, <2>7, <2>9 DEF OnePlace
    <3>5. \A g, h \in handed' : g[4].number = h[4].number => g = h
      BY <1>1, <2>7, <2>9 DEF OnePlace
    <3> QED
      BY <3>1, <3>2, <3>3, <3>4, <3>5 DEF OnePlace
  <2>11. Numbered'
    <3>1. \A t \in MemorySides, k \in MemoryLanes : \A i \in 1 .. Len(Queue(t, k)') :
            Queue(t, k)'[i].number <= written
      BY <1>1, <2>6 DEF Numbered
    <3> QED
      BY <1>1, <1>2, <2>7, <2>9, <3>1 DEF Numbered
  <2>12. Ended'
    <3>1. \A t \in MemorySides : Opposite(t) \in MemorySides
      BY OppositeFacts
    <3>2. \A e \in ends : e[1] \in MemorySides /\ e[2] \in MemoryLanes
      BY <1>1 DEF MemoryTypes
    <3>3. \A t \in MemorySides : Receiving(t) => working[t].lane \in MemoryLanes
      BY <1>1 DEF MemoryTypes, Receiving, Sends, Receives
    <3>4. \A t \in MemorySides, k \in MemoryLanes : Queue(t, k) = <<>> => Queue(t, k)' = <<>>
      BY <1>5, <2>4
    <3>5. \A h \in handed' : h[2] = "control" => h[4].protocol = h[3]
      BY <1>1, <2>9 DEF Ended, Accepts
    <3> QED
      BY <1>1, <1>2, <2>4, <2>9, <3>1, <3>2, <3>3, <3>4, <3>5 DEF Ended
  <2> QED
    BY <2>5, <2>10, <2>11, <2>12 DEF MemoryInv
<1> QED
  BY <1>4, <1>5

\* A receive's second section, under the peer's lock, keeps the invariant.
LEMMA FinishReceiveStep ==
    ASSUME MemoryInv, NEW s \in MemorySides, FinishReceive(s)
    PROVE  MemoryInv'
<1>1. MemoryTypes /\ OnePlace /\ Numbered /\ Ended
  BY DEF MemoryInv
<1>2. /\ Receiving(s) /\ ~ Sending(s) /\ working' = [working EXCEPT ![s] = Free]
      /\ sides' = sides /\ written' = written /\ handed' = handed
      /\ ends' = IF sides[Opposite(s)].write_closed /\ working[s].begun_closed
                 THEN ends \cup {<<s, working[s].lane>>} ELSE ends
  BY DEF FinishReceive, Receiving, Sending
<1>3. PICK l \in MemoryLanes : l = working[s].lane
  BY <1>1, <1>2 DEF MemoryTypes, Receiving, Sends, Receives
<1>4. /\ working' \in [MemorySides -> {Free} \cup Sends \cup Receives]
      /\ ~ Sending(s)' /\ ~ Receiving(s)'
      /\ \A t \in MemorySides \ {s} : /\ working'[t] = working[t]
                                      /\ Sending(t)' <=> Sending(t)
                                      /\ Receiving(t)' <=> Receiving(t)
  BY <1>2, LeavesOperation
<1>5. \A t \in MemorySides, k \in MemoryLanes : Queue(t, k)' = Queue(t, k)
  BY <1>2 DEF Queue
<1>6. \A e \in ends' : /\ e \in MemorySides \X MemoryLanes
                       /\ \/ e \in ends
                          \/ /\ e = <<s, l>> /\ Queue(s, l) = <<>>
                             /\ sides[Opposite(s)].write_closed
  BY <1>1, <1>2, <1>3 DEF MemoryTypes, Ended
<1>7. MemoryTypes'
  BY <1>1, <1>2, <1>4, <1>6 DEF MemoryTypes
<1>8. OnePlace'
  BY <1>1, <1>2, <1>4, <1>5 DEF OnePlace
<1>9. Numbered'
  BY <1>1, <1>2, <1>4, <1>5 DEF Numbered
<1>10. Ended'
  BY <1>1, <1>2, <1>4, <1>6 DEF Ended, Queue
<1> QED
  BY <1>7, <1>8, <1>9, <1>10 DEF MemoryInv

\* close_write, close_read and abort keep the invariant.
LEMMA SetFlagStep ==
    ASSUME MemoryInv, NEW s \in MemorySides,
           NEW flag \in {"write_closed", "read_closed", "aborted"}, SetFlag(s, flag)
    PROVE  MemoryInv'
<1>1. MemoryTypes /\ OnePlace /\ Numbered /\ Ended
  BY DEF MemoryInv
<1>2. /\ working[s] = Free /\ working' = working /\ written' = written
      /\ ends' = ends /\ handed' = handed
      /\ sides' = [sides EXCEPT ![s][flag] = TRUE]
  BY DEF SetFlag
<1>3. /\ \A t \in MemorySides, k \in MemoryLanes : Queue(t, k)' = Queue(t, k)
      /\ \A t \in MemorySides \ {s} : sides'[t].write_closed = sides[t].write_closed
      /\ sides[s].write_closed => sides'[s].write_closed
      /\ sides' \in [MemorySides -> [ queue : [MemoryLanes -> Seq(Messages)],
                                      write_closed : BOOLEAN,
                                      read_closed : BOOLEAN, aborted : BOOLEAN ]]
  BY <1>1, <1>2 DEF MemoryTypes, Queue
<1>4. \A t \in MemorySides : (Sending(t)' <=> Sending(t)) /\ (Receiving(t)' <=> Receiving(t))
  BY <1>2 DEF Sending, Receiving
<1>5. MemoryTypes'
  BY <1>1, <1>2, <1>3 DEF MemoryTypes
<1>6. OnePlace'
  BY <1>1, <1>2, <1>3, <1>4 DEF OnePlace
<1>7. Numbered'
  BY <1>1, <1>2, <1>3, <1>4 DEF Numbered
<1>8. Ended'
  <2>1. \A t \in MemorySides : Opposite(t) \in MemorySides
    BY OppositeFacts
  <2>2. \A e \in ends : e[1] \in MemorySides /\ e[2] \in MemoryLanes
    BY <1>1 DEF MemoryTypes
  <2>3. \A t \in MemorySides : Receiving(t) => working[t].lane \in MemoryLanes
    BY <1>1 DEF MemoryTypes, Receiving, Sends, Receives
  <2>4. ~ Sending(s)
    BY <1>2 DEF Sending
  <2> QED
    BY <1>1, <1>2, <1>3, <1>4, <2>1, <2>2, <2>3, <2>4 DEF Ended
<1> QED
  BY <1>5, <1>6, <1>7, <1>8 DEF MemoryInv

\* Every step of the in-memory connection keeps the invariant.
LEMMA MemoryStep == MemoryInv /\ [MemoryNext]_memoryVars => MemoryInv'
<1> SUFFICES ASSUME MemoryInv, [MemoryNext]_memoryVars PROVE MemoryInv'
  OBVIOUS
<1>1. CASE UNCHANGED memoryVars
  BY <1>1 DEF memoryVars, MemoryInv, MemoryTypes, OnePlace, Numbered, Ended, Queue, Sending,
              Receiving
<1>2. ASSUME NEW s \in MemorySides, NEW lane \in MemoryLanes \ {"control"},
             StartSend(s, lane, Free) \/ TakeMessage(s, lane, Free)
      PROVE  MemoryInv'
  BY <1>2, StartSendStep, TakeMessageStep DEF Streams
<1>3. ASSUME NEW s \in MemorySides, NEW protocol \in Protocols,
             StartSend(s, "control", protocol) \/ TakeMessage(s, "control", protocol)
      PROVE  MemoryInv'
  BY <1>3, StartSendStep, TakeMessageStep DEF Streams, MemoryLanes
<1> QED
  BY <1>1, <1>2, <1>3, FinishSendStep, FinishReceiveStep, SetFlagStep DEF MemoryNext

\* Two threads and two locks: whatever is interleaved between the locked sections of
\* send_to_remote and receive_local, a message is in one place and an end that was observed
\* closed stays the end.
THEOREM MemoryInvariant == MemorySpec => []MemoryInv
<1> QED
  BY MemoryInitial, MemoryStep, PTL DEF MemorySpec

\* A reported end is final, no message is handed out twice, and none to a control stream of
\* another protocol, for every capacity and any number of messages.
THEOREM MemoryIsReliable == MemorySpec => []MemoryLanesReliable
<1>1. MemoryInv => MemoryLanesReliable
  <2> SUFFICES ASSUME MemoryInv PROVE EndIsFinal /\ StreamsAreSeparate
    BY DEF MemoryLanesReliable
  <2>1. MemoryTypes /\ OnePlace /\ Ended
    BY DEF MemoryInv
  <2>2. EndIsFinal
    <3>1. \A e \in ends : e[1] \in MemorySides /\ Opposite(e[1]) \in MemorySides
      BY <2>1, OppositeFacts DEF MemoryTypes
    <3> QED
      BY <2>1, <3>1 DEF EndIsFinal, Ended, Queue, Sending
  <2>3. StreamsAreSeparate
    <3>1. \A s \in MemorySides, l \in MemoryLanes :
            DOMAIN sides[s].queue[l] = 1 .. Len(sides[s].queue[l])
      BY NumbersTyped DEF Queue
    <3> QED
      BY <2>1, <3>1, SMTT(60) DEF StreamsAreSeparate, OnePlace, Ended, Queue
  <2> QED
    BY <2>2, <2>3
<1> QED
  BY <1>1, MemoryInvariant, PTL

-----------------------------------------------------------------------------
(* The realtime send queue: datagrams pending *)

\* The number of pending datagrams, group by group.
Size(g) == Len(g.datagrams)

Sized(q) == /\ Len(q) \in Nat
            /\ \A i \in 1 .. Len(q) : Size(q[i]) \in Nat

IsCount(f, q) ==
    f = [i \in 0 .. Len(q) |-> IF i = 0 THEN 0 ELSE f[i - 1] + Len(q[i].datagrams)]

\* A count written as a recursive function exists.
LEMMA CountExists ==
    ASSUME NEW q, Len(q) \in Nat
    PROVE  \E f : IsCount(f, q)
<1> DEFINE Upto(f, n) == f = [i \in 0 .. n |-> IF i = 0 THEN 0 ELSE f[i - 1] + Len(q[i].datagrams)]
           T == {k \in Nat : ~ \E f : Upto(f, k)}
<1>1. ASSUME T # {} PROVE FALSE
  <2>1. PICK k \in T : \A m \in T : k <= m
    BY <1>1, LeastElement
  <2>2. CASE k = 0
    <3> DEFINE f == [i \in 0 .. 0 |-> 0]
    <3>1. Upto(f, 0)
      OBVIOUS
    <3> QED
      BY <2>2, <3>1
  <2>3. CASE k # 0
    <3>0. k \in Nat
      BY <2>1
    <3>1. k - 1 \in Nat /\ ~ (k <= k - 1)
      BY <2>3, <3>0
    <3>a. k - 1 \notin T
      <4> HIDE DEF T
      <4> QED
        BY <2>1, <3>1
    <3>2. PICK f : Upto(f, k - 1)
      BY <3>1, <3>a
    <3> DEFINE g == [i \in 0 .. k |-> IF i = 0 THEN 0 ELSE f[i - 1] + Len(q[i].datagrams)]
    <3>3. \A i \in 0 .. k : i # 0 => g[i - 1] = f[i - 1]
      <4> SUFFICES ASSUME NEW i \in 0 .. k, i # 0 PROVE g[i - 1] = f[i - 1]
        OBVIOUS
      <4>1. i - 1 \in 0 .. k - 1 /\ i - 1 \in 0 .. k
        BY <3>0, <3>1
      <4>2. f[i - 1] = IF i - 1 = 0 THEN 0 ELSE f[(i - 1) - 1] + Len(q[i - 1].datagrams)
        BY <3>2, <4>1
      <4> QED
        BY <4>1, <4>2
    <3>4. Upto(g, k)
      BY <3>3
    <3> QED
      BY <2>1, <3>4
  <2> QED
    BY <2>2, <2>3
<1>2. \E f : Upto(f, Len(q))
  BY <1>1
<1> QED
  BY <1>2 DEF IsCount

\* What CountIn computes: partial sums that start with nothing.
LEMMA CountOf ==
    ASSUME NEW q, Sized(q)
    PROVE  \E f : /\ CountIn(q) = f[Len(q)] /\ f[0] = 0
                  /\ \A i \in 1 .. Len(q) : f[i] = f[i - 1] + Size(q[i])
                  /\ \A i \in 0 .. Len(q) : f[i] \in Nat
<1>1. PICK f : f = CHOOSE g : IsCount(g, q)
  OBVIOUS
<1>2. IsCount(f, q) /\ Len(q) \in Nat
  BY <1>1, CountExists DEF Sized
<1>3. CountIn(q) = f[Len(q)]
  BY <1>1, Zenon DEF CountIn, IsCount
<1>4. f[0] = 0 /\ \A i \in 1 .. Len(q) : f[i] = f[i - 1] + Size(q[i])
  BY <1>2 DEF IsCount, Size
<1>5. \A i \in 0 .. Len(q) : f[i] \in Nat
  <2> DEFINE T == {i \in 0 .. Len(q) : f[i] \notin Nat}
  <2> SUFFICES ASSUME T # {} PROVE FALSE
    OBVIOUS
  <2>1. PICK k \in T : \A m \in T : k <= m
    <3>1. T \in SUBSET Nat
      OBVIOUS
    <3> HIDE DEF T
    <3> QED
      BY <3>1, LeastElement
  <2>2. k # 0 /\ k \in 1 .. Len(q) /\ k - 1 \in 0 .. Len(q)
    BY <1>2, <1>4, <2>1
  <2>3. f[k - 1] \in Nat
    BY <2>1, <2>2
  <2> QED
    BY <1>4, <2>1, <2>2, <2>3 DEF Sized
<1> QED
  BY <1>3, <1>4, <1>5

\* A count is a number, and an empty queue holds nothing.
LEMMA CountNat ==
    ASSUME NEW q, Sized(q)
    PROVE  CountIn(q) \in Nat /\ (Len(q) = 0 => CountIn(q) = 0)
  BY CountOf DEF Sized

\* Two counts that differ by a constant from some position on.
Apart(f, g, h, n) ==
    /\ h \in [0 .. n -> Int]
    /\ \A i \in 0 .. n : f[i] \in Nat /\ g[i] \in Nat
    /\ g[0] = f[0] + h[0]
    /\ \A i \in 1 .. n : g[i] - g[i - 1] = f[i] - f[i - 1] + (h[i] - h[i - 1])

\* The counts of the part kept and of the part dropped add up to the count of the whole.
LEMMA CountsCompare ==
    ASSUME NEW n \in Nat, NEW f, NEW g, NEW h, Apart(f, g, h, n)
    PROVE  g[n] = f[n] + h[n]
<1> USE DEF Apart
<1> DEFINE T == {i \in 0 .. n : g[i] # f[i] + h[i]}
<1>1. ASSUME T # {} PROVE FALSE
  <2>1. PICK k \in T : \A m \in T : k <= m
    <3>1. T \in SUBSET Nat
      OBVIOUS
    <3> HIDE DEF T
    <3> QED
      BY <1>1, <3>1, LeastElement
  <2>2. k \in 1 .. n /\ k - 1 \in 0 .. n /\ k - 1 \notin T /\ k \in 0 .. n
    BY <2>1
  <2>3. g[k - 1] = f[k - 1] + h[k - 1]
    BY <2>2
  <2>4. /\ g[k] \in Int /\ g[k - 1] \in Int /\ f[k] \in Int /\ f[k - 1] \in Int
        /\ h[k] \in Int /\ h[k - 1] \in Int
    BY <2>2, SMTT(60)
  <2>5. g[k] - g[k - 1] = f[k] - f[k - 1] + (h[k] - h[k - 1])
    BY <2>2
  <2>6. g[k] = f[k] + h[k]
    <3>1. PICK g0 \in Int, g1 \in Int, f0 \in Int, f1 \in Int, h0 \in Int, h1 \in Int :
              /\ g0 = g[k - 1] /\ g1 = g[k] /\ f0 = f[k - 1] /\ f1 = f[k] /\ h0 = h[k - 1] /\ h1 = h[k]
      BY <2>4
    <3>2. g0 = f0 + h0 /\ g1 - g0 = f1 - f0 + (h1 - h0)
      BY <2>3, <2>5, <3>1
    <3>3. g1 = f1 + h1
      BY <3>2
    <3> QED
      BY <3>1, <3>3
  <2> QED
    BY <2>1, <2>6
<1>2. n \in 0 .. n
  OBVIOUS
<1>3. n \notin T
  <2> HIDE DEF T
  <2> QED
    BY <1>1
<1> QED
  BY <1>2, <1>3

\* One more group at the end.
LEMMA CountAppend ==
    ASSUME NEW S, NEW q \in Seq(S), NEW e \in S, \A s \in S : Size(s) \in Nat
    PROVE  CountIn(Append(q, e)) = CountIn(q) + Size(e)
<1>1. PICK n \in Nat : n = Len(q)
  OBVIOUS
<1>2. PICK r : /\ r = Append(q, e) /\ Len(r) = n + 1 /\ r[n + 1] = e
               /\ \A i \in 1 .. n : r[i] = q[i]
  <2>1. /\ Len(Append(q, e)) = n + 1 /\ Append(q, e)[n + 1] = e
        /\ \A i \in 1 .. n : Append(q, e)[i] = q[i]
    BY <1>1
  <2> QED
    BY <2>1
<1>3. \A i \in 1 .. n : q[i] \in S
  BY <1>1
<1>4. Sized(q) /\ Sized(r)
  BY <1>1, <1>2, <1>3 DEF Sized
<1>5. PICK f : /\ CountIn(q) = f[n] /\ f[0] = 0
               /\ \A i \in 1 .. n : f[i] = f[i - 1] + Size(q[i])
               /\ \A i \in 0 .. n : f[i] \in Nat
  BY <1>1, <1>4, CountOf
<1>6. PICK g : /\ CountIn(r) = g[n + 1] /\ g[0] = 0
               /\ \A i \in 1 .. n + 1 : g[i] = g[i - 1] + Size(r[i])
               /\ \A i \in 0 .. n + 1 : g[i] \in Nat
  BY <1>2, <1>4, CountOf, ZenonT(60)
<1>7. g[n] = f[n]
  <2>1. PICK h : h = [i \in 0 .. n |-> 0]
    OBVIOUS
  <2>2. h \in [0 .. n -> Int] /\ \A i \in 0 .. n : h[i] = 0
    BY <2>1
  <2>3. ASSUME NEW i \in 1 .. n PROVE g[i] - g[i - 1] = f[i] - f[i - 1] + (h[i] - h[i - 1])
    <3>1. Size(q[i]) \in Nat /\ Size(r[i]) = Size(q[i]) /\ i \in 0 .. n /\ i - 1 \in 0 .. n /\ i \in 1 .. n + 1
      BY <1>2, <1>3
    <3>2. f[i] = f[i - 1] + Size(q[i]) /\ g[i] = g[i - 1] + Size(q[i])
      BY <1>5, <1>6, <3>1
    <3>3. f[i - 1] \in Nat /\ g[i - 1] \in Nat
      BY <1>5, <1>6, <3>1
    <3> QED
      BY <2>2, <3>1, <3>2, <3>3
  <2>4. \A i \in 0 .. n : f[i] \in Nat /\ g[i] \in Nat
    BY <1>5, <1>6
  <2>5. g[n] = f[n] + h[n]
    <3>1. g[0] = f[0] + h[0]
      BY <1>1, <1>5, <1>6, <2>2
    <3>2. \A i \in 1 .. n : g[i] - g[i - 1] = f[i] - f[i - 1] + (h[i] - h[i - 1])
      BY <2>3
    <3>3. Apart(f, g, h, n)
      BY <2>2, <2>4, <3>1, <3>2 DEF Apart
    <3> QED
      BY <3>3, CountsCompare
  <2> QED
    BY <2>2, <2>4, <2>5
<1>8. g[n + 1] = g[n] + Size(r[n + 1])
  BY <1>6
<1> QED
  BY <1>2, <1>5, <1>6, <1>7, <1>8

\* One group replaced.
LEMMA CountReplace ==
    ASSUME NEW S, NEW q \in Seq(S), NEW r \in Seq(S), \A s \in S : Size(s) \in Nat,
           NEW at \in 1 .. Len(q), Len(r) = Len(q), \A i \in 1 .. Len(q) : i # at => r[i] = q[i]
    PROVE  CountIn(r) = CountIn(q) - Size(q[at]) + Size(r[at])
<1>1. PICK n \in Nat : n = Len(q) /\ n = Len(r)
  OBVIOUS
<1>2. at \in 1 .. n /\ \A i \in 1 .. n : i # at => r[i] = q[i]
  BY <1>1
<1>3. \A i \in 1 .. n : q[i] \in S /\ r[i] \in S
  BY <1>1
<1>4. Sized(q) /\ Sized(r)
  BY <1>1, <1>3 DEF Sized
<1>5. PICK f : /\ CountIn(q) = f[n] /\ f[0] = 0
               /\ \A i \in 1 .. n : f[i] = f[i - 1] + Size(q[i])
               /\ \A i \in 0 .. n : f[i] \in Nat
  BY <1>1, <1>4, CountOf
<1>6. PICK g : /\ CountIn(r) = g[n] /\ g[0] = 0
               /\ \A i \in 1 .. n : g[i] = g[i - 1] + Size(r[i])
               /\ \A i \in 0 .. n : g[i] \in Nat
  BY <1>1, <1>4, CountOf
<1>7. PICK a \in Nat, b \in Nat : a = Size(q[at]) /\ b = Size(r[at])
  BY <1>2, <1>3
<1>8. PICK h : h = [i \in 0 .. n |-> IF i < at THEN 0 ELSE b - a]
  OBVIOUS
<1>9. h \in [0 .. n -> Int] /\ \A i \in 0 .. n : h[i] = IF i < at THEN 0 ELSE b - a
  BY <1>2, <1>8
<1>10. ASSUME NEW i \in 1 .. n PROVE g[i] - g[i - 1] = f[i] - f[i - 1] + (h[i] - h[i - 1])
  <2>1. i \in 0 .. n /\ i - 1 \in 0 .. n
    OBVIOUS
  <2>2. PICK c \in Nat, d \in Nat : c = Size(q[i]) /\ d = Size(r[i])
    BY <1>3
  <2>3. f[i] = f[i - 1] + c /\ g[i] = g[i - 1] + d
    BY <1>5, <1>6, <2>2
  <2>4. f[i - 1] \in Nat /\ g[i - 1] \in Nat
    BY <1>5, <1>6, <2>1
  <2>5. d - c = h[i] - h[i - 1]
    <3>1. CASE i = at
      BY <1>2, <1>7, <1>9, <2>1, <2>2, <3>1, SMTT(60)
    <3>2. CASE i # at
      <4>1. d = c
        BY <1>2, <2>2, <3>2
      <4>2. h[i] = h[i - 1]
        BY <1>2, <1>9, <2>1, <3>2
      <4>3. h[i] \in Int
        BY <1>9, <2>1
      <4> QED
        BY <2>2, <4>1, <4>2, <4>3
    <3> QED
      BY <3>1, <3>2
  <2>6. h[i] \in Int /\ h[i - 1] \in Int
    BY <1>9, <2>1
  <2>7. PICK g0 \in Int, f0 \in Int, h0 \in Int, h1 \in Int :
            g0 = g[i - 1] /\ f0 = f[i - 1] /\ h0 = h[i - 1] /\ h1 = h[i]
    BY <2>4, <2>6, SMTT(60)
  <2>8. d - c = h1 - h0
    BY <2>5, <2>7
  <2>9. (g0 + d) - g0 = (f0 + c) - f0 + (h1 - h0)
    BY <2>2, <2>8
  <2> QED
    BY <2>3, <2>7, <2>9
<1>11. g[0] = f[0] + h[0]
  BY <1>2, <1>5, <1>6, <1>9
<1>12. g[n] = f[n] + h[n]
  <2>1. \A i \in 0 .. n : f[i] \in Nat /\ g[i] \in Nat
    BY <1>5, <1>6
  <2>2. \A i \in 1 .. n : g[i] - g[i - 1] = f[i] - f[i - 1] + (h[i] - h[i - 1])
    BY <1>10
  <2>3. Apart(f, g, h, n)
    BY <1>9, <1>11, <2>1, <2>2 DEF Apart
  <2> QED
    BY <2>3, CountsCompare
<1>13. h[n] = b - a /\ f[n] \in Nat /\ g[n] \in Nat
  BY <1>2, <1>5, <1>6, <1>9
<1> QED
  BY <1>5, <1>6, <1>7, <1>12, <1>13, SMTT(60)

\* One group removed.
LEMMA CountRemove ==
    ASSUME NEW S, NEW q \in Seq(S), \A s \in S : Size(s) \in Nat, NEW at \in 1 .. Len(q)
    PROVE  CountIn(RemoveAt(q, at)) = CountIn(q) - Size(q[at])
<1>1. PICK n \in Nat : n + 1 = Len(q)
  <2>1. Len(q) \in Nat /\ Len(q) >= 1
    OBVIOUS
  <2>2. Len(q) - 1 \in Nat /\ (Len(q) - 1) + 1 = Len(q)
    BY <2>1
  <2> QED
    BY <2>2
<1>2. PICK r : /\ r = RemoveAt(q, at) /\ r \in Seq(S) /\ Len(r) = n
               /\ \A i \in 1 .. n : r[i] = IF i < at THEN q[i] ELSE q[i + 1]
  <2>1. Len(q) - 1 = n
    BY <1>1
  <2> QED
    BY <2>1, RemoveAtFacts
<1>3. /\ at \in 1 .. n + 1
      /\ \A i \in 1 .. n + 1 : q[i] \in S
      /\ \A i \in 1 .. n : r[i] \in S
  BY <1>1, <1>2
<1>4. Sized(q) /\ Sized(r)
  BY <1>1, <1>2, <1>3 DEF Sized
<1>5. PICK f : /\ CountIn(q) = f[n + 1] /\ f[0] = 0
               /\ \A i \in 1 .. n + 1 : f[i] = f[i - 1] + Size(q[i])
               /\ \A i \in 0 .. n + 1 : f[i] \in Nat
  BY <1>1, <1>4, CountOf
<1>6. PICK g : /\ CountIn(r) = g[n] /\ g[0] = 0
               /\ \A i \in 1 .. n : g[i] = g[i - 1] + Size(r[i])
               /\ \A i \in 0 .. n : g[i] \in Nat
  BY <1>2, <1>4, CountOf
<1>7. PICK a \in Nat : a = Size(q[at])
  BY <1>3
<1>8. PICK h : h = [i \in 0 .. n |-> IF i < at THEN 0 ELSE f[i + 1] - f[i] - a]
  OBVIOUS
<1>9. /\ h \in [0 .. n -> Int]
      /\ \A i \in 0 .. n : h[i] = IF i < at THEN 0 ELSE f[i + 1] - f[i] - a
  <2>1. ASSUME NEW i \in 0 .. n PROVE f[i + 1] \in Nat /\ f[i] \in Nat
    BY <1>5
  <2> QED
    BY <1>8, <2>1
<1>10. ASSUME NEW i \in 1 .. n PROVE g[i] - g[i - 1] = f[i] - f[i - 1] + (h[i] - h[i - 1])
  <2>1. /\ i \in 0 .. n /\ i - 1 \in 0 .. n /\ i \in 1 .. n + 1 /\ i + 1 \in 1 .. n + 1
        /\ i \in 0 .. n + 1 /\ i - 1 \in 0 .. n + 1 /\ i + 1 \in 0 .. n + 1 /\ (i + 1) - 1 = i
        /\ (i - 1) + 1 = i
    OBVIOUS
  <2>2. PICK c \in Nat, d \in Nat, e \in Nat : c = Size(q[i]) /\ d = Size(r[i]) /\ e = Size(q[i + 1])
    BY <1>3, <2>1
  <2>3. f[i] = f[i - 1] + c /\ g[i] = g[i - 1] + d /\ f[i + 1] = f[i] + e
    BY <1>5, <1>6, <2>1, <2>2
  <2>4. f[i - 1] \in Nat /\ g[i - 1] \in Nat /\ f[i] \in Nat /\ f[i + 1] \in Nat
    BY <1>5, <1>6, <2>1
  <2>5. d = IF i < at THEN c ELSE e
    BY <1>2, <2>2
  <2>6. /\ h[i] = IF i < at THEN 0 ELSE f[i + 1] - f[i] - a
        /\ h[i - 1] = IF i - 1 < at THEN 0 ELSE f[i] - f[i - 1] - a
    BY <1>9, <2>1
  <2>7. PICK f0 \in Int, f1 \in Int, f2 \in Int, g0 \in Int, h0 \in Int, h1 \in Int :
            /\ f0 = f[i - 1] /\ f1 = f[i] /\ f2 = f[i + 1] /\ g0 = g[i - 1]
            /\ h0 = h[i - 1] /\ h1 = h[i]
    <3>1. h[i] \in Int /\ h[i - 1] \in Int
      BY <1>9, <2>1
    <3>2. f[i - 1] \in Int /\ f[i] \in Int /\ f[i + 1] \in Int /\ g[i - 1] \in Int
      BY <2>4
    <3> QED
      BY <3>1, <3>2, Zenon
  <2>8. /\ f1 = f0 + c /\ f2 = f1 + e
        /\ h1 = (IF i < at THEN 0 ELSE f2 - f1 - a)
        /\ h0 = (IF i - 1 < at THEN 0 ELSE f1 - f0 - a)
    BY <2>3, <2>6, <2>7
  <2>9. i = at => c = a
    BY <1>7, <2>2
  <2>10. (g0 + d) - g0 = (f1 - f0) + (h1 - h0)
    <3>1. CASE i < at
      <4>1. d = c /\ h1 = 0 /\ h0 = 0
        BY <1>3, <2>5, <2>8, <3>1
      <4> QED
        BY <2>8, <4>1
    <3>2. CASE i = at
      <4>1. d = e /\ h1 = f2 - f1 - a /\ h0 = 0 /\ c = a
        BY <1>3, <2>5, <2>8, <2>9, <3>2
      <4> QED
        BY <2>8, <4>1
    <3>3. CASE i > at
      <4>1. d = e /\ h1 = f2 - f1 - a /\ h0 = f1 - f0 - a
        BY <1>3, <2>5, <2>8, <3>3
      <4> QED
        BY <2>8, <4>1
    <3> QED
      BY <1>3, <3>1, <3>2, <3>3
  <2>11. g[i] = g0 + d
    BY <2>3, <2>7
  <2> QED
    BY <2>7, <2>10, <2>11
<1>11. g[0] = f[0] + h[0]
  BY <1>3, <1>5, <1>6, <1>9
<1>12. g[n] = f[n] + h[n]
  <2>1. \A i \in 0 .. n : f[i] \in Nat /\ g[i] \in Nat
    BY <1>5, <1>6
  <2>2. \A i \in 1 .. n : g[i] - g[i - 1] = f[i] - f[i - 1] + (h[i] - h[i - 1])
    BY <1>10
  <2>3. Apart(f, g, h, n)
    BY <1>9, <1>11, <2>1, <2>2 DEF Apart
  <2> QED
    BY <2>3, CountsCompare
<1>13. f[n] \in Nat /\ f[n + 1] \in Nat /\ f[n + 1] = f[n] + Size(q[n + 1]) /\ Size(q[n + 1]) \in Nat
  BY <1>3, <1>5, SMTT(60)
<1>14. g[n] = f[n + 1] - a
  <2>1. CASE n < at
    <3>1. n + 1 = at /\ h[n] = 0
      BY <1>3, <1>9, <2>1
    <3> QED
      BY <1>7, <1>12, <1>13, <3>1
  <2>2. CASE ~ (n < at)
    <3>1. h[n] = f[n + 1] - f[n] - a
      BY <1>9, <2>2
    <3> QED
      BY <1>7, <1>12, <1>13, <3>1
  <2> QED
    BY <2>1, <2>2
<1> QED
  BY <1>2, <1>5, <1>6, <1>7, <1>14

-----------------------------------------------------------------------------
(* The realtime send queue: what its operations do to a queue *)

\* What travels: a fragment of a frame names its place among its count.
Datagram == {d \in [flow : Flows, seq : Nat, index : Nat, count : Nat, offset : Nat, len : Nat] :
                d.index < d.count}

Group == [flow : Flows, seq : Nat, deadline : Int, datagrams : Seq(Datagram) \ {<<>>}]

\* A queue that PendingFits would accept under a limit.
QueueFits(queue, limit) ==
    /\ queue \in Seq(Group)
    /\ \A i \in 1 .. Len(queue) : \A j \in 1 .. Len(queue[i].datagrams) :
          queue[i].datagrams[j].len <= limit
    /\ Len(queue) <= MaxFlows
    /\ \A i, j \in 1 .. Len(queue) : queue[i].flow = queue[j].flow => i = j

\* The parts of a pending group.
LEMMA GroupFacts ==
    ASSUME NEW g \in Group
    PROVE  /\ g.flow \in Flows /\ g.seq \in Nat /\ g.deadline \in Int
           /\ g.datagrams \in Seq(Datagram) /\ Size(g) \in Nat /\ Size(g) >= 1
<1>1. g.flow \in Flows /\ g.seq \in Nat /\ g.deadline \in Int /\ g.datagrams \in Seq(Datagram) /\ g.datagrams # <<>>
  BY DEF Group
<1>2. PICK s \in Seq(Datagram) : s = g.datagrams /\ s # <<>>
  BY <1>1
<1>3. Len(s) \in Nat /\ Len(s) >= 1
  <2> HIDE DEF Datagram
  <2> QED
    BY <1>2
<1> QED
  BY <1>1, <1>2, <1>3 DEF Size

\* Every group has a size.
LEMMA GroupSizes == \A g \in Group : Size(g) \in Nat
  BY GroupFacts

\* The count of a queue of groups.
LEMMA QueueCount ==
    ASSUME NEW q \in Seq(Group)
    PROVE  CountIn(q) \in Nat
<1>1. Sized(q)
  <2> HIDE DEF Group, Size
  <2>1. Len(q) \in Nat /\ \A i \in 1 .. Len(q) : q[i] \in Group
    OBVIOUS
  <2> QED
    BY <2>1, GroupSizes DEF Sized
<1> QED
  BY <1>1, CountNat

\* What retain leaves of a queue: some of its groups, each once.
LEMMA PickedQueue ==
    ASSUME NEW q, NEW limit, QueueFits(q, limit), NEW t \in Seq(Group), NEW K,
           PickedFrom(t, q, K, Len(q))
    PROVE  /\ QueueFits(t, limit)
           /\ \A i \in 1 .. Len(t) : \E j \in K \cap (1 .. Len(q)) : t[i] = q[j]
<1>0. PICK n \in Nat, m \in Nat : n = Len(q) /\ m = Len(t)
  BY DEF QueueFits
<1>1. PICK pos \in [1 .. m -> K \cap 1 .. n] :
         /\ \A i, j \in 1 .. m : pos[i] = pos[j] => i = j
         /\ \A i \in 1 .. m : t[i] = q[pos[i]]
  BY <1>0 DEF PickedFrom
<1>2. \A i \in 1 .. m : pos[i] \in K /\ pos[i] \in 1 .. n
  BY <1>1
<1>3. m <= n
  <2>1. pos \in [1 .. m -> 1 .. n]
    BY <1>1, <1>2
  <2>2. pos \in Injection(1 .. m, 1 .. n)
    BY <1>1, <2>1 DEF Injection, IsInjective
  <2>3. /\ IsFiniteSet(1 .. n) /\ Cardinality(1 .. n) = n
        /\ IsFiniteSet(1 .. m) /\ Cardinality(1 .. m) = m
    BY FS_Interval
  <2>4. Cardinality(1 .. m) <= Cardinality(1 .. n)
    BY <2>2, <2>3, FS_Injection
  <2> QED
    BY <2>3, <2>4
<1>4. Len(t) <= MaxFlows
  BY <1>0, <1>3, RealtimeAssumption DEF QueueFits
<1>5. ASSUME NEW i \in 1 .. m PROVE \A j \in 1 .. Len(t[i].datagrams) : t[i].datagrams[j].len <= limit
  <2>1. PICK k \in 1 .. n : k = pos[i] /\ t[i] = q[k]
    BY <1>1, <1>2
  <2> QED
    BY <1>0, <2>1 DEF QueueFits
<1>6. ASSUME NEW i \in 1 .. m, NEW j \in 1 .. m, t[i].flow = t[j].flow PROVE i = j
  <2>1. pos[i] = pos[j]
    BY <1>0, <1>1, <1>2, <1>6 DEF QueueFits
  <2> QED
    BY <1>1, <2>1
<1>7. \A i \in 1 .. Len(t) : \E j \in K \cap (1 .. Len(q)) : t[i] = q[j]
  BY <1>0, <1>1, <1>2
<1>8. QueueFits(t, limit)
  BY <1>0, <1>4, <1>5, <1>6 DEF QueueFits
<1> QED
  BY <1>7, <1>8

\* expire: the groups left are those that are not expired.
LEMMA ExpiredFacts ==
    ASSUME NEW q, NEW limit, QueueFits(q, limit), NEW now
    PROVE  QueueFits(Expired(q, now), limit)
<1>0. PICK n \in Nat : n = Len(q) /\ q \in Seq(Group)
  BY DEF QueueFits
<1>1. PICK K : K = {i \in 0 .. n : ~ (q[i].deadline <= now)}
  OBVIOUS
<1> DEFINE IsIt(f) == f = [i \in 0 .. Len(q) |->
                             IF i = 0 THEN <<>>
                             ELSE IF ~ (q[i].deadline <= now) THEN Append(f[i - 1], q[i])
                             ELSE f[i - 1]]
<1>2. \A f : IsIt(f) => IsFilter(f, q, K, n)
  BY <1>0, <1>1 DEF IsFilter
<1>3. \E f : IsIt(f)
  <2>1. PICK f : IsFilter(f, q, K, n)
    BY FilterExists
  <2>2. IsIt(f)
    BY <1>0, <1>1, <2>1 DEF IsFilter
  <2> QED
    BY <2>2
<1>4. PICK f : IsIt(f) /\ Expired(q, now) = f[n]
  <2> DEFINE c == CHOOSE f : IsIt(f)
  <2>1. IsIt(c)
    BY <1>3
  <2>2. Expired(q, now) = c[Len(q)]
    BY DEF Expired, Without
  <2> HIDE DEF c, IsIt
  <2> QED
    BY <1>0, <2>1, <2>2
<1> HIDE DEF IsIt
<1>5. Expired(q, now) \in Seq(Group) /\ PickedFrom(Expired(q, now), q, K, Len(q))
  BY <1>0, <1>2, <1>4, FilterPicks
<1> QED
  BY <1>5, PickedQueue

\* set_max_payload with a smaller limit: what is left fits it.
LEMMA FitLimitFacts ==
    ASSUME NEW q, NEW limit, QueueFits(q, limit), NEW smaller \in Nat
    PROVE  QueueFits(FitLimit(q, smaller), smaller)
<1> DEFINE TooLarge(g) == \E i \in DOMAIN g.datagrams : g.datagrams[i].len > smaller
<1>0. PICK n \in Nat : n = Len(q) /\ q \in Seq(Group)
  BY DEF QueueFits
<1>1. PICK K : K = {i \in 0 .. n : ~ TooLarge(q[i])}
  OBVIOUS
<1> DEFINE IsIt(f) == f = [i \in 0 .. Len(q) |->
                             IF i = 0 THEN <<>>
                             ELSE IF ~ TooLarge(q[i]) THEN Append(f[i - 1], q[i])
                             ELSE f[i - 1]]
<1>2. \A f : IsIt(f) => IsFilter(f, q, K, n)
  <2> HIDE DEF TooLarge
  <2> QED
    BY <1>0, <1>1 DEF IsFilter
<1>3. \E f : IsIt(f)
  <2>1. PICK f : IsFilter(f, q, K, n)
    BY FilterExists
  <2>2. IsIt(f)
    <3> HIDE DEF TooLarge
    <3> QED
      BY <1>0, <1>1, <2>1 DEF IsFilter
  <2> HIDE DEF IsIt
  <2> QED
    BY <2>2
<1>4. PICK f : IsIt(f) /\ FitLimit(q, smaller) = f[n]
  <2> DEFINE c == CHOOSE f : IsIt(f)
  <2>1. IsIt(c)
    <3> HIDE DEF TooLarge
    <3> QED
      BY <1>3
  <2>2. FitLimit(q, smaller) = c[Len(q)]
    BY DEF FitLimit, Without
  <2> HIDE DEF c, IsIt
  <2> QED
    BY <1>0, <2>1, <2>2
<1>5. PICK t : t = FitLimit(q, smaller) /\ t \in Seq(Group) /\ PickedFrom(t, q, K, Len(q))
  <2> HIDE DEF IsIt
  <2> QED
    BY <1>0, <1>2, <1>4, FilterPicks
<1> HIDE DEF IsIt
<1>6. QueueFits(t, limit) /\ \A i \in 1 .. Len(t) : \E j \in K \cap (1 .. Len(q)) : t[i] = q[j]
  <2> HIDE DEF TooLarge
  <2> QED
    BY <1>5, PickedQueue
<1>7. \A i \in 1 .. Len(t) : ~ TooLarge(t[i])
  <2> HIDE DEF TooLarge
  <2> QED
    BY <1>1, <1>6
<1>8. ASSUME NEW i \in 1 .. Len(t), NEW j \in 1 .. Len(t[i].datagrams)
      PROVE  t[i].datagrams[j].len <= smaller
  <2>1. PICK s \in Seq(Datagram) : s = t[i].datagrams
    <3>1. t[i] \in Group
      BY <1>5
    <3> QED
      BY <3>1, GroupFacts
  <2>2. j \in DOMAIN s /\ s[j] \in Datagram /\ s[j].len \in Nat
    <3>1. j \in DOMAIN s /\ s[j] \in Datagram
      <4> HIDE DEF Datagram
      <4> QED
        BY <1>8, <2>1
    <3> QED
      BY <3>1 DEF Datagram
  <2>3. ~ (s[j].len > smaller)
    BY <1>7, <1>8, <2>1, <2>2
  <2> QED
    BY <2>1, <2>2, <2>3
<1> QED
  BY <1>5, <1>6, <1>8 DEF QueueFits

\* A congested poll drops the disposable groups and keeps the rest as they were.
LEMMA UndisposedFacts ==
    ASSUME NEW q, NEW limit, QueueFits(q, limit)
    PROVE  QueueFits(Without(q, LAMBDA g : PriorityOf[g.flow] = Disposable), limit)
<1>0. PICK n \in Nat : n = Len(q) /\ q \in Seq(Group)
  BY DEF QueueFits
<1>1. PICK K : K = {i \in 0 .. n : ~ (PriorityOf[q[i].flow] = Disposable)}
  OBVIOUS
<1> DEFINE IsIt(f) == f = [i \in 0 .. Len(q) |->
                             IF i = 0 THEN <<>>
                             ELSE IF ~ (PriorityOf[q[i].flow] = Disposable) THEN Append(f[i - 1], q[i])
                             ELSE f[i - 1]]
           Left == Without(q, LAMBDA g : PriorityOf[g.flow] = Disposable)
<1>2. \A f : IsIt(f) => IsFilter(f, q, K, n)
  BY <1>0, <1>1 DEF IsFilter
<1>3. \E f : IsIt(f)
  <2>1. PICK f : IsFilter(f, q, K, n)
    BY FilterExists
  <2>2. IsIt(f)
    BY <1>0, <1>1, <2>1 DEF IsFilter
  <2> QED
    BY <2>2
<1>4. PICK f : IsIt(f) /\ Left = f[n]
  <2> DEFINE c == CHOOSE f : IsIt(f)
  <2>1. IsIt(c)
    BY <1>3
  <2>2. Left = c[Len(q)]
    BY DEF Without
  <2> HIDE DEF c, IsIt, Left
  <2> QED
    BY <1>0, <2>1, <2>2
<1> HIDE DEF IsIt, Left
<1>5. Left \in Seq(Group) /\ PickedFrom(Left, q, K, Len(q))
  BY <1>0, <1>2, <1>4, FilterPicks
<1>6. QueueFits(Left, limit)
  BY <1>5, PickedQueue
<1> QED
  BY <1>6 DEF Left

\* A group leaves the queue.
LEMMA RemoveGroup ==
    ASSUME NEW q, NEW limit, QueueFits(q, limit), NEW at \in 1 .. Len(q)
    PROVE  LET r == RemoveAt(q, at)
           IN  /\ QueueFits(r, limit) /\ Len(r) = Len(q) - 1 /\ Len(r) < MaxFlows
               /\ CountIn(r) = CountIn(q) - Size(q[at])
               /\ \A i \in 1 .. Len(r) : \E j \in 1 .. Len(q) : j # at /\ r[i] = q[j]
<1>0. PICK n \in Nat : n = Len(q) /\ q \in Seq(Group)
  BY DEF QueueFits
<1>1. PICK r : /\ r = RemoveAt(q, at) /\ r \in Seq(Group) /\ Len(r) = n - 1
               /\ \A i \in 1 .. n - 1 : r[i] = IF i < at THEN q[i] ELSE q[i + 1]
  BY <1>0, RemoveAtFacts
<1>2. \A i \in 1 .. n - 1 : \E j \in 1 .. n : /\ j # at /\ r[i] = q[j]
                                             /\ j = IF i < at THEN i ELSE i + 1
  <2> TAKE i \in 1 .. n - 1
  <2>1. CASE i < at
    <3>1. i \in 1 .. n /\ i # at /\ r[i] = q[i]
      BY <1>1, <2>1
    <3> QED
      BY <2>1, <3>1
  <2>2. CASE ~ (i < at)
    <3>1. i + 1 \in 1 .. n /\ i + 1 # at /\ r[i] = q[i + 1]
      BY <1>1, <2>2
    <3> QED
      BY <2>2, <3>1
  <2> QED
    BY <2>1, <2>2
<1>3. ASSUME NEW i \in 1 .. n - 1 PROVE \A j \in 1 .. Len(r[i].datagrams) : r[i].datagrams[j].len <= limit
  <2>1. PICK k \in 1 .. n : r[i] = q[k]
    BY <1>2
  <2> QED
    BY <1>0, <2>1 DEF QueueFits
<1>4. ASSUME NEW i \in 1 .. n - 1, NEW j \in 1 .. n - 1, r[i].flow = r[j].flow PROVE i = j
  <2>1. PICK k \in 1 .. n : r[i] = q[k] /\ k = IF i < at THEN i ELSE i + 1
    BY <1>2
  <2>2. PICK l \in 1 .. n : r[j] = q[l] /\ l = IF j < at THEN j ELSE j + 1
    BY <1>2
  <2>3. k = l
    BY <1>0, <1>4, <2>1, <2>2 DEF QueueFits
  <2>4. at \in Nat /\ i \in Nat /\ j \in Nat /\ (IF i < at THEN i ELSE i + 1) = IF j < at THEN j ELSE j + 1
    BY <1>0, <2>1, <2>2, <2>3
  <2> QED
    BY <2>4
<1>5. Len(r) < MaxFlows /\ Len(r) <= MaxFlows
  BY <1>0, <1>1, RealtimeAssumption DEF QueueFits
<1>6. QueueFits(r, limit)
  BY <1>1, <1>3, <1>4, <1>5 DEF QueueFits
<1>7. CountIn(r) = CountIn(q) - Size(q[at])
  BY <1>0, <1>1, GroupSizes, CountRemove
<1> QED
  BY <1>0, <1>1, <1>2, <1>5, <1>6, <1>7

\* A group is put at the end.
LEMMA AppendGroup ==
    ASSUME NEW q, NEW limit, QueueFits(q, limit), Len(q) < MaxFlows, NEW d \in Datagram,
           d.len <= limit, NEW deadline \in Int,
           \A i \in 1 .. Len(q) : q[i].flow # d.flow
    PROVE  /\ QueueFits(NewGroup(q, d, deadline), limit)
           /\ CountIn(NewGroup(q, d, deadline)) = CountIn(q) + 1
<1>0. PICK n \in Nat : n = Len(q) /\ q \in Seq(Group)
  BY DEF QueueFits
<1>1. PICK g : g = [flow |-> d.flow, seq |-> d.seq, deadline |-> deadline, datagrams |-> <<d>>]
  OBVIOUS
<1>2. <<d>> \in Seq(Datagram) /\ Len(<<d>>) = 1 /\ <<d>>[1] = d /\ <<d>> # <<>>
  <2> HIDE DEF Datagram
  <2> QED
    OBVIOUS
<1>3. g \in Group /\ g.datagrams = <<d>> /\ g.flow = d.flow
  <2>1. d.flow \in Flows /\ d.seq \in Nat
    BY DEF Datagram
  <2> HIDE DEF Datagram
  <2> QED
    BY <1>1, <1>2, <2>1 DEF Group
<1>4. PICK r : /\ r = Append(q, g) /\ r \in Seq(Group) /\ Len(r) = n + 1 /\ r[n + 1] = g
               /\ \A i \in 1 .. n : r[i] = q[i]
  <2> HIDE DEF Group
  <2>1. /\ Append(q, g) \in Seq(Group) /\ Len(Append(q, g)) = n + 1 /\ Append(q, g)[n + 1] = g
        /\ \A i \in 1 .. n : Append(q, g)[i] = q[i]
    BY <1>0, <1>3
  <2> QED
    BY <2>1
<1>5. r = NewGroup(q, d, deadline)
  BY <1>1, <1>4 DEF NewGroup
<1>6. CountIn(r) = CountIn(q) + 1
  <2>1. Size(g) = 1
    BY <1>2, <1>3 DEF Size
  <2>2. CountIn(Append(q, g)) = CountIn(q) + Size(g)
    BY <1>0, <1>3, GroupSizes, CountAppend
  <2> QED
    BY <1>4, <2>1, <2>2
<1>7. ASSUME NEW i \in 1 .. n + 1 PROVE \A j \in 1 .. Len(r[i].datagrams) : r[i].datagrams[j].len <= limit
  <2>1. CASE i = n + 1
    BY <1>2, <1>3, <1>4, <2>1
  <2>2. CASE i # n + 1
    <3>1. i \in 1 .. n /\ r[i] = q[i]
      BY <1>4, <2>2
    <3> QED
      BY <1>0, <3>1 DEF QueueFits
  <2> QED
    BY <2>1, <2>2
<1>8. ASSUME NEW i \in 1 .. n + 1, NEW j \in 1 .. n + 1, r[i].flow = r[j].flow PROVE i = j
  <2>1. CASE i = n + 1 /\ j # n + 1
    BY <1>0, <1>3, <1>4, <1>8, <2>1
  <2>2. CASE i # n + 1 /\ j = n + 1
    BY <1>0, <1>3, <1>4, <1>8, <2>2
  <2>3. CASE i # n + 1 /\ j # n + 1
    BY <1>0, <1>4, <1>8, <2>3 DEF QueueFits
  <2> QED
    BY <2>1, <2>2, <2>3
<1>9. Len(r) <= MaxFlows
  BY <1>0, <1>4, RealtimeAssumption
<1>10. QueueFits(r, limit)
  BY <1>4, <1>7, <1>8, <1>9 DEF QueueFits
<1> QED
  BY <1>5, <1>6, <1>10

\* One group is put in the place of another of its flow.
LEMMA ReplaceGroup ==
    ASSUME NEW q, NEW limit, QueueFits(q, limit), NEW at \in 1 .. Len(q), NEW g \in Group,
           g.flow = q[at].flow,
           \A j \in 1 .. Len(g.datagrams) : g.datagrams[j].len <= limit
    PROVE  /\ QueueFits([q EXCEPT ![at] = g], limit)
           /\ CountIn([q EXCEPT ![at] = g]) = CountIn(q) - Size(q[at]) + Size(g)
<1>0. PICK n \in Nat : n = Len(q) /\ q \in Seq(Group)
  BY DEF QueueFits
<1>1. PICK r : /\ r = [q EXCEPT ![at] = g] /\ r \in Seq(Group) /\ Len(r) = n /\ r[at] = g
               /\ \A i \in 1 .. n : i # at => r[i] = q[i]
  <2> HIDE DEF Group
  <2>1. LET r == [q EXCEPT ![at] = g]
        IN  /\ r \in Seq(Group) /\ Len(r) = n /\ r[at] = g
            /\ \A i \in 1 .. n : i # at => r[i] = q[i]
    BY <1>0
  <2> QED
    BY <2>1
<1>2. CountIn(r) = CountIn(q) - Size(q[at]) + Size(g)
  <2>1. CountIn(r) = CountIn(q) - Size(q[at]) + Size(r[at])
    <3> HIDE DEF Group, Size
    <3>1. Len(r) = Len(q) /\ \A i \in 1 .. Len(q) : i # at => r[i] = q[i]
      BY <1>0, <1>1
    <3>2. q \in Seq(Group) /\ r \in Seq(Group)
      BY <1>0, <1>1
    <3> QED
      BY <3>1, <3>2, GroupSizes, CountReplace
  <2> QED
    BY <1>1, <2>1
<1>3. \A i \in 1 .. n : r[i].flow = q[i].flow
  BY <1>1
<1>4. ASSUME NEW i \in 1 .. n PROVE \A j \in 1 .. Len(r[i].datagrams) : r[i].datagrams[j].len <= limit
  <2>1. CASE i = at
    BY <1>1, <2>1
  <2>2. CASE i # at
    <3>1. r[i] = q[i]
      BY <1>1, <2>2
    <3> QED
      BY <1>0, <3>1 DEF QueueFits
  <2> QED
    BY <2>1, <2>2
<1>5. QueueFits(r, limit)
  BY <1>0, <1>1, <1>3, <1>4 DEF QueueFits
<1> QED
  BY <1>1, <1>2, <1>5

\* append to the group of the same sequence, or drop it when it overflows.
LEMMA AppendToGroupFacts ==
    ASSUME NEW q, NEW limit, QueueFits(q, limit), NEW at \in 1 .. Len(q), NEW d \in Datagram,
           d.len <= limit, NEW deadline \in Int
    PROVE  LET out == AppendToGroup(q, at, d, deadline)
           IN  /\ QueueFits(out.queue, limit) /\ out.counted \in Nat
               /\ out.result \in {"congested", "queued"}
               /\ CountIn(out.queue) = CountIn(q) + 1 - out.counted
<1>0. PICK g \in Group : g = q[at] /\ q \in Seq(Group)
  BY DEF QueueFits
<1>1. CountIn(q) \in Nat /\ Size(g) \in Nat
  BY <1>0, QueueCount, GroupFacts
<1>2. CASE Len(q[at].datagrams) >= MaxGroup \/ SumLen(q[at].datagrams) + d.len > MaxGroupBytes
  <2>1. AppendToGroup(q, at, d, deadline)
          = [queue |-> RemoveAt(q, at), result |-> "congested", counted |-> Size(g) + 1]
    BY <1>0, <1>2, Zenon DEF AppendToGroup, Outcome, Size
  <2>2. QueueFits(RemoveAt(q, at), limit) /\ CountIn(RemoveAt(q, at)) = CountIn(q) - Size(g)
    BY <1>0, RemoveGroup
  <2>3. CountIn(RemoveAt(q, at)) = CountIn(q) + 1 - (Size(g) + 1)
    BY <1>1, <2>2
  <2> QED
    BY <1>1, <2>1, <2>2, <2>3
<1>3. CASE ~ (Len(q[at].datagrams) >= MaxGroup \/ SumLen(q[at].datagrams) + d.len > MaxGroupBytes)
  <2>1. PICK s \in Seq(Datagram) : s = g.datagrams
    BY GroupFacts
  <2>2. PICK t : /\ t = Append(s, d) /\ t \in Seq(Datagram) /\ t # <<>> /\ Len(t) = Len(s) + 1
                 /\ \A j \in 1 .. Len(t) : t[j] = d \/ (j \in 1 .. Len(s) /\ t[j] = s[j])
    <3> HIDE DEF Datagram
    <3>1. PICK n \in Nat : n = Len(s)
      OBVIOUS
    <3>2. /\ Append(s, d) \in Seq(Datagram) /\ Append(s, d) # <<>> /\ Len(Append(s, d)) = n + 1
          /\ Append(s, d)[n + 1] = d /\ \A j \in 1 .. n : Append(s, d)[j] = s[j]
      BY <3>1
    <3>3. \A j \in 1 .. n + 1 : j = n + 1 \/ j \in 1 .. n
      OBVIOUS
    <3>4. PICK t : /\ t = Append(s, d) /\ t \in Seq(Datagram) /\ t # <<>> /\ Len(t) = n + 1
                   /\ t[n + 1] = d /\ \A j \in 1 .. n : t[j] = s[j]
      BY <3>2
    <3>5. \A j \in 1 .. n + 1 : t[j] = d \/ (j \in 1 .. n /\ t[j] = s[j])
      BY <3>3, <3>4
    <3> QED
      <4>1. Len(t) = Len(s) + 1 /\ \A j \in 1 .. Len(t) : t[j] = d \/ (j \in 1 .. Len(s) /\ t[j] = s[j])
        BY <3>1, <3>4, <3>5
      <4> QED
        BY <3>4, <4>1
  <2>3. PICK last \in Int : last = IF deadline < g.deadline THEN deadline ELSE g.deadline
    BY GroupFacts
  <2>4. PICK h : h = [g EXCEPT !.datagrams = t, !.deadline = last]
    OBVIOUS
  <2>5. h \in Group /\ h.flow = g.flow /\ h.datagrams = t
    <3> HIDE DEF Datagram
    <3> QED
      BY <2>2, <2>3, <2>4 DEF Group
  <2>6. [q EXCEPT ![at].datagrams = Append(@, d),
                  ![at].deadline = IF deadline < @ THEN deadline ELSE @] = [q EXCEPT ![at] = h]
    <3> HIDE DEF Datagram, Group
    <3>1. at \in DOMAIN q
      BY <1>0
    <3> QED
      BY <1>0, <2>1, <2>2, <2>3, <2>4, <3>1
  <2>7. AppendToGroup(q, at, d, deadline) = [queue |-> [q EXCEPT ![at] = h], result |-> "queued", counted |-> 0]
    BY <1>3, <2>6, Zenon DEF AppendToGroup, Outcome
  <2>8. \A j \in 1 .. Len(h.datagrams) : h.datagrams[j].len <= limit
    <3>1. \A j \in 1 .. Len(s) : s[j].len <= limit
      BY <1>0, <2>1 DEF QueueFits
    <3> QED
      BY <2>2, <2>5, <3>1
  <2>9. Size(h) = Size(g) + 1
    BY <2>1, <2>2, <2>5 DEF Size
  <2>10. QueueFits([q EXCEPT ![at] = h], limit) /\ CountIn([q EXCEPT ![at] = h]) = CountIn(q) - Size(g) + Size(h)
    <3>1. h.flow = q[at].flow
      BY <1>0, <2>5
    <3> QED
      BY <1>0, <2>5, <2>8, <3>1, ReplaceGroup
  <2>11. CountIn([q EXCEPT ![at] = h]) = CountIn(q) + 1 - 0
    BY <1>1, <2>9, <2>10
  <2> QED
    BY <2>7, <2>10, <2>11
<1> QED
  BY <1>2, <1>3

\* evict_lower_priority: the queue itself, or the queue without one of its groups.
LEMMA EvictFacts ==
    ASSUME NEW q \in Seq(Group), NEW priority
    PROVE  Evict(q, priority) = q \/ \E at \in 1 .. Len(q) : Evict(q, priority) = RemoveAt(q, at)
<1> DEFINE Prio(i) == PriorityOf[q[i].flow]
           lower   == {i \in DOMAIN q : Prio(i) > priority}
           Best(i) == \A j \in lower : Prio(i) > Prio(j) \/ (Prio(i) = Prio(j) /\ i <= j)
<1>1. Evict(q, priority) = IF lower = {} THEN q ELSE RemoveAt(q, CHOOSE i \in lower : Best(i))
  BY Zenon DEF Evict
<1>2. DOMAIN q = 1 .. Len(q) /\ Len(q) \in Nat /\ \A i \in DOMAIN q : q[i] \in Group
  <2> HIDE DEF Group
  <2> QED
    OBVIOUS
<1>3. \A i \in DOMAIN q : Prio(i) \in 0 .. 3 /\ i \in Nat
  <2> TAKE i \in DOMAIN q
  <2>1. q[i].flow \in Flows /\ i \in Nat
    BY <1>2, GroupFacts
  <2> QED
    BY <2>1, RealtimeAssumption DEF Disposable
<1>4. lower \subseteq DOMAIN q
  OBVIOUS
<1> HIDE DEF lower, Prio
<1>5. ASSUME lower # {} PROVE \E i \in lower : Best(i)
  <2> DEFINE S == {3 - Prio(i) : i \in lower}
  <2>1. S \in SUBSET Nat /\ S # {}
    BY <1>3, <1>4, <1>5
  <2>2. PICK p \in S : \A m \in S : p <= m
    <3> HIDE DEF S
    <3> QED
      BY <2>1, LeastElement
  <2> DEFINE T == {i \in lower : 3 - Prio(i) = p}
  <2>3. T \in SUBSET Nat /\ T # {}
    BY <1>3, <1>4, <2>2
  <2>4. PICK i \in T : \A m \in T : i <= m
    <3> HIDE DEF T
    <3> QED
      BY <2>3, LeastElement
  <2>5. i \in lower /\ 3 - Prio(i) = p
    BY <2>4
  <2>6. ASSUME NEW j \in lower PROVE Prio(i) > Prio(j) \/ (Prio(i) = Prio(j) /\ i <= j)
    <3>1. Prio(i) \in 0 .. 3 /\ Prio(j) \in 0 .. 3 /\ p <= 3 - Prio(j)
      BY <1>3, <1>4, <2>2, <2>5
    <3>2. CASE 3 - Prio(j) = p
      <4>1. i <= j
        BY <2>4, <3>2
      <4> QED
        BY <2>5, <3>1, <3>2, <4>1
    <3>3. CASE 3 - Prio(j) # p
      <4>1. PICK a \in 0 .. 3, b \in 0 .. 3 : a = Prio(i) /\ b = Prio(j)
        BY <3>1
      <4>2. 3 - a = p /\ p <= 3 - b /\ 3 - b # p
        BY <2>5, <3>1, <3>3, <4>1
      <4>3. a > b
        BY <4>2
      <4> QED
        BY <4>1, <4>3
    <3> QED
      BY <3>2, <3>3
  <2> QED
    BY <2>5, <2>6
<1> HIDE DEF Best
<1>6. CASE lower = {}
  BY <1>1, <1>6
<1>7. CASE lower # {}
  <2>1. PICK at : at = CHOOSE i \in lower : Best(i)
    OBVIOUS
  <2>2. at \in lower
    BY <1>5, <1>7, <2>1
  <2> QED
    BY <1>1, <1>2, <1>4, <1>7, <2>1, <2>2
<1> QED
  BY <1>6, <1>7

\* enqueue: the queue stays within its limits, and what it gained is the datagram it was
\* offered less what the telemetry counted.
LEMMA EnqueueFacts ==
    ASSUME NEW q, NEW limit, QueueFits(q, limit), NEW d \in Datagram,
           d.len <= limit, NEW deadline \in Int
    PROVE  LET out == Enqueue(q, d, deadline)
           IN  /\ QueueFits(out.queue, limit)
               /\ out.counted \in Int
               /\ out.result \in {"congested", "queued", "replaced"}
               /\ CountIn(out.queue) = CountIn(q) + 1 - out.counted
<1> DEFINE own == {i \in DOMAIN q : q[i].flow = d.flow}
           at  == CHOOSE i \in own : TRUE
           room == IF Len(q) < MaxFlows THEN q ELSE Evict(q, PriorityOf[d.flow])
           out == Enqueue(q, d, deadline)
           Goal == /\ QueueFits(out.queue, limit)
                   /\ out.counted \in Int
                   /\ out.result \in {"congested", "queued", "replaced"}
                   /\ CountIn(out.queue) = CountIn(q) + 1 - out.counted
<1>0. q \in Seq(Group) /\ DOMAIN q = 1 .. Len(q) /\ Len(q) \in Nat /\ CountIn(q) \in Nat
  <2>1. q \in Seq(Group)
    BY DEF QueueFits
  <2>2. DOMAIN q = 1 .. Len(q) /\ Len(q) \in Nat
    <3> HIDE DEF Group
    <3> QED
      BY <2>1
  <2> QED
    BY <2>1, <2>2, QueueCount
<1>1. out = CASE own # {} /\ q[at].seq = d.seq -> AppendToGroup(q, at, d, deadline)
              [] own # {} /\ IsNewer(d.seq, q[at].seq) ->
                   Outcome(NewGroup(RemoveAt(q, at), d, deadline), "replaced", Len(q[at].datagrams))
              [] own # {} -> Outcome(q, "congested", 1)
              [] own = {} /\ Len(room) >= MaxFlows -> Outcome(q, "congested", 1)
              [] OTHER -> Outcome(NewGroup(room, d, deadline), "queued", CountIn(q) - CountIn(room))
  BY DEF Enqueue
<1>2. own # {} => at \in 1 .. Len(q) /\ q[at].flow = d.flow
  BY <1>0
<1>3. own = {} => \A i \in 1 .. Len(q) : q[i].flow # d.flow
  BY <1>0
<1> HIDE DEF own, at, room, out
<1>a. ASSUME out = AppendToGroup(q, at, d, deadline), own # {} PROVE Goal
  <2>1. LET o == AppendToGroup(q, at, d, deadline)
        IN  /\ QueueFits(o.queue, limit) /\ o.counted \in Nat
            /\ o.result \in {"congested", "queued"}
            /\ CountIn(o.queue) = CountIn(q) + 1 - o.counted
    BY <1>2, <1>a, AppendToGroupFacts
  <2> QED
    BY <1>a, <2>1
<1>b. ASSUME out = Outcome(NewGroup(RemoveAt(q, at), d, deadline), "replaced", Len(q[at].datagrams)), own # {}
      PROVE  Goal
  <2>1. PICK r : /\ r = RemoveAt(q, at) /\ QueueFits(r, limit) /\ Len(r) < MaxFlows
                 /\ CountIn(r) = CountIn(q) - Size(q[at])
                 /\ \A i \in 1 .. Len(r) : \E j \in 1 .. Len(q) : j # at /\ r[i] = q[j]
    BY <1>2, <1>b, RemoveGroup, SMTT(60)
  <2>2. \A i \in 1 .. Len(r) : r[i].flow # d.flow
    BY <1>2, <1>b, <2>1 DEF QueueFits
  <2>3. QueueFits(NewGroup(r, d, deadline), limit) /\ CountIn(NewGroup(r, d, deadline)) = CountIn(r) + 1
    BY <2>1, <2>2, AppendGroup
  <2>4. PICK size \in Nat : size = Len(q[at].datagrams) /\ size = Size(q[at])
    <3>1. q[at] \in Group
      BY <1>0, <1>2, <1>b
    <3> QED
      BY <3>1, GroupFacts DEF Size
  <2>5. out = [queue |-> NewGroup(r, d, deadline), result |-> "replaced", counted |-> size]
    BY <1>b, <2>1, <2>4, Zenon DEF Outcome
  <2>6. CountIn(NewGroup(r, d, deadline)) = CountIn(q) + 1 - size
    BY <1>0, <2>1, <2>3, <2>4
  <2> QED
    BY <2>3, <2>5, <2>6
<1>c. ASSUME out = Outcome(q, "congested", 1) PROVE Goal
  BY <1>0, <1>c DEF Outcome
<1>d. ASSUME out = Outcome(NewGroup(room, d, deadline), "queued", CountIn(q) - CountIn(room)),
             own = {}, ~ (Len(room) >= MaxFlows)
      PROVE  Goal
  <2>1. room = q \/ \E i \in 1 .. Len(q) : room = RemoveAt(q, i)
    BY <1>0, EvictFacts DEF room
  <2>2. /\ QueueFits(room, limit) /\ room \in Seq(Group)
        /\ \A i \in 1 .. Len(room) : room[i].flow # d.flow
    <3>1. CASE room = q
      BY <1>0, <1>3, <1>d, <3>1
    <3>2. ASSUME NEW i \in 1 .. Len(q), room = RemoveAt(q, i)
          PROVE  /\ QueueFits(room, limit) /\ room \in Seq(Group)
                 /\ \A k \in 1 .. Len(room) : room[k].flow # d.flow
      <4>1. PICK r : /\ r = RemoveAt(q, i) /\ QueueFits(r, limit)
                     /\ \A k \in 1 .. Len(r) : \E j \in 1 .. Len(q) : j # i /\ r[k] = q[j]
        BY RemoveGroup
      <4>2. \A k \in 1 .. Len(r) : r[k].flow # d.flow
        BY <1>3, <1>d, <4>1
      <4> QED
        BY <3>2, <4>1, <4>2 DEF QueueFits
    <3> QED
      BY <2>1, <3>1, <3>2
  <2>3. Len(room) < MaxFlows /\ CountIn(room) \in Nat
    <3>1. Len(room) \in Nat /\ CountIn(room) \in Nat /\ MaxFlows \in Nat
      BY <2>2, QueueCount, RealtimeAssumption
    <3> QED
      BY <1>d, <3>1
  <2>4. QueueFits(NewGroup(room, d, deadline), limit) /\ CountIn(NewGroup(room, d, deadline)) = CountIn(room) + 1
    BY <2>2, <2>3, AppendGroup
  <2>5. out = [queue |-> NewGroup(room, d, deadline), result |-> "queued", counted |-> CountIn(q) - CountIn(room)]
    BY <1>d, Zenon DEF Outcome
  <2>6. CountIn(NewGroup(room, d, deadline)) = CountIn(q) + 1 - (CountIn(q) - CountIn(room))
    BY <1>0, <2>3, <2>4
  <2>7. CountIn(q) - CountIn(room) \in Int
    BY <1>0, <2>3
  <2> QED
    BY <2>4, <2>5, <2>6, <2>7
<1>4. Goal
  <2>1. \/ out = AppendToGroup(q, at, d, deadline) /\ own # {}
        \/ /\ out = Outcome(NewGroup(RemoveAt(q, at), d, deadline), "replaced", Len(q[at].datagrams))
           /\ own # {}
        \/ out = Outcome(q, "congested", 1)
        \/ /\ out = Outcome(NewGroup(room, d, deadline), "queued", CountIn(q) - CountIn(room))
           /\ own = {} /\ ~ (Len(room) >= MaxFlows)
    BY <1>1
  <2> HIDE DEF Goal
  <2> QED
    BY <1>a, <1>b, <1>c, <1>d, <2>1
<1> QED
  BY <1>4 DEF out

\* pop_flow: the first datagram of one group leaves the queue.
LEMMA PopFlowFacts ==
    ASSUME NEW q, NEW limit, QueueFits(q, limit), NEW at \in 1 .. Len(q)
    PROVE  /\ QueueFits(PopFlow(q, at), limit)
           /\ CountIn(PopFlow(q, at)) = CountIn(q) - 1
           /\ q[at].datagrams[1] \in Datagram
<1>0. PICK g \in Group : g = q[at] /\ q \in Seq(Group)
  BY DEF QueueFits
<1>1. PICK s \in Seq(Datagram) : s = g.datagrams
  BY GroupFacts
<1>2. CountIn(q) \in Nat /\ Len(s) \in Nat /\ Len(s) >= 1 /\ Size(g) = Len(s)
  BY <1>0, <1>1, QueueCount, GroupFacts DEF Size
<1>3. q[at].datagrams[1] \in Datagram
  <2> HIDE DEF Datagram
  <2> QED
    BY <1>0, <1>1, <1>2
<1>4. CASE Len(s) = 1
  <2>1. PopFlow(q, at) = RemoveAt(q, at)
    BY <1>0, <1>1, <1>4 DEF PopFlow
  <2>2. QueueFits(RemoveAt(q, at), limit) /\ CountIn(RemoveAt(q, at)) = CountIn(q) - Size(g)
    BY <1>0, RemoveGroup
  <2> QED
    BY <1>2, <1>3, <1>4, <2>1, <2>2
<1>5. CASE Len(s) # 1
  <2>1. PICK n \in Nat : n = Len(s) /\ n >= 2
    BY <1>2, <1>5
  <2>2. PICK t : /\ t = Tail(s) /\ t \in Seq(Datagram) /\ Len(t) = n - 1 /\ t # <<>>
                 /\ \A j \in 1 .. n - 1 : t[j] = s[j + 1]
    <3> HIDE DEF Datagram
    <3>1. s # <<>>
      BY <2>1
    <3>2. /\ Tail(s) \in Seq(Datagram) /\ Len(Tail(s)) = n - 1
          /\ \A j \in 1 .. n - 1 : Tail(s)[j] = s[j + 1]
      BY <2>1, <3>1
    <3>3. Tail(s) # <<>>
      <4>1. Len(<<>>) = 0 /\ n - 1 # 0
        BY <2>1
      <4> QED
        BY <3>2, <4>1
    <3> QED
      BY <3>2, <3>3
  <2>3. PICK h : h = [g EXCEPT !.datagrams = t]
    OBVIOUS
  <2>4. h \in Group /\ h.flow = g.flow /\ h.datagrams = t
    <3> HIDE DEF Datagram
    <3> QED
      BY <2>2, <2>3 DEF Group
  <2>5. PopFlow(q, at) = [q EXCEPT ![at] = h]
    <3> HIDE DEF Datagram, Group
    <3>1. at \in DOMAIN q
      BY <1>0
    <3>2. [q EXCEPT ![at].datagrams = Tail(@)] = [q EXCEPT ![at] = h]
      BY <1>0, <1>1, <2>2, <2>3, <3>1
    <3> QED
      BY <1>0, <1>1, <1>5, <3>2, Zenon DEF PopFlow
  <2>6. \A j \in 1 .. Len(h.datagrams) : h.datagrams[j].len <= limit
    <3>1. \A j \in 1 .. n : s[j].len <= limit
      BY <1>0, <1>1, <2>1 DEF QueueFits
    <3>2. \A j \in 1 .. n - 1 : j + 1 \in 1 .. n
      OBVIOUS
    <3> QED
      BY <2>2, <2>4, <3>1, <3>2
  <2>7. Size(h) = n - 1
    BY <2>2, <2>4 DEF Size
  <2>8. QueueFits([q EXCEPT ![at] = h], limit) /\ CountIn([q EXCEPT ![at] = h]) = CountIn(q) - Size(g) + Size(h)
    <3>1. h.flow = q[at].flow
      BY <1>0, <2>4
    <3> QED
      BY <1>0, <2>4, <2>6, <3>1, ReplaceGroup
  <2>9. CountIn([q EXCEPT ![at] = h]) = CountIn(q) - 1
    BY <1>2, <2>1, <2>7, <2>8
  <2> QED
    BY <1>3, <2>5, <2>8, <2>9
<1> QED
  BY <1>4, <1>5

-----------------------------------------------------------------------------
(* The realtime path: send and poll calls *)

\* The number of fragments of a frame that is cut into chunks of that size.
CutInto(chunk) == (FrameLen + chunk - 1) \div chunk

Results == {"none", "queued", "replaced", "congested", "expired"}

FrameCall == [kind : {"frame"}, seq : Nat, chunk : Nat \ {0}, index : Nat,
              at : {"enqueue", "refresh", "loop"}, deadline : Int, now : Int, result : Results, sent : Nat]

OtherCall == [kind : {"other"}, flow : Flows, seq : Nat,
              at : {"enqueue", "refresh", "loop"}, deadline : Int, now : Int, result : Results, sent : Nat]

PollCall == [kind : {"poll"}, at : {"refresh", "loop"}, now : Int, result : Results, sent : Nat]

CallTyped(c) ==
    \/ c = NoCall
    \/ c \in FrameCall /\ c.index < CutInto(c.chunk)
    \/ c \in OtherCall
    \/ c \in PollCall

\* The sending side: what the queue holds fits the limit it knows, the telemetry accounts for
\* the rest, and the call in progress is cutting a frame it has not cut to the end.
SenderInv ==
    /\ pathLimit \in PathLimits /\ maxPayload \in Nat
    /\ time \in Nat /\ lastSeq \in Nat
    /\ CallTyped(call)
    /\ QueueFits(groups, maxPayload)
    /\ owed = CountIn(groups)

\* Every fragment of a frame begins inside it.
LEMMA ChunkStarts ==
    ASSUME NEW F \in Nat, NEW c \in Nat, c > 0, NEW i \in Nat, i < (F + c - 1) \div c
    PROVE  i * c < F
<1>1. PICK q \in Int : q = (F + c - 1) \div c
  OBVIOUS
<1>2. c * q <= F + c - 1
  BY <1>1
<1>3. PICK k \in Nat : q = i + 1 + k
  <2>1. q - i - 1 \in Nat /\ q = i + 1 + (q - i - 1)
    BY <1>1
  <2> QED
    BY <2>1
<1>4. c * q = i * c + c + c * k /\ c * k >= 0
  BY <1>3
<1>5. i * c \in Int /\ c * k \in Int
  OBVIOUS
<1> QED
  BY <1>2, <1>4, <1>5

\* What send_fragmented cuts off is a well-formed datagram.
LEMMA FragmentFacts ==
    ASSUME call \in FrameCall, call.index < CutInto(call.chunk)
    PROVE  Fragment(call.index) \in Datagram
<1>1. PICK c \in Nat, i \in Nat, n \in Int :
          /\ c = call.chunk /\ i = call.index /\ n = CutInto(c) /\ c > 0 /\ i < n /\ call.seq \in Nat
  <2>1. call.chunk \in Nat /\ call.chunk > 0 /\ call.index \in Nat /\ call.seq \in Nat
    BY DEF FrameCall
  <2>2. CutInto(call.chunk) \in Int
    BY <2>1, RealtimeAssumption DEF CutInto
  <2> QED
    BY <2>1, <2>2
<1>2. FrameLen \in Nat
  BY RealtimeAssumption
<1>3. i * c < FrameLen
  BY <1>1, <1>2, ChunkStarts DEF CutInto
<1>4. PICK offset \in Nat : offset = i * c
  OBVIOUS
<1>5. PICK len \in Nat : len = IF FrameLen - offset < c THEN FrameLen - offset ELSE c
  <2>1. (IF FrameLen - offset < c THEN FrameLen - offset ELSE c) \in Nat
    BY <1>2, <1>3, <1>4
  <2> QED
    BY <2>1
<1>6. Fragment(call.index)
       = [flow |-> FrameFlow, seq |-> call.seq, index |-> i, count |-> n, offset |-> offset, len |-> len]
  <2>1. Fragments = n
    BY <1>1 DEF Fragments, CutInto
  <2> QED
    BY <1>1, <1>4, <1>5, <2>1 DEF Fragment
<1>7. n \in Nat
  BY <1>1
<1> QED
  BY <1>1, <1>6, <1>7, RealtimeAssumption DEF Datagram

\* So is the datagram of another flow.
LEMMA OtherFacts ==
    ASSUME NEW flow \in Flows, NEW seq \in Nat
    PROVE  Other(flow, seq) \in Datagram
  BY DEF Other, Datagram

\* What the steps of a call change of it.
LEMMA CallMoves ==
    ASSUME NEW c, CallTyped(c), c # NoCall, NEW a \in {"refresh", "loop"}, NEW t \in Int,
           NEW r \in Results, NEW n \in Nat
    PROVE  /\ CallTyped([c EXCEPT !.at = a, !.now = t, !.result = r])
           /\ CallTyped([c EXCEPT !.at = a, !.sent = n, !.result = r])
           /\ CallTyped([c EXCEPT !.sent = n])
           /\ CallTyped([c EXCEPT !.result = r])
           /\ c.result \in Results /\ c.sent \in Nat
<1> HIDE DEF Results
<1>1. CASE c \in FrameCall /\ c.index < CutInto(c.chunk)
  <2> DEFINE Same(e) == e \in FrameCall /\ e.index = c.index /\ e.chunk = c.chunk
  <2>1. Same([c EXCEPT !.at = a, !.now = t, !.result = r])
    BY <1>1, Zenon DEF FrameCall
  <2>2. Same([c EXCEPT !.at = a, !.sent = n, !.result = r])
    BY <1>1, Zenon DEF FrameCall
  <2>3. Same([c EXCEPT !.sent = n])
    BY <1>1, Zenon DEF FrameCall
  <2>4. Same([c EXCEPT !.result = r])
    BY <1>1, Zenon DEF FrameCall
  <2>5. \A e : Same(e) => CallTyped(e)
    BY <1>1, Zenon DEF CallTyped
  <2>6. c.result \in Results /\ c.sent \in Nat
    BY <1>1 DEF FrameCall
  <2> HIDE DEF Same
  <2> QED
    BY <2>1, <2>2, <2>3, <2>4, <2>5, <2>6, Zenon
<1>2. CASE c \in OtherCall
  <2>1. [c EXCEPT !.at = a, !.now = t, !.result = r] \in OtherCall
    BY <1>2, Zenon DEF OtherCall
  <2>2. [c EXCEPT !.at = a, !.sent = n, !.result = r] \in OtherCall
    BY <1>2, Zenon DEF OtherCall
  <2>3. [c EXCEPT !.sent = n] \in OtherCall
    BY <1>2, Zenon DEF OtherCall
  <2>4. [c EXCEPT !.result = r] \in OtherCall
    BY <1>2, Zenon DEF OtherCall
  <2>5. c.result \in Results /\ c.sent \in Nat
    BY <1>2 DEF OtherCall
  <2> QED
    BY <2>1, <2>2, <2>3, <2>4, <2>5, Zenon DEF CallTyped
<1>3. CASE c \in PollCall
  <2>1. [c EXCEPT !.at = a, !.now = t, !.result = r] \in PollCall
    BY <1>3, Zenon DEF PollCall
  <2>2. [c EXCEPT !.at = a, !.sent = n, !.result = r] \in PollCall
    BY <1>3, Zenon DEF PollCall
  <2>3. [c EXCEPT !.sent = n] \in PollCall
    BY <1>3, Zenon DEF PollCall
  <2>4. [c EXCEPT !.result = r] \in PollCall
    BY <1>3, Zenon DEF PollCall
  <2>5. c.result \in Results /\ c.sent \in Nat
    BY <1>3 DEF PollCall
  <2> QED
    BY <2>1, <2>2, <2>3, <2>4, <2>5, Zenon DEF CallTyped
<1> QED
  BY <1>1, <1>2, <1>3 DEF CallTyped

\* refresh_realtime_state: after it the queue fits the limit the path has.
LEMMA RefreshedFits ==
    ASSUME SenderInv
    PROVE  QueueFits(Refreshed, pathLimit)
<1>1. pathLimit \in Nat /\ maxPayload \in Nat /\ QueueFits(groups, maxPayload)
  BY RealtimeAssumption DEF SenderInv
<1>2. CASE pathLimit < maxPayload
  BY <1>1, <1>2, FitLimitFacts DEF Refreshed
<1>3. CASE ~ (pathLimit < maxPayload)
  <2>1. Refreshed = groups
    BY <1>3 DEF Refreshed
  <2>2. groups \in Seq(Group)
    BY <1>1 DEF QueueFits
  <2>3. ASSUME NEW i \in 1 .. Len(groups), NEW j \in 1 .. Len(groups[i].datagrams)
        PROVE  groups[i].datagrams[j].len <= pathLimit
    <3>1. PICK s \in Seq(Datagram) : s = groups[i].datagrams
      BY <2>2, GroupFacts
    <3>2. PICK d \in Datagram : d = s[j]
      <4> HIDE DEF Datagram
      <4> QED
        BY <2>3, <3>1
    <3>3. d.len \in Nat /\ d.len <= maxPayload
      BY <1>1, <2>3, <3>1, <3>2 DEF QueueFits, Datagram
    <3> QED
      BY <1>1, <1>3, <3>1, <3>2, <3>3
  <2> QED
    BY <1>1, <2>1, <2>3 DEF QueueFits
<1> QED
  BY <1>2, <1>3

\* The queue starts empty and within its limits.
LEMMA SenderInit == RealtimeInit => SenderInv
<1> SUFFICES ASSUME RealtimeInit PROVE SenderInv
  OBVIOUS
<1>1. /\ pathLimit \in PathLimits /\ maxPayload \in Nat /\ time \in Nat /\ lastSeq \in Nat
      /\ CallTyped(call) /\ owed = 0 /\ groups = <<>>
  BY RealtimeAssumption DEF RealtimeInit, CallTyped
<1>2. <<>> \in Seq(Group) /\ Len(<<>>) = 0 /\ \A i \in 1 .. Len(<<>>) : FALSE
  <2> HIDE DEF Group
  <2> QED
    OBVIOUS
<1>3. QueueFits(<<>>, maxPayload)
  BY <1>2, RealtimeAssumption DEF QueueFits
<1>4. CountIn(<<>>) = 0
  <2>1. Sized(<<>>)
    BY <1>2 DEF Sized
  <2> QED
    BY <1>2, <2>1, CountNat
<1> QED
  BY <1>1, <1>3, <1>4 DEF SenderInv

\* try_send_latest up to its poll keeps the queue accounted for, whatever became of the datagram.
LEMMA EnqueueStep ==
    ASSUME SenderInv, EnqueueDatagram
    PROVE  SenderInv'
<1>1. /\ pathLimit' = pathLimit /\ time' = time /\ lastSeq' = lastSeq /\ maxPayload' = pathLimit
      /\ call # NoCall /\ call.at = "enqueue" /\ CallTyped(call)
      /\ pathLimit \in PathLimits /\ pathLimit \in Nat /\ time \in Nat /\ lastSeq \in Nat
  BY RealtimeAssumption DEF SenderInv, EnqueueDatagram
<1>2. PICK d : d = IF call.kind = "frame" THEN Fragment(call.index) ELSE Other(call.flow, call.seq)
  OBVIOUS
<1>3. d \in Datagram /\ call.deadline \in Int
  <2>1. CASE call \in FrameCall /\ call.index < CutInto(call.chunk)
    <3>1. call.kind = "frame" /\ call.deadline \in Int
      BY <2>1 DEF FrameCall
    <3> QED
      BY <1>2, <2>1, <3>1, FragmentFacts
  <2>2. CASE call \in OtherCall
    <3>1. call.kind = "other" /\ call.flow \in Flows /\ call.seq \in Nat /\ call.deadline \in Int
      BY <2>2 DEF OtherCall
    <3> QED
      BY <1>2, <3>1, OtherFacts
  <2>3. CASE call \in PollCall
    BY <1>1, <2>3 DEF PollCall
  <2> QED
    BY <1>1, <2>1, <2>2, <2>3 DEF CallTyped
<1>4. PICK base : base = Expired(Refreshed, time) /\ QueueFits(base, pathLimit)
  BY RefreshedFits, ExpiredFacts
<1>5. PICK out : out = Enqueue(base, d, call.deadline)
  OBVIOUS
<1>6. \/ groups' = base /\ call' = NoCall /\ owed' = owed - (CountIn(groups) - CountIn(base))
      \/ /\ groups' = base /\ owed' = owed - (CountIn(groups) - CountIn(base))
         /\ call' = [call EXCEPT !.at = "refresh", !.now = time, !.result = "expired"]
      \/ /\ d.len <= pathLimit
         /\ groups' = out.queue
         /\ owed' = owed + 1 - (CountIn(groups) - CountIn(base)) - out.counted
         /\ call' = [call EXCEPT !.at = "refresh", !.now = time, !.result = out.result]
  <2>1. \/ d.len > pathLimit /\ groups' = base /\ call' = NoCall
           /\ owed' = owed - (CountIn(groups) - CountIn(base))
        \/ /\ d.len <= pathLimit /\ call.deadline <= time
           /\ groups' = base /\ owed' = owed - (CountIn(groups) - CountIn(base))
           /\ call' = [call EXCEPT !.at = "refresh", !.now = time, !.result = "expired"]
        \/ /\ ~ (d.len > pathLimit)
           /\ groups' = out.queue
           /\ owed' = owed + 1 - (CountIn(groups) - CountIn(base)) - out.counted
           /\ call' = [call EXCEPT !.at = "refresh", !.now = time, !.result = out.result]
    BY <1>2, <1>4, <1>5 DEF EnqueueDatagram
  <2>2. d.len \in Nat
    BY <1>3 DEF Datagram
  <2>3. ~ (d.len > pathLimit) => d.len <= pathLimit
    BY <1>1, <2>2
  <2> QED
    BY <2>1, <2>3, Zenon
<1>7. PICK m \in Nat, b \in Nat : m = CountIn(groups) /\ b = CountIn(base) /\ m = owed
  BY <1>4, QueueCount DEF SenderInv, QueueFits
<1>8. \A r \in Results : CallTyped([call EXCEPT !.at = "refresh", !.now = time, !.result = r])
  <2>1. time \in Int /\ "refresh" \in {"refresh", "loop"} /\ 0 \in Nat
    BY <1>1
  <2> QED
    BY <1>1, <2>1, CallMoves
<1>9. ASSUME groups' = base, owed' = owed - (CountIn(groups) - CountIn(base))
      PROVE  QueueFits(groups', maxPayload') /\ owed' = CountIn(groups')
  <2>1. owed' = m - (m - b)
    BY <1>7, <1>9
  <2>2. owed' = b
    BY <2>1
  <2> QED
    BY <1>1, <1>4, <1>7, <1>9, <2>2
<1>10. ASSUME d.len <= pathLimit, groups' = out.queue,
              owed' = owed + 1 - (CountIn(groups) - CountIn(base)) - out.counted
       PROVE  QueueFits(groups', maxPayload') /\ owed' = CountIn(groups') /\ out.result \in Results
  <2>1. /\ QueueFits(out.queue, pathLimit) /\ out.counted \in Int
        /\ out.result \in {"congested", "queued", "replaced"}
        /\ CountIn(out.queue) = CountIn(base) + 1 - out.counted
    BY <1>3, <1>4, <1>5, <1>10, EnqueueFacts
  <2>2. PICK k \in Int : k = out.counted
    BY <2>1
  <2>3. owed' = m + 1 - (m - b) - k /\ CountIn(out.queue) = b + 1 - k
    BY <1>7, <1>10, <2>1, <2>2
  <2>4. owed' = CountIn(out.queue)
    BY <2>3
  <2> QED
    BY <1>1, <1>10, <2>1, <2>4 DEF Results
<1>11. QueueFits(groups', maxPayload') /\ owed' = CountIn(groups') /\ CallTyped(call')
  <2>1. CASE groups' = base /\ call' = NoCall /\ owed' = owed - (CountIn(groups) - CountIn(base))
    BY <1>9, <2>1 DEF CallTyped
  <2>2. CASE /\ groups' = base /\ owed' = owed - (CountIn(groups) - CountIn(base))
             /\ call' = [call EXCEPT !.at = "refresh", !.now = time, !.result = "expired"]
    <3>1. "expired" \in Results
      BY DEF Results
    <3>2. CallTyped(call')
      BY <1>8, <2>2, <3>1
    <3> QED
      BY <1>9, <2>2, <3>2
  <2>3. CASE /\ d.len <= pathLimit
             /\ groups' = out.queue
             /\ owed' = owed + 1 - (CountIn(groups) - CountIn(base)) - out.counted
             /\ call' = [call EXCEPT !.at = "refresh", !.now = time, !.result = out.result]
    <3>1. QueueFits(groups', maxPayload') /\ owed' = CountIn(groups') /\ out.result \in Results
      BY <1>10, <2>3
    <3>2. CallTyped(call')
      BY <1>8, <2>3, <3>1
    <3> QED
      BY <3>1, <3>2
  <2> QED
    BY <1>6, <2>1, <2>2, <2>3
<1> QED
  BY <1>1, <1>11 DEF SenderInv

\* A step that counts what it takes out of the queue leaves the telemetry right.
LEMMA QueueAccounted ==
    ASSUME SenderInv, NEW queue, queue \in Seq(Group), owed' = owed - (CountIn(groups) - CountIn(queue))
    PROVE  owed' = CountIn(queue)
<1>1. PICK m \in Nat, b \in Nat : m = CountIn(groups) /\ b = CountIn(queue) /\ m = owed
  BY QueueCount DEF SenderInv, QueueFits
<1>2. owed' = m - (m - b)
  BY <1>1
<1>3. owed' = b
  BY <1>2
<1> QED
  BY <1>1, <1>3

\* The refresh a poll begins with.
LEMMA PollRefreshStep ==
    ASSUME SenderInv, PollRefresh
    PROVE  SenderInv'
<1>1. /\ pathLimit' = pathLimit /\ time' = time /\ lastSeq' = lastSeq /\ maxPayload' = pathLimit
      /\ call # NoCall /\ CallTyped(call)
      /\ pathLimit \in PathLimits /\ pathLimit \in Nat /\ time \in Nat /\ lastSeq \in Nat
  BY RealtimeAssumption DEF SenderInv, PollRefresh
<1>2. PICK base : base = Expired(Refreshed, call.now) /\ QueueFits(base, pathLimit) /\ base \in Seq(Group)
  <2>1. QueueFits(Expired(Refreshed, call.now), pathLimit)
    BY RefreshedFits, ExpiredFacts
  <2>2. \A base : QueueFits(base, pathLimit) => base \in Seq(Group)
    BY DEF QueueFits
  <2> QED
    BY <2>1, <2>2
<1>3. groups' = base /\ owed' = owed - (CountIn(groups) - CountIn(base))
  BY <1>2 DEF PollRefresh
<1>4. CallTyped(call')
  <2>1. PICK r : r = IF LosesFlow(groups, Refreshed) THEN "congested" ELSE call.result
    OBVIOUS
  <2>2. call' = [call EXCEPT !.at = "loop", !.sent = 0, !.result = r]
    BY <2>1, Zenon DEF PollRefresh
  <2>3. "loop" \in {"refresh", "loop"} /\ 0 \in Nat /\ 0 \in Int /\ "congested" \in Results
    BY DEF Results
  <2>4. call.result \in Results
    BY <1>1, <2>3, CallMoves
  <2>5. r \in Results
    BY <2>1, <2>3, <2>4
  <2>6. CallTyped([call EXCEPT !.at = "loop", !.sent = 0, !.result = r])
    BY <1>1, <2>3, <2>5, CallMoves
  <2> QED
    BY <2>2, <2>6
<1>5. owed' = CountIn(base)
  BY <1>2, <1>3, QueueAccounted
<1> QED
  BY <1>1, <1>2, <1>3, <1>4, <1>5 DEF SenderInv

\* A turn that sends, or fails to.
LEMMA PollSendStep ==
    ASSUME SenderInv, PollSend
    PROVE  /\ SenderInv'
           /\ inflight' = inflight \/ \E d \in Datagram : inflight' = inflight \cup {d}
<1>1. /\ pathLimit' = pathLimit /\ time' = time /\ lastSeq' = lastSeq /\ maxPayload' = maxPayload
      /\ call # NoCall /\ CallTyped(call) /\ maxPayload \in Nat /\ QueueFits(groups, maxPayload)
      /\ pathLimit \in PathLimits /\ pathLimit \in Nat /\ time \in Nat /\ lastSeq \in Nat
  BY RealtimeAssumption DEF SenderInv, PollSend
<1>2. PICK i : /\ i \in DOMAIN groups /\ groups' = PopFlow(groups, i) /\ owed' = owed - 1
               /\ \/ /\ inflight' = inflight \cup {groups[i].datagrams[1]}
                     /\ call' = [call EXCEPT !.sent = @ + 1]
                  \/ call' = NoCall /\ inflight' = inflight
  <2>1. PICK available \in PathLimits \cup {1} : \E i \in Fitting(groups, available) :
            /\ groups' = PopFlow(groups, i) /\ owed' = owed - 1
            /\ \/ /\ inflight' = inflight \cup {groups[i].datagrams[1]}
                  /\ call' = [call EXCEPT !.sent = @ + 1]
               \/ call' = NoCall /\ inflight' = inflight
    BY DEF PollSend
  <2>2. \A i \in Fitting(groups, available) : i \in DOMAIN groups
    BY DEF Fitting
  <2> QED
    BY <2>1, <2>2
<1>3. i \in 1 .. Len(groups)
  BY <1>1, <1>2 DEF QueueFits
<1>4. /\ QueueFits(PopFlow(groups, i), maxPayload)
      /\ CountIn(PopFlow(groups, i)) = CountIn(groups) - 1
      /\ groups[i].datagrams[1] \in Datagram
  BY <1>1, <1>3, PopFlowFacts
<1>5. CallTyped(call')
  <2>1. CASE call' = NoCall
    BY <2>1 DEF CallTyped
  <2>2. CASE call' = [call EXCEPT !.sent = @ + 1]
    <3>1. "loop" \in {"refresh", "loop"} /\ 0 \in Nat /\ 0 \in Int /\ "congested" \in Results
      BY DEF Results
    <3>2. call.sent \in Nat
      BY <1>1, <3>1, CallMoves
    <3>3. call.sent + 1 \in Nat
      BY <3>2
    <3>4. CallTyped([call EXCEPT !.sent = call.sent + 1])
      BY <1>1, <3>1, <3>3, CallMoves
    <3> QED
      BY <2>2, <3>4
  <2> QED
    BY <1>2, <2>1, <2>2
<1>6. owed' = CountIn(groups')
  BY <1>2, <1>4 DEF SenderInv
<1> QED
  BY <1>1, <1>2, <1>4, <1>5, <1>6 DEF SenderInv

\* A turn in which nothing fits.
LEMMA PollCongestedStep ==
    ASSUME SenderInv, PollCongested
    PROVE  SenderInv'
<1>1. /\ pathLimit' = pathLimit /\ time' = time /\ lastSeq' = lastSeq /\ maxPayload' = maxPayload
      /\ call # NoCall /\ CallTyped(call) /\ maxPayload \in Nat /\ QueueFits(groups, maxPayload)
      /\ pathLimit \in PathLimits /\ pathLimit \in Nat /\ time \in Nat /\ lastSeq \in Nat
  BY RealtimeAssumption DEF SenderInv, PollCongested
<1>2. PICK left : /\ left = Without(groups, LAMBDA g : PriorityOf[g.flow] = Disposable)
                  /\ QueueFits(left, maxPayload) /\ left \in Seq(Group)
  BY <1>1, UndisposedFacts DEF QueueFits
<1>3. groups' = left /\ owed' = owed - (CountIn(groups) - CountIn(groups'))
  BY <1>2 DEF PollCongested
<1>4. CallTyped(call')
  <2>1. PICK r : r = IF LosesFlow(groups, groups') THEN "congested" ELSE call.result
    OBVIOUS
  <2>2. call' = [call EXCEPT !.result = r]
    BY <2>1, Zenon DEF PollCongested
  <2>3. "loop" \in {"refresh", "loop"} /\ 0 \in Nat /\ 0 \in Int /\ "congested" \in Results
    BY DEF Results
  <2>4. call.result \in Results
    BY <1>1, <2>3, CallMoves
  <2>5. r \in Results
    BY <2>1, <2>3, <2>4
  <2>6. CallTyped([call EXCEPT !.result = r])
    BY <1>1, <2>3, <2>5, CallMoves
  <2> QED
    BY <2>2, <2>6
<1>5. owed' = CountIn(left)
  BY <1>2, <1>3, QueueAccounted
<1> QED
  BY <1>1, <1>2, <1>3, <1>4, <1>5 DEF SenderInv

\* send_fragmented goes on only while a fragment is left.
LEMMA NextFragment ==
    ASSUME NEW c \in FrameCall, c.index + 1 < CutInto(c.chunk)
    PROVE  CallTyped([c EXCEPT !.index = @ + 1, !.at = "enqueue"])
<1>1. PICK k \in Nat : k = c.index + 1
  <2>1. c.index + 1 \in Nat
    BY DEF FrameCall
  <2> QED
    BY <2>1
<1>2. PICK e : e = [c EXCEPT !.index = k, !.at = "enqueue"]
  OBVIOUS
<1>3. e \in FrameCall /\ e.index = k /\ e.chunk = c.chunk
  BY <1>2, Zenon DEF FrameCall
<1>4. CallTyped(e)
  BY <1>1, <1>3, Zenon DEF CallTyped
<1> QED
  BY <1>1, <1>2, <1>4

\* The poll returns.
LEMMA PollReturnStep ==
    ASSUME SenderInv, PollReturn
    PROVE  SenderInv'
<1>1. CallTyped(call')
  <2>1. CASE call' = NoCall
    BY <2>1 DEF CallTyped
  <2>2. CASE call' # NoCall
    <3>1. /\ call # NoCall /\ call.kind = "frame" /\ call.index + 1 < Fragments
          /\ call' = [call EXCEPT !.index = @ + 1, !.at = "enqueue"]
      BY <2>2 DEF PollReturn
    <3>2. call \in FrameCall
      BY <3>1 DEF SenderInv, CallTyped, OtherCall, PollCall
    <3>3. call.index + 1 < CutInto(call.chunk)
      BY <3>1 DEF Fragments, CutInto
    <3> QED
      BY <3>1, <3>2, <3>3, NextFragment
  <2> QED
    BY <2>1, <2>2
<1> QED
  BY <1>1 DEF SenderInv, PollReturn

\* The queue is cleared.
LEMMA ClearStep ==
    ASSUME SenderInv, ClearPending
    PROVE  SenderInv'
<1>1. groups' = <<>> /\ owed' = owed - CountIn(groups) /\ owed = CountIn(groups) /\ owed \in Nat
  BY QueueCount DEF SenderInv, ClearPending, QueueFits
<1>2. <<>> \in Seq(Group) /\ Len(<<>>) = 0 /\ \A i \in 1 .. Len(<<>>) : FALSE
  <2> HIDE DEF Group
  <2> QED
    OBVIOUS
<1>3. QueueFits(<<>>, maxPayload)
  BY <1>2, RealtimeAssumption DEF QueueFits
<1>4. CountIn(<<>>) = 0
  <2>1. Sized(<<>>)
    BY <1>2 DEF Sized
  <2> QED
    BY <1>2, <2>1, CountNat
<1>5. owed' = 0
  BY <1>1
<1> QED
  BY <1>1, <1>3, <1>4, <1>5 DEF SenderInv, ClearPending

\* A frame has at least one fragment.
LEMMA FirstFragment ==
    ASSUME NEW chunk \in Nat, chunk > 0
    PROVE  0 < CutInto(chunk)
<1>1. FrameLen \in Nat /\ FrameLen >= 1
  BY RealtimeAssumption
<1>2. PICK q \in Int : q = CutInto(chunk)
  BY <1>1 DEF CutInto
<1>3. FrameLen + chunk - 1 < chunk * q + chunk
  BY <1>1, <1>2 DEF CutInto
<1>4. chunk * q \in Int /\ chunk * q > 0
  BY <1>1, <1>3
<1>5. q > 0
  BY <1>4
<1> QED
  BY <1>2, <1>5

\* A call begins.
LEMMA StartCallStep ==
    ASSUME SenderInv,
           \/ \E seq \in 1 .. MaxFrames : SendFrame(seq)
           \/ \E flow \in Flows \ {FrameFlow} : SendOther(flow)
           \/ StartPoll
    PROVE  SenderInv'
<1>0. /\ pathLimit \in Nat /\ pathLimit > 0 /\ time \in Nat /\ lastSeq \in Nat
      /\ time + TimeToSend \in Int /\ "none" \in Results
  BY RealtimeAssumption DEF SenderInv, Results
<1>1. ASSUME NEW seq \in 1 .. MaxFrames, SendFrame(seq) PROVE SenderInv'
  <2>1. seq \in Nat /\ lastSeq' = seq
    BY <1>1, RealtimeAssumption DEF SendFrame
  <2>2. PICK c : c = [kind |-> "frame", seq |-> seq, chunk |-> pathLimit, index |-> 0, at |-> "enqueue",
                      deadline |-> time + TimeToSend, now |-> time, result |-> "none", sent |-> 0]
    OBVIOUS
  <2>3. c \in FrameCall /\ c.index = 0 /\ c.chunk = pathLimit
    BY <1>0, <2>1, <2>2 DEF FrameCall
  <2>4. CallTyped(c)
    BY <1>0, <2>3, FirstFragment DEF CallTyped
  <2>5. call' = c
    BY <1>1, <2>2 DEF SendFrame
  <2> QED
    BY <1>1, <2>1, <2>4, <2>5 DEF SenderInv, SendFrame
<1>2. ASSUME NEW flow \in Flows \ {FrameFlow}, SendOther(flow) PROVE SenderInv'
  <2>1. PICK c : c = [kind |-> "other", flow |-> flow, seq |-> lastSeq + 1, at |-> "enqueue",
                      deadline |-> time + TimeToSend, now |-> time, result |-> "none", sent |-> 0]
    OBVIOUS
  <2>2. c \in OtherCall
    BY <1>0, <2>1 DEF OtherCall
  <2>3. CallTyped(c)
    BY <2>2 DEF CallTyped
  <2>4. call' = c
    BY <1>2, <2>1 DEF SendOther
  <2> QED
    BY <1>2, <2>3, <2>4 DEF SenderInv, SendOther
<1>3. ASSUME StartPoll PROVE SenderInv'
  <2>1. PICK c : c = [kind |-> "poll", at |-> "refresh", now |-> time, result |-> "none", sent |-> 0]
    OBVIOUS
  <2>2. c \in PollCall
    BY <1>0, <2>1 DEF PollCall
  <2>3. CallTyped(c)
    BY <2>2 DEF CallTyped
  <2>4. call' = c
    BY <1>3, <2>1 DEF StartPoll
  <2> QED
    BY <1>3, <2>3, <2>4 DEF SenderInv, StartPoll
<1> QED
  BY <1>1, <1>2, <1>3

\* The sending side keeps its invariant through every step.
LEMMA SenderStep == SenderInv /\ [RealtimeNext]_realtimeVars => SenderInv'
<1> SUFFICES ASSUME SenderInv, [RealtimeNext]_realtimeVars PROVE SenderInv'
  OBVIOUS
<1>1. CASE UNCHANGED realtimeVars
  BY <1>1 DEF SenderInv, realtimeVars
<1>2. CASE PathChanges
  BY <1>2 DEF SenderInv, PathChanges
<1>3. CASE TimePasses
  BY <1>3 DEF SenderInv, TimePasses
<1>4. CASE \E d \in inflight : Arrive(d)
  BY <1>4 DEF SenderInv, Arrive
<1>5. CASE Receive
  BY <1>5 DEF SenderInv, Receive
<1> QED
  BY <1>1, <1>2, <1>3, <1>4, <1>5, EnqueueStep, PollRefreshStep, PollSendStep, PollCongestedStep,
     PollReturnStep, ClearStep, StartCallStep DEF RealtimeNext

-----------------------------------------------------------------------------
(* The realtime path: reassembly *)

\* The ranges of a reassembly: every slot is empty or holds an offset and a length.
Slots(count) == [0 .. (count - 1) -> {NoCall} \cup (Nat \X Nat)]

AssemblyTyped(a) ==
    /\ a.seq \in Nat /\ a.count \in Nat
    /\ a = [seq |-> a.seq, count |-> a.count, slots |-> a.slots]
    /\ a.slots \in Slots(a.count)

\* The receiving side: every datagram on its way names a fragment of its frame, and the
\* frames handed on are whole and in order.
ReceiverInv ==
    /\ inflight \subseteq Datagram /\ delivered \in Seq(Datagram)
    /\ lastCompleted \in Nat
    /\ assembly # NoCall => AssemblyTyped(assembly)
    /\ completed \in Seq(Nat \X SUBSET Nat)
    /\ \A i \in 1 .. Len(completed) : completed[i][1] <= lastCompleted
    /\ FramesAreWhole

\* Ranges that begin where the one before ended cover the frame, and nothing else.
LEMMA RangesCover ==
    ASSUME NEW a, NEW n \in Nat, n > 0, a.count = n, a.slots \in [0 .. n - 1 -> Nat \X Nat], Finishes(a)
    PROVE  Written(a) = 0 .. (FrameLen - 1)
<1> DEFINE Low(k) == a.slots[k][1]
           High(k) == a.slots[k][1] + a.slots[k][2]
<1>0. DOMAIN a.slots = 0 .. n - 1 /\ FrameLen \in Nat
      /\ \A k \in 0 .. n - 1 : Low(k) \in Nat /\ High(k) \in Nat /\ Low(k) <= High(k)
  <2>1. ASSUME NEW k \in 0 .. n - 1 PROVE Low(k) \in Nat /\ High(k) \in Nat /\ Low(k) <= High(k)
    <3>1. PICK x \in Nat, y \in Nat : a.slots[k] = <<x, y>>
      BY <2>1
    <3> QED
      BY <3>1
  <2> QED
    BY <2>1, RealtimeAssumption
<1>1. PICK order \in [1 .. n -> 0 .. n - 1] :
          /\ \A k \in 0 .. n - 1 : \E i \in 1 .. n : order[i] = k
          /\ \A i \in 1 .. n : Low(order[i]) = IF i = 1 THEN 0 ELSE High(order[i - 1])
          /\ High(order[n]) = FrameLen
  BY <1>0 DEF Finishes
<1>2. PICK start \in [1 .. n -> Nat], end \in [1 .. n -> Nat] :
          \A i \in 1 .. n : start[i] = Low(order[i]) /\ end[i] = High(order[i]) /\ start[i] <= end[i]
  <2> DEFINE s == [i \in 1 .. n |-> Low(order[i])]
             e == [i \in 1 .. n |-> High(order[i])]
  <2> HIDE DEF Low, High
  <2>1. s \in [1 .. n -> Nat] /\ e \in [1 .. n -> Nat]
    BY <1>0, <1>1
  <2>2. \A i \in 1 .. n : s[i] = Low(order[i]) /\ e[i] = High(order[i]) /\ s[i] <= e[i]
    BY <1>0, <1>1
  <2> HIDE DEF s, e
  <2> QED
    BY <2>1, <2>2
<1>3. /\ \A i \in 1 .. n : start[i] = IF i = 1 THEN 0 ELSE end[i - 1]
      /\ end[n] = FrameLen
  <2> HIDE DEF Low, High
  <2>1. ASSUME NEW i \in 1 .. n PROVE start[i] = IF i = 1 THEN 0 ELSE end[i - 1]
    <3>1. i # 1 => i - 1 \in 1 .. n
      OBVIOUS
    <3> QED
      BY <1>1, <1>2, <3>1
  <2> QED
    BY <1>1, <1>2, <2>1
<1>4. \A x : x \in Written(a) <=> \E k \in 0 .. n - 1 : x \in Low(k) .. (High(k) - 1)
  <2> DEFINE Upto(k) == a.slots[k][1] + a.slots[k][2] - 1
  <2>1. Written(a) = UNION {Low(k) .. Upto(k) : k \in DOMAIN a.slots}
    BY Zenon DEF Written
  <2>2. ASSUME NEW k \in 0 .. n - 1 PROVE Upto(k) = High(k) - 1
    <3>1. PICK x \in Nat, y \in Nat : a.slots[k] = <<x, y>>
      BY <2>2
    <3> QED
      BY <3>1
  <2> HIDE DEF Low, High, Upto
  <2> QED
    BY <1>0, <2>1, <2>2
<1>5. \A i \in 1 .. n : end[i] <= FrameLen
  <2> DEFINE T == {m \in Nat : \E i \in 1 .. n : m = n - i /\ end[i] > FrameLen}
  <2> SUFFICES ASSUME T # {} PROVE FALSE
    <3>1. ASSUME NEW i \in 1 .. n, ~ (end[i] <= FrameLen) PROVE n - i \in T
      <4>1. end[i] > FrameLen /\ n - i \in Nat
        BY <1>0, <1>2, <3>1
      <4> QED
        BY <4>1
    <3> QED
      BY <3>1
  <2>1. T \in SUBSET Nat
    OBVIOUS
  <2>2. PICK m \in T : \A k \in T : m <= k
    <3> HIDE DEF T
    <3> QED
      BY <2>1, LeastElement
  <2>3. PICK i \in 1 .. n : end[i] > FrameLen /\ m = n - i
    BY <2>2
  <2>4. i # n
    BY <1>0, <1>3, <2>3
  <2>5. i + 1 \in 1 .. n /\ i + 1 # 1 /\ (i + 1) - 1 = i
    BY <2>4
  <2>6. start[i + 1] = end[i] /\ start[i + 1] <= end[i + 1] /\ end[i] \in Nat /\ end[i + 1] \in Nat
    BY <1>2, <1>3, <2>5
  <2>7. end[i + 1] > FrameLen
    <3>1. PICK p \in Nat, r \in Nat : p = end[i] /\ r = end[i + 1]
      BY <2>6
    <3>2. p <= r /\ p > FrameLen
      BY <2>3, <2>6, <3>1
    <3>3. r > FrameLen
      BY <1>0, <3>2
    <3> QED
      BY <3>1, <3>3
  <2>8. n - (i + 1) \in T /\ n - (i + 1) < n - i
    <3>1. n - (i + 1) \in Nat /\ n - (i + 1) < n - i
      BY <2>5
    <3> QED
      BY <2>5, <2>7, <3>1
  <2> QED
    <3>1. n - i <= n - (i + 1)
      BY <2>2, <2>3, <2>8
    <3> QED
      BY <2>3, <3>1
<1>6. ASSUME NEW x \in Written(a) PROVE x \in 0 .. (FrameLen - 1)
  <2>1. PICK k \in 0 .. n - 1 : x \in Low(k) .. (High(k) - 1)
    BY <1>4, <1>6
  <2>2. PICK i \in 1 .. n : order[i] = k
    BY <1>1
  <2>3. High(k) <= FrameLen /\ High(k) \in Nat /\ Low(k) \in Nat
    <3> HIDE DEF Low, High
    <3> QED
      BY <1>0, <1>2, <1>5, <2>1, <2>2
  <2> HIDE DEF Low, High
  <2> QED
    BY <1>0, <2>1, <2>3
<1>7. ASSUME NEW x \in 0 .. (FrameLen - 1) PROVE x \in Written(a)
  <2> DEFINE T == {i \in 1 .. n : x < end[i]}
  <2>1. n \in T
    BY <1>0, <1>3
  <2>2. T \in SUBSET Nat
    OBVIOUS
  <2>3. PICK i \in T : \A m \in T : i <= m
    <3> HIDE DEF T
    <3> QED
      BY <2>1, <2>2, LeastElement
  <2>4. i \in 1 .. n /\ x < end[i]
    BY <2>3
  <2>5. start[i] <= x
    <3>1. CASE i = 1
      BY <1>0, <1>3, <2>4, <3>1
    <3>2. CASE i # 1
      <4>1. i - 1 \in 1 .. n /\ ~ (i <= i - 1)
        BY <2>4, <3>2
      <4>2. ~ (x < end[i - 1])
        BY <2>3, <4>1
      <4>3. end[i - 1] \in Nat /\ start[i] = end[i - 1] /\ x \in Int
        BY <1>0, <1>2, <1>3, <2>4, <3>2, <4>1
      <4> QED
        BY <4>2, <4>3
    <3> QED
      BY <3>1, <3>2
  <2>6. PICK k \in 0 .. n - 1 : k = order[i]
    BY <1>1, <2>4
  <2>7. Low(k) <= x /\ x < High(k) /\ Low(k) \in Nat /\ High(k) \in Nat /\ x \in Int
    <3> HIDE DEF Low, High
    <3> QED
      BY <1>0, <1>2, <2>4, <2>5, <2>6
  <2> HIDE DEF Low, High
  <2>8. x \in Low(k) .. (High(k) - 1)
    BY <2>7
  <2> QED
    BY <1>4, <2>8
<1> QED
  BY <1>6, <1>7

\* The parts of a datagram.
LEMMA DatagramFacts ==
    ASSUME NEW d \in Datagram
    PROVE  /\ d.seq \in Nat /\ d.index \in Nat /\ d.count \in Nat /\ d.index < d.count
           /\ d.offset \in Nat /\ d.len \in Nat
  BY DEF Datagram

\* A reassembly begins with empty slots.
LEMMA StartTyped ==
    ASSUME NEW d \in Datagram
    PROVE  AssemblyTyped(StartAssembly(d))
<1>1. PICK n \in Nat, q \in Nat : n = d.count /\ q = d.seq
  BY DatagramFacts
<1>2. PICK s : s = [i \in 0 .. (n - 1) |-> NoCall]
  OBVIOUS
<1>3. s \in Slots(n)
  BY <1>2 DEF Slots
<1>4. PICK a : a = [seq |-> q, count |-> n, slots |-> s]
  OBVIOUS
<1>5. StartAssembly(d) = a
  BY <1>1, <1>2, <1>4 DEF StartAssembly
<1>6. a.seq = q /\ a.count = n /\ a.slots = s
  BY <1>4
<1>7. AssemblyTyped(a)
  BY <1>3, <1>4, <1>6 DEF AssemblyTyped
<1> QED
  BY <1>5, <1>7

\* Inserting a fragment fills a slot of the reassembly; a reassembly without an empty slot
\* is one of ranges.
LEMMA InsertedTyped ==
    ASSUME NEW d \in Datagram, NEW a, AssemblyTyped(a), Inserts(a, d)
    PROVE  /\ AssemblyTyped(Inserted(a, d))
           /\ Complete(Inserted(a, d)) /\ Finishes(Inserted(a, d))
                => Written(Inserted(a, d)) = 0 .. (FrameLen - 1)
<1>1. PICK n, q, s : /\ n \in Nat /\ q \in Nat /\ s \in Slots(n)
                     /\ a = [seq |-> q, count |-> n, slots |-> s] /\ n = d.count
  <2>1. /\ a.seq \in Nat /\ a.count \in Nat /\ a.slots \in Slots(a.count)
        /\ a = [seq |-> a.seq, count |-> a.count, slots |-> a.slots] /\ d.count = a.count
    BY DEF AssemblyTyped, Inserts
  <2> QED
    BY <2>1
<1>2. d.index \in 0 .. (n - 1) /\ n > 0 /\ d.offset \in Nat /\ d.len \in Nat
  BY <1>1, DatagramFacts
<1>3. PICK t : t = [s EXCEPT ![d.index] = <<d.offset, d.len>>]
  OBVIOUS
<1>4. t \in Slots(n)
  <2>1. PICK V : V = {NoCall} \cup (Nat \X Nat)
    OBVIOUS
  <2>2. <<d.offset, d.len>> \in V /\ s \in [0 .. (n - 1) -> V]
    BY <1>1, <1>2, <2>1 DEF Slots
  <2>3. t \in [0 .. (n - 1) -> V]
    BY <1>2, <1>3, <2>2
  <2> QED
    BY <2>1, <2>3 DEF Slots
<1>5. PICK b : b = [seq |-> q, count |-> n, slots |-> t]
  OBVIOUS
<1>6. Inserted(a, d) = b
  BY <1>1, <1>3, <1>5 DEF Inserted
<1>7. b.seq = q /\ b.count = n /\ b.slots = t
  BY <1>5
<1>8. AssemblyTyped(b)
  BY <1>1, <1>4, <1>5, <1>7 DEF AssemblyTyped
<1>9. ASSUME Complete(b), Finishes(b) PROVE Written(b) = 0 .. (FrameLen - 1)
  <2>1. \A i \in 0 .. (n - 1) : t[i] # NoCall
    BY <1>4, <1>7, <1>9 DEF Complete, Slots
  <2>2. t \in [0 .. n - 1 -> Nat \X Nat]
    BY <1>4, <2>1 DEF Slots
  <2> QED
    BY <1>1, <1>2, <1>7, <1>9, <2>2, RangesCover
<1> QED
  BY <1>6, <1>8, <1>9

\* One more frame handed on.
LEMMA CompletedAppend ==
    ASSUME ReceiverInv, NEW seq \in Nat, seq > lastCompleted, lastCompleted' = seq,
           completed' = Append(completed, <<seq, 0 .. (FrameLen - 1)>>)
    PROVE  /\ completed' \in Seq(Nat \X SUBSET Nat)
           /\ \A i \in 1 .. Len(completed') : completed'[i][1] <= lastCompleted'
           /\ FramesAreWhole'
<1> DEFINE S == Nat \X SUBSET Nat
<1>1. PICK w \in SUBSET Nat : w = 0 .. (FrameLen - 1)
  <2>1. 0 .. (FrameLen - 1) \in SUBSET Nat
    BY RealtimeAssumption
  <2> QED
    BY <2>1
<1>2. PICK e \in S : e = <<seq, w>> /\ e[1] = seq /\ e[2] = w
  <2>1. <<seq, w>> \in S /\ <<seq, w>>[1] = seq /\ <<seq, w>>[2] = w
    OBVIOUS
  <2> QED
    BY <2>1
<1>3. PICK old \in Seq(S), n \in Nat : old = completed /\ n = Len(old) /\ \A i \in 1 .. n : old[i] \in S
  <2>1. completed \in Seq(S)
    BY DEF ReceiverInv
  <2> HIDE DEF S
  <2>2. Len(completed) \in Nat /\ \A i \in 1 .. Len(completed) : completed[i] \in S
    BY <2>1
  <2> QED
    BY <2>1, <2>2
<1>4. PICK new : /\ new = Append(old, e) /\ new \in Seq(S) /\ Len(new) = n + 1 /\ DOMAIN new = 1 .. n + 1
                 /\ new[n + 1] = e /\ \A i \in 1 .. n : new[i] = old[i]
  <2> HIDE DEF S
  <2>1. /\ Append(old, e) \in Seq(S) /\ Len(Append(old, e)) = n + 1 /\ DOMAIN Append(old, e) = 1 .. n + 1
        /\ Append(old, e)[n + 1] = e /\ \A i \in 1 .. n : Append(old, e)[i] = old[i]
    BY <1>3
  <2> QED
    BY <2>1
<1>5. completed' = new
  BY <1>1, <1>2, <1>3, <1>4
<1>6. \A i \in 1 .. n : old[i][1] \in Nat /\ old[i][1] <= lastCompleted /\ lastCompleted \in Nat
  BY <1>3 DEF ReceiverInv
<1>7. \A i \in 1 .. n + 1 : new[i][1] <= seq
  BY <1>2, <1>4, <1>6
<1>8. ASSUME NEW i \in 1 .. n + 1
      PROVE  new[i][2] = 0 .. (FrameLen - 1) /\ (i > 1 => new[i - 1][1] < new[i][1])
  <2>1. CASE i = n + 1
    <3>1. new[i] = e
      BY <1>4, <2>1
    <3>2. ASSUME i > 1 PROVE new[i - 1][1] < seq
      <4>1. i - 1 \in 1 .. n
        BY <2>1, <3>2
      <4> QED
        BY <1>4, <1>6, <4>1
    <3> QED
      BY <1>1, <1>2, <3>1, <3>2
  <2>2. CASE i # n + 1
    <3>1. i \in 1 .. n /\ i \in DOMAIN completed
      BY <1>3, <2>2
    <3>2. old[i][2] = 0 .. (FrameLen - 1) /\ (i > 1 => old[i - 1][1] < old[i][1])
      BY <1>3, <3>1 DEF ReceiverInv, FramesAreWhole
    <3>3. new[i] = old[i] /\ (i > 1 => new[i - 1] = old[i - 1])
      BY <1>4, <3>1
    <3> QED
      BY <3>2, <3>3
  <2> QED
    BY <2>1, <2>2
<1>9. FramesAreWhole'
  BY <1>4, <1>5, <1>8 DEF FramesAreWhole
<1> QED
  BY <1>4, <1>5, <1>7, <1>9

\* Reassembler::push keeps the invariant, whether it drops, stores or completes.
LEMMA ReceiveStep ==
    ASSUME ReceiverInv, Receive
    PROVE  ReceiverInv'
<1>1. PICK d \in Datagram : d = Head(delivered)
  <2>1. delivered \in Seq(Datagram) /\ delivered # <<>>
    BY DEF ReceiverInv, Receive
  <2> HIDE DEF Datagram
  <2> QED
    BY <2>1
<1>2. delivered' \in Seq(Datagram) /\ inflight' = inflight /\ inflight \subseteq Datagram
  <2>1. delivered \in Seq(Datagram) /\ delivered # <<>> /\ delivered' = Tail(delivered) /\ inflight' = inflight
        /\ inflight \subseteq Datagram
    BY DEF ReceiverInv, Receive
  <2> HIDE DEF Datagram
  <2> QED
    BY <2>1
<1>3. PICK a : a = IF assembly # NoCall /\ assembly.seq = d.seq THEN assembly ELSE StartAssembly(d)
  OBVIOUS
<1>4. AssemblyTyped(a)
  BY <1>3, StartTyped DEF ReceiverInv
<1>5. PICK b : b = Inserted(a, d)
  OBVIOUS
<1>6. \/ UNCHANGED <<assembly, lastCompleted, completed>>
      \/ /\ ~ (d.seq <= lastCompleted) /\ Inserts(a, d)
         /\ \/ assembly' = b /\ UNCHANGED <<lastCompleted, completed>>
            \/ /\ Complete(b) /\ assembly' = NoCall /\ lastCompleted' = d.seq
               /\ completed' = IF Finishes(b) THEN Append(completed, <<d.seq, Written(b)>>) ELSE completed
  BY <1>1, <1>3, <1>5, Zenon DEF Receive
<1>7. CASE UNCHANGED <<assembly, lastCompleted, completed>>
  BY <1>2, <1>7 DEF ReceiverInv, FramesAreWhole
<1>8. CASE Inserts(a, d) /\ assembly' = b /\ UNCHANGED <<lastCompleted, completed>>
  <2>1. AssemblyTyped(b)
    BY <1>4, <1>5, <1>8, InsertedTyped
  <2> QED
    BY <1>2, <1>8, <2>1 DEF ReceiverInv, FramesAreWhole
<1>9. ASSUME ~ (d.seq <= lastCompleted), Inserts(a, d), Complete(b), assembly' = NoCall,
             lastCompleted' = d.seq,
             completed' = IF Finishes(b) THEN Append(completed, <<d.seq, Written(b)>>) ELSE completed
      PROVE  ReceiverInv'
  <2>1. d.seq \in Nat /\ lastCompleted \in Nat /\ d.seq > lastCompleted
    <3>1. d.seq \in Nat /\ lastCompleted \in Nat
      BY DatagramFacts DEF ReceiverInv
    <3> QED
      BY <1>9, <3>1
  <2>2. CASE Finishes(b)
    <3>1. Written(b) = 0 .. (FrameLen - 1)
      BY <1>4, <1>5, <1>9, <2>2, InsertedTyped
    <3>2. completed' = Append(completed, <<d.seq, 0 .. (FrameLen - 1)>>)
      BY <1>9, <2>2, <3>1
    <3>3. /\ completed' \in Seq(Nat \X SUBSET Nat)
          /\ \A i \in 1 .. Len(completed') : completed'[i][1] <= lastCompleted'
          /\ FramesAreWhole'
      BY <1>9, <2>1, <3>2, CompletedAppend
    <3> QED
      BY <1>2, <1>9, <2>1, <3>3 DEF ReceiverInv
  <2>3. CASE ~ Finishes(b)
    <3>1. completed' = completed
      BY <1>9, <2>3
    <3>2. \A i \in 1 .. Len(completed) : completed[i][1] <= d.seq
      <4> TAKE i \in 1 .. Len(completed)
      <4>1. completed[i] \in Nat \X SUBSET Nat /\ completed[i][1] <= lastCompleted
        BY DEF ReceiverInv
      <4>2. PICK k \in Nat : k = completed[i][1] /\ k <= lastCompleted
        BY <4>1
      <4> QED
        BY <2>1, <4>2
    <3> QED
      BY <1>2, <1>9, <2>1, <3>1, <3>2 DEF ReceiverInv, FramesAreWhole
  <2> QED
    BY <2>2, <2>3
<1> QED
  BY <1>6, <1>7, <1>8, <1>9

\* DatagramReceiveState::push keeps the invariant, full or not.
LEMMA ArriveStep ==
    ASSUME ReceiverInv, NEW d \in inflight, Arrive(d)
    PROVE  ReceiverInv'
<1>1. /\ d \in Datagram /\ delivered \in Seq(Datagram) /\ inflight' \subseteq Datagram
      /\ UNCHANGED <<assembly, lastCompleted, completed>>
      /\ delivered' = Append(IF Len(delivered) >= DatagramQueueCapacity THEN Tail(delivered) ELSE delivered, d)
  BY DEF ReceiverInv, Arrive
<1>2. delivered' \in Seq(Datagram)
  <2> HIDE DEF Datagram
  <2>1. Len(delivered) >= DatagramQueueCapacity => delivered # <<>>
    BY RealtimeAssumption
  <2>2. Len(delivered) >= DatagramQueueCapacity => Tail(delivered) \in Seq(Datagram)
    BY <1>1, <2>1
  <2>3. PICK rest \in Seq(Datagram) : rest = IF Len(delivered) >= DatagramQueueCapacity THEN Tail(delivered) ELSE delivered
    BY <1>1, <2>2
  <2> QED
    BY <1>1, <2>3
<1> QED
  BY <1>1, <1>2 DEF ReceiverInv, FramesAreWhole

\* The invariant of both sides.
RealtimeInv == SenderInv /\ ReceiverInv

\* It holds at the start.
LEMMA RealtimeInitial == RealtimeInit => RealtimeInv
<1> SUFFICES ASSUME RealtimeInit PROVE RealtimeInv
  OBVIOUS
<1>1. inflight = {} /\ delivered = <<>> /\ assembly = NoCall /\ lastCompleted = 0 /\ completed = <<>>
  BY DEF RealtimeInit
<1>2. delivered \in Seq(Datagram) /\ inflight \subseteq Datagram
  <2> HIDE DEF Datagram
  <2> QED
    BY <1>1
<1>3. completed \in Seq(Nat \X SUBSET Nat) /\ Len(completed) = 0 /\ DOMAIN completed = {}
  BY <1>1
<1> QED
  BY <1>1, <1>2, <1>3, SenderInit DEF RealtimeInv, ReceiverInv, FramesAreWhole

\* It is kept by every step.
LEMMA RealtimeStep == RealtimeInv /\ [RealtimeNext]_realtimeVars => RealtimeInv'
<1> SUFFICES ASSUME SenderInv, ReceiverInv, [RealtimeNext]_realtimeVars PROVE ReceiverInv'
  BY SenderStep DEF RealtimeInv
<1>1. CASE UNCHANGED <<inflight, receiverVars>>
  BY <1>1 DEF ReceiverInv, FramesAreWhole, receiverVars
<1>2. CASE PollSend
  <2>1. \A d \in Datagram : inflight' = inflight \cup {d} => inflight' \subseteq Datagram
    <3> HIDE DEF Datagram
    <3> QED
      BY DEF ReceiverInv
  <2>2. inflight' \subseteq Datagram
    BY <1>2, <2>1, PollSendStep DEF ReceiverInv
  <2>3. UNCHANGED receiverVars
    BY <1>2 DEF PollSend
  <2> QED
    BY <2>2, <2>3 DEF ReceiverInv, FramesAreWhole, receiverVars
<1>3. CASE \E d \in inflight : Arrive(d)
  BY <1>3, ArriveStep
<1>4. CASE Receive
  BY <1>4, ReceiveStep
<1>5. \/ UNCHANGED <<inflight, receiverVars>> \/ PollSend \/ (\E d \in inflight : Arrive(d)) \/ Receive
  <2>1. ASSUME NEW seq \in 1 .. MaxFrames, SendFrame(seq) PROVE UNCHANGED <<inflight, receiverVars>>
    BY <2>1 DEF SendFrame
  <2>2. ASSUME NEW flow \in Flows \ {FrameFlow}, SendOther(flow) PROVE UNCHANGED <<inflight, receiverVars>>
    BY <2>2 DEF SendOther
  <2>3. StartPoll \/ EnqueueDatagram \/ PollRefresh \/ PollCongested => UNCHANGED <<inflight, receiverVars>>
    BY Zenon DEF StartPoll, EnqueueDatagram, PollRefresh, PollCongested
  <2>4. PollReturn \/ ClearPending \/ PathChanges \/ TimePasses => UNCHANGED <<inflight, receiverVars>>
    BY Zenon DEF PollReturn, ClearPending, PathChanges, TimePasses
  <2>5. UNCHANGED realtimeVars => UNCHANGED <<inflight, receiverVars>>
    BY DEF realtimeVars, receiverVars
  <2> QED
    BY <2>1, <2>2, <2>3, <2>4, <2>5 DEF RealtimeNext
<1> QED
  BY <1>1, <1>2, <1>3, <1>4, <1>5

\* The invariant of the realtime path holds for every path limit, frame length, queue size
\* and number of frames (RealtimeSendQueue, Reassembler).
THEOREM RealtimeInvariant == RealtimeSpec => []RealtimeInv
<1> QED
  BY RealtimeInitial, RealtimeStep, PTL DEF RealtimeSpec

\* Every frame the Reassembler hands on is whole and newer than the one before it, however
\* the network loses and reorders its fragments and however often it is sent again, cut
\* differently (Reassembler::push, Reassembly::finish).
THEOREM FramesArriveWhole == RealtimeSpec => []FramesAreWhole
<1>1. RealtimeInv => FramesAreWhole
  BY DEF RealtimeInv, ReceiverInv
<1> QED
  BY <1>1, RealtimeInvariant, PTL

\* The send queue adds up and fits: every datagram offered is pending or accounted for by the
\* telemetry, nothing pending exceeds the limit the queue knows, and there is one group per
\* flow and no more than max_flows (RealtimeSendQueue).
THEOREM SendQueueHolds == RealtimeSpec => []SendQueueConsistent
<1>1. RealtimeInv => SendQueueConsistent
  <2> SUFFICES ASSUME SenderInv PROVE SendQueueConsistent
    BY DEF RealtimeInv
  <2>1. QueueFits(groups, maxPayload) /\ owed = CountIn(groups)
    BY DEF SenderInv
  <2>2. groups \in Seq(Group)
    BY <2>1 DEF QueueFits
  <2>3. DOMAIN groups = 1 .. Len(groups) /\ \A i \in 1 .. Len(groups) : groups[i] \in Group
    <3> HIDE DEF Group
    <3> QED
      BY <2>2
  <2>4. \A i \in 1 .. Len(groups) : DOMAIN groups[i].datagrams = 1 .. Len(groups[i].datagrams)
    <3> TAKE i \in 1 .. Len(groups)
    <3>1. PICK s \in Seq(Datagram) : s = groups[i].datagrams
      BY <2>3, GroupFacts
    <3>2. DOMAIN s = 1 .. Len(s)
      <4> HIDE DEF Datagram
      <4> QED
        OBVIOUS
    <3> QED
      BY <3>1, <3>2
  <2>5. PendingFits
    BY <2>1, <2>3, <2>4 DEF PendingFits, QueueFits
  <2> QED
    BY <2>1, <2>5 DEF SendQueueConsistent, RealtimeAccounted
<1> QED
  BY <1>1, RealtimeInvariant, PTL
=============================================================================
