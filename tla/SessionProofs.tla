--------------------------- MODULE SessionProofs ---------------------------
(***************************************************************************)
(* Machine-checked proofs about the frame multiplexer and the Session that *)
(* owns one, for every value of the constants that the named assumptions   *)
(* allow.  The first part is about Multiplexer alone; the second shows     *)
(* that a session drives its multiplexer only through the multiplexer's    *)
(* own steps, leaves it clean when it ends, keeps the channel map exact    *)
(* and loses no event silently.                                            *)
(***************************************************************************)
EXTENDS Session, DataFacts, FiniteSetTheorems

-----------------------------------------------------------------------------
(* Facts about the operators the model is built from. *)

\* The cost of a frame is at least one, and a longer frame never costs less.
LEMMA CostFacts ==
    ASSUME NEW hint \in 0..255, NEW a \in Nat, NEW b \in Nat, a <= b
    PROVE  /\ SchedulingCost(a, hint) \in Nat
           /\ SchedulingCost(a, hint) >= 1
           /\ SchedulingCost(a, hint) <= SchedulingCost(b, hint)
  <1> DEFINE weight == hint \div BandWidth + 1
             x == MaxOf(a, 1) * 8
             y == MaxOf(b, 1) * 8
  <1>1. weight \in 1..8
    BY DEF BandWidth, PriorityBands
  <1>2. x \in Nat /\ y \in Nat /\ 8 <= x /\ x <= y
    BY DEF MaxOf
  <1>3. /\ SchedulingCost(a, hint) = (x + weight - 1) \div weight
        /\ SchedulingCost(b, hint) = (y + weight - 1) \div weight
    BY DEF SchedulingCost, PriorityBands
  <1> HIDE DEF weight, x, y
  <1>4. /\ (x + weight - 1) \div weight \in Nat
        /\ (x + weight - 1) \div weight >= 1
        /\ (x + weight - 1) \div weight <= (y + weight - 1) \div weight
    <2>1. weight = 1 \/ weight = 2 \/ weight = 3 \/ weight = 4
            \/ weight = 5 \/ weight = 6 \/ weight = 7 \/ weight = 8
      BY <1>1
    <2> QED BY <2>1, <1>2
  <1> QED BY <1>3, <1>4

\* A queue has a frame exactly when its length is positive.
LEMMA NonEmptyLen ==
    ASSUME NEW t \in Seq(Nat)
    PROVE  t # <<>> <=> Len(t) > 0
  BY EmptySeq, LenProperties

\* ready.retain(|r| r != id) takes exactly id away.
LEMMA WithoutSet ==
    ASSUME NEW S, NEW s \in Seq(S), NEW e, IsInjective(s)
    PROVE  /\ Without(s, e) \in Seq(S)
           /\ IsInjective(Without(s, e))
           /\ ToSet(Without(s, e)) = ToSet(s) \ {e}
  <1>1. CASE \E i \in DOMAIN s : s[i] = e
    <2> DEFINE i == CHOOSE j \in DOMAIN s : s[j] = e
    <2>1. i \in 1..Len(s) /\ s[i] = e
      BY <1>1
    <2>2. Without(s, e) = RemoveAt(s, i)
      BY <1>1 DEF Without
    <2> HIDE DEF i
    <2> QED BY <2>1, <2>2, RemoveAtSet
  <1>2. CASE ~ \E i \in DOMAIN s : s[i] = e
    BY <1>2 DEF Without, ToSet
  <1> QED BY <1>1, <1>2

-----------------------------------------------------------------------------
(* What the record updates of the model do to each field of a ChannelState. *)

\* What enqueue changes in a channel and what it keeps.
LEMMA PushedFacts ==
    ASSUME NEW s \in ChannelState, NEW l \in Nat, NEW n \in Nat, NEW f \in Nat
    PROVE  /\ Pushed(s, l, n, f) \in ChannelState
           /\ Pushed(s, l, n, f).config = s.config
           /\ Pushed(s, l, n, f).queue = Append(s.queue, l)
           /\ Pushed(s, l, n, f).cancelled = s.cancelled
           /\ Pushed(s, l, n, f).stream_bytes = n
           /\ Pushed(s, l, n, f).virtual_finish = f
  <1>1. Append(s.queue, l) \in Seq(Nat)
    BY DEF ChannelState
  <1> QED BY <1>1 DEF Pushed, ChannelState

\* What next_outbound changes in a channel and what it keeps.
LEMMA PoppedFacts ==
    ASSUME NEW s \in ChannelState, s.queue # <<>>, NEW f \in Nat
    PROVE  /\ Popped(s, f) \in ChannelState
           /\ Popped(s, f).config = s.config
           /\ Popped(s, f).queue = Tail(s.queue)
           /\ Popped(s, f).cancelled = s.cancelled
           /\ Popped(s, f).stream_bytes = s.stream_bytes
           /\ Popped(s, f).virtual_finish = f
  <1>1. Tail(s.queue) \in Seq(Nat)
    BY DEF ChannelState
  <1> QED BY <1>1 DEF Popped, ChannelState

\* discard_all empties the queue and keeps the rest of the channel.
LEMMA EmptiedFacts ==
    ASSUME NEW s \in ChannelState
    PROVE  /\ Emptied(s) \in ChannelState
           /\ Emptied(s).config = s.config
           /\ Emptied(s).queue = <<>>
           /\ Emptied(s).cancelled = s.cancelled
           /\ Emptied(s).stream_bytes = s.stream_bytes
           /\ Emptied(s).virtual_finish = s.virtual_finish
  <1>1. <<>> \in Seq(Nat)
    OBVIOUS
  <1> QED BY <1>1 DEF Emptied, ChannelState

\* cancel_channel empties the queue, sets the flag and keeps the rest.
LEMMA CancelledFacts ==
    ASSUME NEW s \in ChannelState
    PROVE  /\ Cancelled(s) \in ChannelState
           /\ Cancelled(s).config = s.config
           /\ Cancelled(s).queue = <<>>
           /\ Cancelled(s).cancelled = TRUE
           /\ Cancelled(s).stream_bytes = s.stream_bytes
           /\ Cancelled(s).virtual_finish = s.virtual_finish
  <1>1. <<>> \in Seq(Nat)
    OBVIOUS
  <1> QED BY <1>1 DEF Cancelled, ChannelState

\* The fields of a ChannelState and of its configuration have their types.
LEMMA StateTypes ==
    ASSUME NEW s \in ChannelState
    PROVE  /\ s.config \in ChannelConfig
           /\ s.queue \in Seq(Nat)
           /\ Len(s.queue) \in Nat
           /\ s.stream_bytes \in Nat
           /\ s.virtual_finish \in Nat
           /\ s.config.priority_hint \in 0..255
           /\ s.config.max_frame_bytes \in Nat
           /\ s.config.capacity \in Nat
           /\ s.config.key \in Protocols \X ProtocolChannels
           /\ s.config.max_stream_bytes # NoLimit => s.config.max_stream_bytes \in Nat
  BY DEF ChannelState, ChannelConfig

-----------------------------------------------------------------------------
(* What each action does, in terms of the fields it touches. *)

\* open_channel adds one fresh, idle channel and touches no other.
LEMMA OpenEffect ==
    ASSUME ShapeOK, NEW config \in Configs, OpenChannel(config)
    PROVE  /\ config \in ChannelConfig
           /\ ValidConfig(config)
           /\ config.id \in ChannelIds
           /\ config.id \notin Open \cup retired
           /\ Open' = Open \cup {config.id}
           /\ channels' \in [Open' -> ChannelState]
           /\ \A d \in Open : channels'[d] = channels[d]
           /\ channels'[config.id].config = config
           /\ channels'[config.id].queue = <<>>
           /\ channels'[config.id].cancelled = FALSE
           /\ channels'[config.id].stream_bytes = 0
           /\ channels'[config.id].virtual_finish = virtual_time
           /\ UNCHANGED <<retired, control, ready, virtual_time, total_pending>>
           /\ UNCHANGED <<accepted, delivered, reported, bypass>>
  <1>1. config \in ChannelConfig
    BY InputsAssumption
  <1>2. config.id \in ChannelIds
    BY <1>1 DEF OpenChannel, OpenAdmitted, ValidConfig, ChannelConfig
  <1>3. /\ FreshChannel(config) \in ChannelState
        /\ FreshChannel(config).config = config
        /\ FreshChannel(config).queue = <<>>
        /\ FreshChannel(config).cancelled = FALSE
        /\ FreshChannel(config).stream_bytes = 0
        /\ FreshChannel(config).virtual_finish = virtual_time
    BY <1>1 DEF FreshChannel, ChannelState, ShapeOK
  <1>4. config.id \notin Open \cup retired /\ ValidConfig(config)
    BY DEF OpenChannel, OpenAdmitted
  <1>5. /\ Open' = Open \cup {config.id}
        /\ channels' \in [Open' -> ChannelState]
        /\ \A d \in Open : channels'[d] = channels[d]
        /\ channels'[config.id] = FreshChannel(config)
    BY <1>2, <1>3, <1>4 DEF OpenChannel, Open, ShapeOK
  <1>6. /\ UNCHANGED <<retired, control, ready, virtual_time, total_pending>>
        /\ UNCHANGED <<accepted, delivered, reported, bypass>>
    BY DEF OpenChannel, history
  <1> QED BY <1>1, <1>2, <1>3, <1>4, <1>5, <1>6

\* An accepted enqueue adds one frame to its own channel only.
LEMMA PushEffect ==
    ASSUME ShapeOK, NEW e \in Envelopes, NEW c, c = e.channel_id, c \in Open,
           NEW bytes \in Nat, PushFrame(e, bytes)
    PROVE  /\ e.length \in Nat
           /\ c \in ChannelIds
           /\ FinishOnArrival(c) \in Nat
           /\ Open' = Open
           /\ channels' \in [Open' -> ChannelState]
           /\ \A d \in Open \ {c} : channels'[d] = channels[d]
           /\ channels'[c].config = channels[c].config
           /\ channels'[c].queue = Append(channels[c].queue, e.length)
           /\ channels'[c].cancelled = channels[c].cancelled
           /\ channels'[c].stream_bytes = bytes
           /\ channels'[c].virtual_finish = FinishOnArrival(c)
           /\ UNCHANGED <<keys, retired, control, virtual_time, delivered, reported>>
  <1>1. e.length \in Nat
    BY InputsAssumption
  <1>2. c \in ChannelIds /\ channels[c] \in ChannelState
    BY DEF ShapeOK
  <1>3. FinishOnArrival(c) \in Nat
    BY <1>2, StateTypes DEF FinishOnArrival, MaxOf, ShapeOK
  <1> DEFINE s == channels[c]
             l == e.length
             f == FinishOnArrival(c)
             new == Pushed(s, l, bytes, f)
  <1>4. s \in ChannelState /\ l \in Nat /\ f \in Nat
    BY <1>1, <1>2, <1>3
  <1>5. channels' = [channels EXCEPT ![c] = new]
    BY DEF PushFrame
  <1>6. /\ new \in ChannelState
        /\ new.config = s.config
        /\ new.queue = Append(s.queue, l)
        /\ new.cancelled = s.cancelled
        /\ new.stream_bytes = bytes
        /\ new.virtual_finish = f
    <2> HIDE DEF s, l, f
    <2>1. Pushed(s, l, bytes, f) \in ChannelState
      BY <1>4, PushedFacts
    <2>2. Pushed(s, l, bytes, f).config = s.config
      BY <1>4, PushedFacts
    <2>3. Pushed(s, l, bytes, f).queue = Append(s.queue, l)
      BY <1>4 DEF Pushed, ChannelState
    <2>4. Pushed(s, l, bytes, f).cancelled = s.cancelled
      BY <1>4, PushedFacts
    <2>5. Pushed(s, l, bytes, f).stream_bytes = bytes
      BY <1>4, PushedFacts
    <2>6. Pushed(s, l, bytes, f).virtual_finish = f
      BY <1>4, PushedFacts
    <2> QED BY <2>1, <2>2, <2>3, <2>4, <2>5, <2>6
  <1> HIDE DEF new
  <1>7. /\ Open' = Open
        /\ channels' \in [Open' -> ChannelState]
        /\ \A d \in Open \ {c} : channels'[d] = channels[d]
        /\ channels'[c] = new
    BY <1>2, <1>5, <1>6 DEF Open, ShapeOK
  <1>8. UNCHANGED <<keys, retired, control, virtual_time, delivered, reported>>
    BY DEF PushFrame
  <1> QED BY <1>1, <1>2, <1>3, <1>6, <1>7, <1>8

\* next_outbound takes the head frame of the selected channel and charges
\* that channel only.
LEMMA PopEffect ==
    ASSUME ShapeOK, NEW i \in DOMAIN ready, NEW c, c = ready[i], NextData(i)
    PROVE  /\ i \in 1..Len(ready)
           /\ c \in ChannelIds
           /\ c \in Open
           /\ channels[c].queue # <<>>
           /\ Head(channels[c].queue) \in Nat
           /\ Open' = Open
           /\ channels' \in [Open' -> ChannelState]
           /\ \A d \in Open \ {c} : channels'[d] = channels[d]
           /\ channels'[c].config = channels[c].config
           /\ channels'[c].queue = Tail(channels[c].queue)
           /\ channels'[c].cancelled = channels[c].cancelled
           /\ channels'[c].stream_bytes = channels[c].stream_bytes
           /\ virtual_time' = MaxOf(channels[c].virtual_finish, virtual_time)
           /\ virtual_time' \in Nat
           /\ channels'[c].virtual_finish =
                virtual_time' + SchedulingCost(Head(channels[c].queue),
                                               channels[c].config.priority_hint)
           /\ bypass' = CountBypass(c)
           /\ ready' = ReadyAfterPop(i)
           /\ UNCHANGED <<keys, retired, control, accepted, reported>>
           /\ total_pending' = total_pending - 1
           /\ delivered' = delivered + 1
  <1> DEFINE start == MaxOf(channels[c].virtual_finish, virtual_time)
             cost  == SchedulingCost(Head(channels[c].queue), channels[c].config.priority_hint)
             new   == Popped(channels[c], start + cost)
  <1>1. /\ c \in Open
        /\ channels[c].queue # <<>>
        /\ i \in 1..Len(ready)
    <2>1. Selected(i)
      BY Zenon DEF NextData
    <2>2. i \in Candidates
      BY <2>1, Zenon DEF Selected
    <2>3. c \in Open /\ channels[c].queue # <<>>
      BY <2>2, Zenon DEF Candidates
    <2>4. ready \in Seq(ChannelIds)
      BY Zenon DEF ShapeOK
    <2>5. i \in 1..Len(ready)
      <3> HIDE DEF start, cost, new
      <3> QED BY <2>4
    <2> QED BY <2>3, <2>5, Zenon
  <1>2. c \in ChannelIds /\ channels[c] \in ChannelState
    BY <1>1 DEF ShapeOK
  <1>3. /\ channels[c].queue \in Seq(Nat)
        /\ channels[c].config.priority_hint \in 0..255
        /\ channels[c].virtual_finish \in Nat
    BY <1>2, StateTypes
  <1>4. Head(channels[c].queue) \in Nat
    BY <1>1, <1>3
  <1>5. cost \in Nat
    <2>1. Head(channels[c].queue) <= Head(channels[c].queue)
      BY <1>4
    <2> QED BY <1>3, <1>4, <2>1, CostFacts
  <1>6. start \in Nat
    BY <1>3 DEF MaxOf, ShapeOK
  <1>7. /\ virtual_time' = start
        /\ channels' = [channels EXCEPT ![c] = new]
        /\ bypass' = CountBypass(c)
        /\ ready' = ReadyAfterPop(i)
        /\ UNCHANGED <<keys, retired, control, accepted, reported>>
        /\ total_pending' = total_pending - 1
        /\ delivered' = delivered + 1
    BY Zenon DEF NextData
  <1>8. /\ new \in ChannelState
        /\ new.config = channels[c].config
        /\ new.queue = Tail(channels[c].queue)
        /\ new.cancelled = channels[c].cancelled
        /\ new.stream_bytes = channels[c].stream_bytes
        /\ new.virtual_finish = start + cost
    <2> HIDE DEF start, cost
    <2>1. start + cost \in Nat
      BY <1>5, <1>6
    <2> QED BY <1>1, <1>2, <2>1, PoppedFacts
  <1> HIDE DEF start, cost, new
  <1>9. /\ Open' = Open
        /\ channels' \in [Open' -> ChannelState]
        /\ \A d \in Open \ {c} : channels'[d] = channels[d]
        /\ channels'[c] = new
    BY <1>1, <1>2, <1>7, <1>8 DEF Open, ShapeOK
  <1>10. /\ virtual_time' = MaxOf(channels[c].virtual_finish, virtual_time)
         /\ virtual_time' \in Nat
         /\ new.virtual_finish =
                virtual_time' + SchedulingCost(Head(channels[c].queue),
                                               channels[c].config.priority_hint)
    BY <1>6, <1>7, <1>8 DEF start, cost
  <1> QED BY <1>1, <1>2, <1>4, <1>7, <1>8, <1>9, <1>10, Zenon

\* cancel_channel empties its own channel and forgets it in ready.
LEMMA CancelEffect ==
    ASSUME ShapeOK, NEW c \in ChannelIds, CancelChannel(c)
    PROVE  /\ c \in Open
           /\ Len(channels[c].queue) \in Nat
           /\ Open' = Open
           /\ channels' \in [Open' -> ChannelState]
           /\ \A d \in Open \ {c} : channels'[d] = channels[d]
           /\ channels'[c].config = channels[c].config
           /\ channels'[c].queue = <<>>
           /\ channels'[c].cancelled = TRUE
           /\ channels'[c].stream_bytes = channels[c].stream_bytes
           /\ channels'[c].virtual_finish = channels[c].virtual_finish
           /\ ready' = Without(ready, c)
           /\ total_pending' = total_pending - Len(channels[c].queue)
           /\ reported' = reported + Len(channels[c].queue)
           /\ UNCHANGED <<keys, retired, control, virtual_time>>
           /\ UNCHANGED <<accepted, delivered, bypass>>
  <1>1. /\ c \in Open
        /\ channels[c] \in ChannelState
        /\ Len(channels[c].queue) \in Nat
    BY StateTypes DEF CancelChannel, ShapeOK
  <1> DEFINE new == Cancelled(channels[c])
  <1>2. /\ new \in ChannelState
        /\ new.config = channels[c].config
        /\ new.queue = <<>>
        /\ new.cancelled = TRUE
        /\ new.stream_bytes = channels[c].stream_bytes
        /\ new.virtual_finish = channels[c].virtual_finish
    BY <1>1, CancelledFacts
  <1>3. channels' = [channels EXCEPT ![c] = new]
    BY DEF CancelChannel
  <1> HIDE DEF new
  <1>4. /\ Open' = Open
        /\ channels' \in [Open' -> ChannelState]
        /\ \A d \in Open \ {c} : channels'[d] = channels[d]
        /\ channels'[c] = new
    BY <1>1, <1>2, <1>3 DEF Open, ShapeOK
  <1>5. /\ ready' = Without(ready, c)
        /\ total_pending' = total_pending - Len(channels[c].queue)
        /\ reported' = reported + Len(channels[c].queue)
        /\ UNCHANGED <<keys, retired, control, virtual_time>>
        /\ UNCHANGED <<accepted, delivered, bypass>>
    BY Zenon DEF CancelChannel
  <1> QED BY <1>1, <1>2, <1>4, <1>5, Zenon

\* close_channel removes its own channel and retires the id.
LEMMA CloseEffect ==
    ASSUME ShapeOK, NEW c \in ChannelIds, CloseChannel(c)
    PROVE  /\ c \in Open
           /\ Len(channels[c].queue) \in Nat
           /\ Open' = Open \ {c}
           /\ channels' \in [Open' -> ChannelState]
           /\ \A d \in Open \ {c} : channels'[d] = channels[d]
           /\ ready' = Without(ready, c)
           /\ total_pending' = MaxOf(0, total_pending - Len(channels[c].queue))
           /\ reported' = reported + Len(channels[c].queue)
           /\ retired' = retired \cup {c}
           /\ keys' = KeysWithout(c)
           /\ UNCHANGED <<control, virtual_time, accepted, delivered, bypass>>
  <1>1. c \in Open /\ Len(channels[c].queue) \in Nat
    BY StateTypes DEF CloseChannel, ShapeOK
  <1>2. /\ Open' = Open \ {c}
        /\ channels' \in [Open' -> ChannelState]
        /\ \A d \in Open \ {c} : channels'[d] = channels[d]
    BY DEF CloseChannel, Open, ShapeOK
  <1> QED BY <1>1, <1>2, Zenon DEF CloseChannel

\* discard_all empties every queue and keeps every channel.
LEMMA DiscardEffect ==
    ASSUME ShapeOK, DiscardAll
    PROVE  /\ Open' = Open
           /\ channels' \in [Open' -> ChannelState]
           /\ \A c \in Open : /\ channels'[c].config = channels[c].config
                              /\ channels'[c].queue = <<>>
                              /\ channels'[c].cancelled = channels[c].cancelled
                              /\ channels'[c].stream_bytes = channels[c].stream_bytes
                              /\ channels'[c].virtual_finish = channels[c].virtual_finish
  <1>1. channels' = [c \in Open |-> Emptied(channels[c])]
    BY DEF DiscardAll
  <1>2. \A c \in Open : /\ Emptied(channels[c]) \in ChannelState
                        /\ Emptied(channels[c]).config = channels[c].config
                        /\ Emptied(channels[c]).queue = <<>>
                        /\ Emptied(channels[c]).cancelled = channels[c].cancelled
                        /\ Emptied(channels[c]).stream_bytes = channels[c].stream_bytes
                        /\ Emptied(channels[c]).virtual_finish = channels[c].virtual_finish
    BY EmptiedFacts DEF ShapeOK
  <1>3. Open' = Open
    BY <1>1 DEF Open
  <1>4. \A c \in Open : channels'[c] = Emptied(channels[c])
    BY <1>1
  <1>5. channels' \in [Open' -> ChannelState]
    BY <1>1, <1>2, <1>3
  <1> QED BY <1>2, <1>3, <1>4, <1>5

\* Both ways to enqueue come down to PushFrame on an open channel.
LEMMA EnqueueIsPush ==
    ASSUME ShapeOK, NEW e \in Envelopes, Enqueue(e) \/ EnqueueDiscardable(e)
    PROVE  \E bytes \in Nat : /\ e.channel_id \in Open
                              /\ PushFrame(e, bytes)
  <1>1. e.channel_id \in Open /\ e.length \in Nat
    BY InputsAssumption DEF Enqueue, EnqueueDiscardable, ChannelAdmits
  <1>2. StreamBytesAfter(e) \in Nat /\ channels[e.channel_id].stream_bytes \in Nat
    BY <1>1, StateTypes DEF StreamBytesAfter, ShapeOK
  <1> QED BY <1>1, <1>2 DEF Enqueue, EnqueueDiscardable

-----------------------------------------------------------------------------
(* Types and the ready index. *)

\* Every step preserves the types.
LEMMA ShapeStep ==
    ASSUME ShapeOK, ReadyIndexExact, [Next]_muxVars
    PROVE  ShapeOK'
  <1>1. ASSUME NEW config \in Configs, OpenChannel(config)
        PROVE  ShapeOK'
    <2>1. /\ config \in ChannelConfig
          /\ config.id \in ChannelIds
          /\ Open' = Open \cup {config.id}
          /\ channels' \in [Open' -> ChannelState]
          /\ \A d \in Open : channels'[d] = channels[d]
          /\ channels'[config.id].config = config
          /\ UNCHANGED <<retired, control, ready, virtual_time, total_pending>>
          /\ UNCHANGED <<accepted, delivered, reported, bypass>>
      BY <1>1, OpenEffect
    <2>2. config.key \in Protocols \X ProtocolChannels
      BY <2>1 DEF ChannelConfig
    <2>3. /\ DOMAIN keys' = DOMAIN keys \cup {config.key}
          /\ keys' \in [DOMAIN keys' -> SUBSET ChannelIds]
      BY <1>1, <2>1 DEF OpenChannel, KeyIds, ShapeOK
    <2> QED BY <2>1, <2>2, <2>3 DEF ShapeOK
  <1>2. ASSUME NEW length \in ControlLengths, EnqueueControl(length)
        PROVE  ShapeOK'
    <2>1. length \in Nat
      BY InputsAssumption
    <2> QED BY <1>2, <2>1 DEF EnqueueControl, ShapeOK, Open
  <1>3. ASSUME NEW e \in Envelopes, Enqueue(e) \/ EnqueueDiscardable(e)
        PROVE  ShapeOK'
    <2>1. PICK bytes \in Nat : e.channel_id \in Open /\ PushFrame(e, bytes)
      BY <1>3, EnqueueIsPush
    <2>2. PICK c : c = e.channel_id
      OBVIOUS
    <2>3. /\ e.length \in Nat
          /\ c \in ChannelIds
          /\ c \in Open
          /\ Open' = Open
          /\ channels' \in [Open' -> ChannelState]
          /\ \A d \in Open \ {c} : channels'[d] = channels[d]
          /\ channels'[c].config = channels[c].config
          /\ UNCHANGED <<keys, retired, control, virtual_time, delivered, reported>>
      BY <2>1, <2>2, PushEffect
    <2>4. /\ ready' = ReadyOnArrival(c)
          /\ total_pending' = total_pending + 1
          /\ accepted' = accepted + 1
          /\ bypass' = IF channels[c].queue = <<>>
                       THEN [bypass EXCEPT ![c] = NoBypass]
                       ELSE bypass
      BY <2>1, <2>2, Zenon DEF PushFrame
    <2>5. ready' \in Seq(ChannelIds)
      BY <2>3, <2>4 DEF ReadyOnArrival, ShapeOK
    <2>6. bypass' \in [ChannelIds -> [ChannelIds -> Nat]]
      BY <2>3, <2>4 DEF NoBypass, ShapeOK
    <2>7. /\ total_pending' \in Int
          /\ accepted' \in Nat
      <3>1. /\ total_pending \in Int
            /\ accepted \in Nat
        BY Zenon DEF ShapeOK
      <3> QED BY <3>1, <2>4
    <2> QED BY <2>3, <2>5, <2>6, <2>7 DEF ShapeOK
  <1>4. CASE NextControl
    BY <1>4 DEF NextControl, ShapeOK, Open
  <1>5. ASSUME NEW i \in DOMAIN ready, NextData(i)
        PROVE  ShapeOK'
    <2>1. PICK c : c = ready[i]
      OBVIOUS
    <2>2. /\ i \in 1..Len(ready)
          /\ c \in ChannelIds
          /\ c \in Open
          /\ Open' = Open
          /\ channels' \in [Open' -> ChannelState]
          /\ \A d \in Open \ {c} : channels'[d] = channels[d]
          /\ channels'[c].config = channels[c].config
          /\ virtual_time' \in Nat
          /\ bypass' = CountBypass(c)
          /\ ready' = ReadyAfterPop(i)
          /\ UNCHANGED <<keys, retired, control, accepted, reported>>
          /\ total_pending' = total_pending - 1
          /\ delivered' = delivered + 1
      BY <1>5, <2>1, PopEffect
    <2>3. ready' \in Seq(ChannelIds)
      <3>1. RemoveAt(ready, i) \in Seq(ChannelIds)
        BY <2>2, RemoveAtFacts DEF ShapeOK
      <3> QED BY <2>1, <2>2, <3>1 DEF ReadyAfterPop
    <2>4. bypass' \in [ChannelIds -> [ChannelIds -> Nat]]
      <3>1. \A w \in ChannelIds : CountBypass(c)[w] \in [ChannelIds -> Nat]
        <4> TAKE w \in ChannelIds
        <4>1. bypass[w] \in [ChannelIds -> Nat]
          BY DEF ShapeOK
        <4>2. [bypass[w] EXCEPT ![c] = @ + 1] \in [ChannelIds -> Nat]
          BY <2>2, <4>1
        <4>3. NoBypass \in [ChannelIds -> Nat]
          BY DEF NoBypass
        <4> QED BY <4>1, <4>2, <4>3 DEF CountBypass
      <3>2. CountBypass(c) = [w \in ChannelIds |-> CountBypass(c)[w]]
        BY DEF CountBypass
      <3> QED BY <2>2, <3>1, <3>2
    <2>5. total_pending' \in Int /\ delivered' \in Nat
      <3>1. total_pending' = total_pending - 1 /\ delivered' = delivered + 1
        BY <2>2
      <3>2. total_pending \in Int /\ delivered \in Nat
        BY DEF ShapeOK
      <3> QED BY <3>1, <3>2
    <2>6. \A d \in Open' : channels'[d].config.id = d
      BY <2>2 DEF ShapeOK
    <2> QED BY <2>2, <2>3, <2>4, <2>5, <2>6 DEF ShapeOK
  <1>6. CASE NextNone
    BY <1>6 DEF NextNone, ShapeOK, Open, history
  <1>7. ASSUME NEW c \in ChannelIds, CancelChannel(c)
        PROVE  ShapeOK'
    <2>1. /\ c \in Open
          /\ Len(channels[c].queue) \in Nat
          /\ Open' = Open
          /\ channels' \in [Open' -> ChannelState]
          /\ \A d \in Open \ {c} : channels'[d] = channels[d]
          /\ channels'[c].config = channels[c].config
          /\ ready' = Without(ready, c)
          /\ total_pending' = total_pending - Len(channels[c].queue)
          /\ reported' = reported + Len(channels[c].queue)
          /\ UNCHANGED <<keys, retired, control, virtual_time>>
          /\ UNCHANGED <<accepted, delivered, bypass>>
      BY <1>7, CancelEffect
    <2>2. ready' \in Seq(ChannelIds)
      BY <2>1, WithoutSet DEF ShapeOK, ReadyIndexExact
    <2>3. total_pending' \in Int /\ reported' \in Int
      BY <2>1 DEF ShapeOK
    <2>4. \A d \in Open' : channels'[d].config.id = d
      BY <2>1 DEF ShapeOK
    <2> QED BY <2>1, <2>2, <2>3, <2>4 DEF ShapeOK
  <1>8. ASSUME NEW c \in ChannelIds, CloseChannel(c)
        PROVE  ShapeOK'
    <2>1. /\ c \in Open
          /\ Len(channels[c].queue) \in Nat
          /\ Open' = Open \ {c}
          /\ channels' \in [Open' -> ChannelState]
          /\ \A d \in Open \ {c} : channels'[d] = channels[d]
          /\ ready' = Without(ready, c)
          /\ total_pending' = MaxOf(0, total_pending - Len(channels[c].queue))
          /\ reported' = reported + Len(channels[c].queue)
          /\ retired' = retired \cup {c}
          /\ keys' = KeysWithout(c)
          /\ UNCHANGED <<control, virtual_time, accepted, delivered, bypass>>
      BY <1>8, CloseEffect
    <2>2. ready' \in Seq(ChannelIds)
      BY <2>1, WithoutSet DEF ShapeOK, ReadyIndexExact
    <2>3. /\ DOMAIN keys' \subseteq DOMAIN keys
          /\ keys' \in [DOMAIN keys' -> SUBSET ChannelIds]
      BY <2>1 DEF KeysWithout, KeyIds, ShapeOK
    <2>4. total_pending' \in Int /\ reported' \in Int
      BY <2>1 DEF ShapeOK, MaxOf
    <2>5. /\ \A d \in Open' : channels'[d].config.id = d
          /\ Open' \subseteq ChannelIds
          /\ retired' \subseteq ChannelIds
          /\ DOMAIN keys' \subseteq Protocols \X ProtocolChannels
      BY <2>1, <2>3 DEF ShapeOK
    <2> QED BY <2>1, <2>2, <2>3, <2>4, <2>5 DEF ShapeOK
  <1>9. CASE DiscardAll
    <2>1. /\ Open' = Open
          /\ channels' \in [Open' -> ChannelState]
          /\ \A c \in Open : channels'[c].config = channels[c].config
      BY <1>9, DiscardEffect
    <2>2. \A d \in Open' : channels'[d].config.id = d
      BY <2>1 DEF ShapeOK
    <2> QED BY <1>9, <2>1, <2>2 DEF DiscardAll, ShapeOK
  <1>10. CASE UNCHANGED muxVars
    BY <1>10 DEF muxVars, codeVars, history, ShapeOK, Open
  <1> QED BY <1>1, <1>2, <1>3, <1>4, <1>5, <1>6, <1>7, <1>8, <1>9, <1>10
          DEF Next, NextOutbound

\* Every step keeps ready equal to the set of channels with a frame.
LEMMA ReadyStep ==
    ASSUME ShapeOK, ReadyIndexExact, [Next]_muxVars
    PROVE  ReadyIndexExact'
  <1> DEFINE Busy == {c \in Open : channels[c].queue # <<>>}
  <1>0. /\ ready \in Seq(ChannelIds)
        /\ IsInjective(ready)
        /\ ToSet(ready) = Busy
    BY DEF ShapeOK, ReadyIndexExact
  <1>1. ASSUME NEW config \in Configs, OpenChannel(config)
        PROVE  ReadyIndexExact'
    <2>1. /\ Open' = Open \cup {config.id}
          /\ \A d \in Open : channels'[d] = channels[d]
          /\ channels'[config.id].queue = <<>>
          /\ ready' = ready
      BY <1>1, OpenEffect
    <2>2. Busy' = Busy
      BY <2>1
    <2> QED BY <1>0, <2>1, <2>2 DEF ReadyIndexExact
  <1>2. ASSUME NEW length \in ControlLengths, EnqueueControl(length)
        PROVE  ReadyIndexExact'
    BY <1>2 DEF EnqueueControl, ReadyIndexExact, Open
  <1>3. ASSUME NEW e \in Envelopes, Enqueue(e) \/ EnqueueDiscardable(e)
        PROVE  ReadyIndexExact'
    <2>1. PICK bytes \in Nat : e.channel_id \in Open /\ PushFrame(e, bytes)
      BY <1>3, EnqueueIsPush
    <2>2. PICK c : c = e.channel_id
      OBVIOUS
    <2>3. /\ c \in ChannelIds
          /\ c \in Open
          /\ e.length \in Nat
          /\ Open' = Open
          /\ \A d \in Open \ {c} : channels'[d] = channels[d]
          /\ channels'[c].queue = Append(channels[c].queue, e.length)
      BY <2>1, <2>2, PushEffect
    <2>4. channels'[c].queue # <<>>
      <3>1. channels[c].queue \in Seq(Nat)
        BY <2>3, StateTypes DEF ShapeOK
      <3> QED BY <2>3, <3>1, AppendProperties
    <2>5. Busy' = Busy \cup {c}
      BY <2>3, <2>4
    <2>6. ready' = ReadyOnArrival(c)
      BY <2>1, <2>2 DEF PushFrame
    <2>7. CASE channels[c].queue = <<>>
      <3>1. c \notin ToSet(ready) /\ ready' = Append(ready, c)
        BY <1>0, <2>6, <2>7 DEF ReadyOnArrival
      <3>2. IsInjective(ready') /\ ToSet(ready') = ToSet(ready) \cup {c}
        BY <1>0, <2>3, <3>1, AppendSet
      <3> QED BY <1>0, <2>5, <3>2 DEF ReadyIndexExact
    <2>8. CASE channels[c].queue # <<>>
      <3>1. c \in Busy /\ ready' = ready
        BY <2>3, <2>6, <2>8 DEF ReadyOnArrival
      <3> QED BY <1>0, <2>5, <3>1 DEF ReadyIndexExact
    <2> QED BY <2>7, <2>8
  <1>4. CASE NextControl
    BY <1>4 DEF NextControl, ReadyIndexExact, Open
  <1>5. ASSUME NEW i \in DOMAIN ready, NextData(i)
        PROVE  ReadyIndexExact'
    <2>1. PICK c : c = ready[i]
      OBVIOUS
    <2>2. /\ i \in 1..Len(ready)
          /\ c \in ChannelIds
          /\ c \in Open
          /\ Open' = Open
          /\ channels[c].queue # <<>>
          /\ \A d \in Open \ {c} : channels'[d] = channels[d]
          /\ channels'[c].queue = Tail(channels[c].queue)
          /\ ready' = ReadyAfterPop(i)
      BY <1>5, <2>1, PopEffect
    <2>3. /\ RemoveAt(ready, i) \in Seq(ChannelIds)
          /\ IsInjective(RemoveAt(ready, i))
          /\ ToSet(RemoveAt(ready, i)) = Busy \ {c}
      BY <1>0, <2>1, <2>2, RemoveAtSet
    <2>4. /\ channels[c].queue \in Seq(Nat)
          /\ Len(channels[c].queue) > 1 <=> channels'[c].queue # <<>>
      <3>1. channels[c].queue \in Seq(Nat)
        BY <2>2, StateTypes DEF ShapeOK
      <3>2. PICK q : q = channels[c].queue /\ channels'[c].queue = Tail(q)
        BY <2>2
      <3>3. Tail(q) \in Seq(Nat) /\ Len(Tail(q)) = Len(q) - 1
        BY <2>2, <3>1, <3>2, HeadTailProperties
      <3>4. Tail(q) # <<>> <=> Len(Tail(q)) > 0
        BY <3>3, NonEmptyLen
      <3>5. Len(q) \in Nat
        BY <3>1, <3>2
      <3>6. Len(q) > 1 <=> Len(Tail(q)) > 0
        BY <3>3, <3>5
      <3> QED BY <3>1, <3>2, <3>4, <3>6, Zenon
    <2>5. CASE Len(channels[c].queue) > 1
      <3>1. ready' = Append(RemoveAt(ready, i), c)
        BY <2>1, <2>2, <2>5 DEF ReadyAfterPop
      <3>2. IsInjective(ready') /\ ToSet(ready') = (Busy \ {c}) \cup {c}
        BY <2>2, <2>3, <3>1, AppendSet
      <3>3. Busy' = (Busy \ {c}) \cup {c}
        BY <2>2, <2>4, <2>5
      <3> QED BY <3>2, <3>3 DEF ReadyIndexExact
    <2>6. CASE ~ (Len(channels[c].queue) > 1)
      <3>1. ready' = RemoveAt(ready, i)
        BY <2>1, <2>2, <2>6 DEF ReadyAfterPop
      <3>2. Busy' = Busy \ {c}
        BY <2>2, <2>4, <2>6
      <3> QED BY <2>3, <3>1, <3>2 DEF ReadyIndexExact
    <2> QED BY <2>5, <2>6
  <1>6. CASE NextNone
    <2>1. \A i \in DOMAIN ready : ready[i] \in Busy
      BY <1>0 DEF ToSet
    <2>2. DOMAIN ready = {}
      BY <1>6, <2>1 DEF NextNone, Candidates
    <2>3. ready' = ready
      BY <1>0, <1>6, <2>2 DEF NextNone
    <2> QED BY <1>6, <2>3 DEF NextNone, ReadyIndexExact, Open
  <1>7. ASSUME NEW c \in ChannelIds, CancelChannel(c)
        PROVE  ReadyIndexExact'
    <2>1. /\ Open' = Open
          /\ \A d \in Open \ {c} : channels'[d] = channels[d]
          /\ channels'[c].queue = <<>>
          /\ ready' = Without(ready, c)
      BY <1>7, CancelEffect
    <2>2. IsInjective(ready') /\ ToSet(ready') = Busy \ {c}
      BY <1>0, <2>1, WithoutSet
    <2>3. Busy' = Busy \ {c}
      BY <2>1
    <2> QED BY <2>2, <2>3 DEF ReadyIndexExact
  <1>8. ASSUME NEW c \in ChannelIds, CloseChannel(c)
        PROVE  ReadyIndexExact'
    <2>1. /\ Open' = Open \ {c}
          /\ \A d \in Open \ {c} : channels'[d] = channels[d]
          /\ ready' = Without(ready, c)
      BY <1>8, CloseEffect
    <2>2. IsInjective(ready') /\ ToSet(ready') = Busy \ {c}
      BY <1>0, <2>1, WithoutSet
    <2>3. Busy' = Busy \ {c}
      BY <2>1
    <2> QED BY <2>2, <2>3 DEF ReadyIndexExact
  <1>9. CASE DiscardAll
    <2>1. Open' = Open /\ \A c \in Open : channels'[c].queue = <<>>
      BY <1>9, DiscardEffect
    <2>2. ready' = <<>>
      BY <1>9 DEF DiscardAll
    <2>3. IsInjective(ready') /\ ToSet(ready') = {}
      BY <2>2 DEF IsInjective, ToSet
    <2>4. Busy' = {}
      BY <2>1
    <2> QED BY <2>3, <2>4 DEF ReadyIndexExact
  <1>10. CASE UNCHANGED muxVars
    BY <1>10 DEF muxVars, codeVars, ReadyIndexExact, Open
  <1> QED BY <1>1, <1>2, <1>3, <1>4, <1>5, <1>6, <1>7, <1>8, <1>9, <1>10
          DEF Next, NextOutbound

-----------------------------------------------------------------------------
(* Counting: how the set of slots moves with the queue lengths. *)

\* A slot is a queue and a position within its length.
LEMMA SlotsMember ==
    ASSUME NEW D, NEW L \in [D -> Nat]
    PROVE  \A x : x \in Slots(L) <=> \E c \in D : \E i \in 1..L[c] : x = <<c, i>>
  BY DEF Slots

\* One more frame in one queue is one more slot.
LEMMA SlotsGrow ==
    ASSUME NEW D, NEW L \in [D -> Nat], NEW M \in [D -> Nat], NEW c \in D,
           M[c] = L[c] + 1, \A d \in D \ {c} : M[d] = L[d],
           IsFiniteSet(Slots(L))
    PROVE  /\ IsFiniteSet(Slots(M))
           /\ Cardinality(Slots(M)) = Cardinality(Slots(L)) + 1
  <1> DEFINE new == <<c, M[c]>>
  <1>1. new \notin Slots(L)
    BY SlotsMember
  <1>2. Slots(M) = Slots(L) \cup {new}
    <2>1. ASSUME NEW x \in Slots(M) PROVE x \in Slots(L) \cup {new}
      <3>1. PICK d \in D, i \in Nat : i \in 1..M[d] /\ x = <<d, i>>
        BY SlotsMember
      <3>2. CASE d = c /\ i = M[c]
        BY <3>1, <3>2
      <3>3. CASE ~ (d = c /\ i = M[c])
        <4>1. i \in 1..L[d]
          BY <3>1, <3>3
        <4> QED BY <3>1, <4>1, SlotsMember
      <3> QED BY <3>2, <3>3
    <2>2. ASSUME NEW x \in Slots(L) PROVE x \in Slots(M)
      <3>1. PICK d \in D, i \in Nat : i \in 1..L[d] /\ x = <<d, i>>
        BY SlotsMember
      <3>2. i \in 1..M[d]
        BY <3>1
      <3> QED BY <3>1, <3>2, SlotsMember
    <2>3. new \in Slots(M)
      <3>1. M[c] \in 1..M[c]
        OBVIOUS
      <3> QED BY <3>1, SlotsMember
    <2> QED BY <2>1, <2>2, <2>3
  <1> HIDE DEF new
  <1> QED BY <1>1, <1>2, FS_AddElement

\* Popping the front of a queue takes away its last slot.
LEMMA SlotsShrink ==
    ASSUME NEW D, NEW L \in [D -> Nat], NEW M \in [D -> Nat], NEW c \in D,
           L[c] = M[c] + 1, \A d \in D \ {c} : M[d] = L[d],
           IsFiniteSet(Slots(L))
    PROVE  /\ IsFiniteSet(Slots(M))
           /\ Cardinality(Slots(M)) = Cardinality(Slots(L)) - 1
  <1>1. Slots(M) \in SUBSET Slots(L)
    <2>1. ASSUME NEW x \in Slots(M) PROVE x \in Slots(L)
      <3>1. PICK d \in D, i \in Nat : i \in 1..M[d] /\ x = <<d, i>>
        BY SlotsMember
      <3>2. i \in 1..L[d]
        BY <3>1
      <3> QED BY <3>1, <3>2, SlotsMember
    <2> QED BY <2>1
  <1>2. IsFiniteSet(Slots(M))
    BY <1>1, FS_Subset
  <1>3. Cardinality(Slots(L)) = Cardinality(Slots(M)) + 1
    BY <1>2, SlotsGrow
  <1>4. Cardinality(Slots(M)) \in Nat
    BY <1>2, FS_CardinalityType
  <1> QED BY <1>2, <1>3, <1>4

\* Emptying or removing the queue of c takes away its L[c] slots.
LEMMA SlotsDrop ==
    ASSUME NEW D, NEW L \in [D -> Nat], NEW E, NEW M \in [E -> Nat], NEW c \in D,
           E = D \/ E = D \ {c}, c \in E => M[c] = 0,
           \A d \in D \ {c} : M[d] = L[d],
           IsFiniteSet(Slots(L))
    PROVE  /\ IsFiniteSet(Slots(M))
           /\ Cardinality(Slots(M)) = Cardinality(Slots(L)) - L[c]
           /\ L[c] <= Cardinality(Slots(L))
  <1> DEFINE mine == {c} \X (1..L[c])
  <1>1. IsFiniteSet(mine) /\ Cardinality(mine) = L[c]
    <2>1. /\ IsFiniteSet({c}) /\ Cardinality({c}) = 1
      BY FS_Singleton
    <2>2. /\ IsFiniteSet(1..L[c])
          /\ Cardinality(1..L[c]) = IF 1 > L[c] THEN 0 ELSE L[c] - 1 + 1
      BY FS_Interval
    <2>3. Cardinality(1..L[c]) = L[c]
      BY <2>2
    <2>4. IsFiniteSet(mine) /\ Cardinality(mine) = Cardinality({c}) * Cardinality(1..L[c])
      BY <2>1, <2>2, FS_Product
    <2> QED BY <2>1, <2>3, <2>4
  <1>2. mine \subseteq Slots(L)
    BY DEF Slots
  <1>3. Slots(M) = Slots(L) \ mine
    <2>1. ASSUME NEW x \in Slots(M) PROVE x \in Slots(L) \ mine
      <3>1. PICK d \in E, i \in Nat : i \in 1..M[d] /\ x = <<d, i>>
        BY SlotsMember
      <3>2. d # c
        BY <3>1
      <3>3. d \in D /\ i \in 1..L[d]
        BY <3>1, <3>2
      <3> QED BY <3>1, <3>2, <3>3, SlotsMember
    <2>2. ASSUME NEW x \in Slots(L) \ mine PROVE x \in Slots(M)
      <3>1. PICK d \in D, i \in Nat : i \in 1..L[d] /\ x = <<d, i>>
        BY SlotsMember
      <3>2. d # c
        BY <3>1
      <3>3. d \in E /\ i \in 1..M[d]
        BY <3>1, <3>2
      <3> QED BY <3>1, <3>3, SlotsMember
    <2> QED BY <2>1, <2>2
  <1> HIDE DEF mine
  <1>4. Slots(L) \cap mine = mine
    BY <1>2
  <1>5. /\ IsFiniteSet(Slots(M))
        /\ Cardinality(Slots(M)) = Cardinality(Slots(L)) - L[c]
    <2>1. /\ IsFiniteSet(Slots(L) \ mine)
          /\ Cardinality(Slots(L) \ mine) = Cardinality(Slots(L)) - Cardinality(Slots(L) \cap mine)
      BY FS_Difference
    <2> QED BY <1>1, <1>3, <1>4, <2>1
  <1>6. L[c] <= Cardinality(Slots(L))
    BY <1>1, <1>2, FS_Subset
  <1> QED BY <1>5, <1>6

\* The queue lengths, control queue included, are natural numbers.
LEMMA LengthTypes ==
    ASSUME ShapeOK
    PROVE  /\ QueueLengths \in [Open \cup {0} -> Nat]
           /\ QueueLengths[0] = Len(control)
           /\ \A c \in Open : QueueLengths[c] = Len(channels[c].queue)
           /\ 0 \notin Open
           /\ 0 \notin ChannelIds
  <1>1. 0 \notin ChannelIds /\ 0 \notin Open
    BY LimitsAssumption DEF ShapeOK, CONTROL_CHANNEL_ID
  <1>2. \A c \in Open : Len(channels[c].queue) \in Nat
    BY StateTypes DEF ShapeOK
  <1>3. Len(control) \in Nat
    BY DEF ShapeOK
  <1> QED BY <1>1, <1>2, <1>3 DEF QueueLengths, CONTROL_CHANNEL_ID

\* What has to be carried along with the counter: the slots are finitely many.
CountInv ==
    /\ IsFiniteSet(PendingSlots)
    /\ PendingExact
    /\ FramesAccountedFor

\* Every step keeps the cached counter and the frame balance exact.
LEMMA CountStep ==
    ASSUME ShapeOK, ShapeOK', ReadyIndexExact, CountInv, [Next]_muxVars
    PROVE  CountInv'
  <1> DEFINE L == QueueLengths
             M == QueueLengths'
             D == Open \cup {0}
  <1>0. /\ IsFiniteSet(Slots(L))
        /\ Cardinality(Slots(L)) \in Nat
        /\ total_pending = Cardinality(Slots(L))
        /\ accepted = delivered + reported + Cardinality(Slots(L))
        /\ accepted \in Nat /\ delivered \in Nat /\ reported \in Int
    BY FS_CardinalityType DEF CountInv, PendingSlots, PendingExact, FramesAccountedFor, ShapeOK
  <1>a. /\ L \in [D -> Nat]
        /\ L[0] = Len(control)
        /\ \A c \in Open : L[c] = Len(channels[c].queue)
        /\ 0 \notin Open
        /\ 0 \notin ChannelIds
    BY LengthTypes
  <1>b. /\ M \in [Open' \cup {0} -> Nat]
        /\ M[0] = Len(control')
        /\ \A c \in Open' : M[c] = Len(channels'[c].queue)
    <2>1. 0 \notin Open'
      BY <1>a DEF ShapeOK
    <2>2. \A c \in Open' : Len(channels'[c].queue) \in Nat
      BY StateTypes DEF ShapeOK
    <2>3. Len(control') \in Nat
      BY DEF ShapeOK
    <2> QED BY <2>1, <2>2, <2>3 DEF QueueLengths, CONTROL_CHANNEL_ID
  <1>c. SUFFICES /\ IsFiniteSet(Slots(M))
                 /\ total_pending' = Cardinality(Slots(M))
                 /\ accepted' = delivered' + reported' + Cardinality(Slots(M))
    BY DEF CountInv, PendingSlots, PendingExact, FramesAccountedFor
  <1> HIDE DEF L, M
  <1>1. ASSUME NEW config \in Configs, OpenChannel(config)
        PROVE  Slots(M) = Slots(L) /\ UNCHANGED <<total_pending, accepted, delivered, reported>>
    <2>1. /\ Open' = Open \cup {config.id}
          /\ config.id \notin Open
          /\ \A d \in Open : channels'[d] = channels[d]
          /\ channels'[config.id].queue = <<>>
          /\ control' = control
          /\ UNCHANGED <<total_pending, accepted, delivered, reported>>
          /\ config.id \in ChannelIds
      BY <1>1, OpenEffect
    <2>2. M[config.id] = 0 /\ \A d \in D : M[d] = L[d]
      BY <1>a, <1>b, <2>1
    <2>3. \A x : x \in Slots(M) <=> \E c \in Open' \cup {0} : \E i \in 1..M[c] : x = <<c, i>>
      BY <1>b, SlotsMember
    <2>4. \A x : x \in Slots(L) <=> \E c \in D : \E i \in 1..L[c] : x = <<c, i>>
      BY <1>a, SlotsMember
    <2>5. \A x : x \in Slots(M) <=> x \in Slots(L)
      BY <1>a, <2>1, <2>2, <2>3, <2>4
    <2> QED BY <2>1, <2>5
  <1>2. ASSUME NEW length \in ControlLengths, EnqueueControl(length)
        PROVE  /\ IsFiniteSet(Slots(M))
               /\ Cardinality(Slots(M)) = Cardinality(Slots(L)) + 1
    <2>1. length \in Nat
      BY InputsAssumption
    <2>2. control' = Append(control, length) /\ channels' = channels
      BY <1>2 DEF EnqueueControl
    <2>3. Len(control') = Len(control) + 1
      BY <2>1, <2>2 DEF ShapeOK
    <2>4. Open' = Open
      BY <2>2 DEF Open
    <2>5. M \in [D -> Nat] /\ M[0] = L[0] + 1 /\ \A d \in D \ {0} : M[d] = L[d]
      BY <1>a, <1>b, <2>2, <2>3, <2>4
    <2>6. 0 \in D
      OBVIOUS
    <2> HIDE DEF D
    <2> QED BY <1>0, <1>a, <2>5, <2>6, SlotsGrow
  <1>3. ASSUME NEW e \in Envelopes, Enqueue(e) \/ EnqueueDiscardable(e)
        PROVE  /\ IsFiniteSet(Slots(M))
               /\ Cardinality(Slots(M)) = Cardinality(Slots(L)) + 1
               /\ total_pending' = total_pending + 1
               /\ accepted' = accepted + 1
               /\ UNCHANGED <<delivered, reported>>
    <2>1. PICK bytes \in Nat : e.channel_id \in Open /\ PushFrame(e, bytes)
      BY <1>3, EnqueueIsPush
    <2>2. PICK c : c = e.channel_id
      OBVIOUS
    <2>3. /\ e.length \in Nat
          /\ c \in Open
          /\ Open' = Open
          /\ \A d \in Open \ {c} : channels'[d] = channels[d]
          /\ channels'[c].queue = Append(channels[c].queue, e.length)
          /\ UNCHANGED <<control, delivered, reported>>
      BY <2>1, <2>2, PushEffect
    <2>4. Len(channels'[c].queue) = Len(channels[c].queue) + 1
      <3>1. channels[c].queue \in Seq(Nat)
        BY <2>3, StateTypes DEF ShapeOK
      <3> QED BY <2>3, <3>1, AppendProperties
    <2>5. M \in [D -> Nat] /\ M[c] = L[c] + 1 /\ \A d \in D \ {c} : M[d] = L[d]
      BY <1>a, <1>b, <2>3, <2>4
    <2>6. c \in D
      BY <2>3
    <2>7. total_pending' = total_pending + 1 /\ accepted' = accepted + 1
      BY <2>1 DEF PushFrame
    <2> HIDE DEF D
    <2>8. IsFiniteSet(Slots(M)) /\ Cardinality(Slots(M)) = Cardinality(Slots(L)) + 1
      <3>1. L \in [D -> Nat] /\ IsFiniteSet(Slots(L))
        BY <1>0, <1>a
      <3> QED BY <2>5, <2>6, <3>1, SlotsGrow
    <2> QED BY <2>3, <2>7, <2>8
  <1>4. ASSUME NextControl
        PROVE  /\ IsFiniteSet(Slots(M))
               /\ Cardinality(Slots(M)) = Cardinality(Slots(L)) - 1
    <2>1. control # <<>> /\ control' = Tail(control) /\ channels' = channels
      BY <1>4 DEF NextControl
    <2>2. Len(control) = Len(control') + 1
      <3>1. control \in Seq(Nat)
        BY DEF ShapeOK
      <3>2. Len(Tail(control)) = Len(control) - 1 /\ Len(control) \in Nat
        BY <2>1, <3>1, HeadTailProperties
      <3> QED BY <2>1, <3>2
    <2>3. Open' = Open
      BY <2>1 DEF Open
    <2>4. M \in [D -> Nat] /\ L[0] = M[0] + 1 /\ \A d \in D \ {0} : M[d] = L[d]
      BY <1>a, <1>b, <2>1, <2>2, <2>3
    <2>5. 0 \in D
      OBVIOUS
    <2> HIDE DEF D
    <2> QED BY <1>0, <1>a, <2>4, <2>5, SlotsShrink
  <1>5. ASSUME NEW i \in DOMAIN ready, NextData(i)
        PROVE  /\ IsFiniteSet(Slots(M))
               /\ Cardinality(Slots(M)) = Cardinality(Slots(L)) - 1
               /\ total_pending' = total_pending - 1
               /\ delivered' = delivered + 1
               /\ UNCHANGED <<accepted, reported>>
    <2>1. PICK c : c = ready[i]
      OBVIOUS
    <2>2. /\ c \in Open
          /\ Open' = Open
          /\ channels[c].queue # <<>>
          /\ \A d \in Open \ {c} : channels'[d] = channels[d]
          /\ channels'[c].queue = Tail(channels[c].queue)
          /\ control' = control
          /\ total_pending' = total_pending - 1
          /\ delivered' = delivered + 1
          /\ UNCHANGED <<accepted, reported>>
      BY <1>5, <2>1, PopEffect
    <2>3. Len(channels[c].queue) = Len(channels'[c].queue) + 1
      <3>1. channels[c].queue \in Seq(Nat)
        BY <2>2, StateTypes DEF ShapeOK
      <3>2. PICK q : q = channels[c].queue
        OBVIOUS
      <3>3. Len(Tail(q)) = Len(q) - 1 /\ Len(q) \in Nat
        BY <2>2, <3>1, <3>2, HeadTailProperties
      <3> QED BY <2>2, <3>2, <3>3
    <2>4. M \in [D -> Nat] /\ L[c] = M[c] + 1 /\ \A d \in D \ {c} : M[d] = L[d]
      BY <1>a, <1>b, <2>2, <2>3
    <2>5. c \in D
      BY <2>2
    <2> HIDE DEF D
    <2>6. IsFiniteSet(Slots(M)) /\ Cardinality(Slots(M)) = Cardinality(Slots(L)) - 1
      BY <1>0, <1>a, <2>4, <2>5, SlotsShrink
    <2> QED BY <2>2, <2>6
  <1>6. ASSUME NextNone \/ UNCHANGED muxVars
        PROVE  M = L /\ UNCHANGED <<total_pending, accepted, delivered, reported>>
    BY <1>6 DEF NextNone, muxVars, codeVars, history, L, M, QueueLengths, Open
  <1>7. ASSUME NEW c \in ChannelIds, CancelChannel(c) \/ CloseChannel(c)
        PROVE  /\ IsFiniteSet(Slots(M))
               /\ Cardinality(Slots(M)) = Cardinality(Slots(L)) - L[c]
               /\ L[c] <= Cardinality(Slots(L))
               /\ L[c] \in Nat
               /\ total_pending' = Cardinality(Slots(L)) - L[c]
               /\ reported' = reported + L[c]
               /\ UNCHANGED <<accepted, delivered>>
    <2>1. /\ c \in Open
          /\ Open' = Open \/ Open' = Open \ {c}
          /\ \A d \in Open \ {c} : channels'[d] = channels[d]
          /\ c \in Open' => channels'[c].queue = <<>>
          /\ total_pending' = MaxOf(0, total_pending - Len(channels[c].queue))
              \/ total_pending' = total_pending - Len(channels[c].queue)
          /\ reported' = reported + Len(channels[c].queue)
          /\ control' = control
          /\ UNCHANGED <<accepted, delivered>>
      BY <1>7, CancelEffect, CloseEffect
    <2> DEFINE E == Open' \cup {0}
    <2>2. /\ c \in D
          /\ E = D \/ E = D \ {c}
          /\ M \in [E -> Nat]
          /\ c \in E => M[c] = 0
          /\ \A d \in D \ {c} : M[d] = L[d]
          /\ L[c] = Len(channels[c].queue)
          /\ L[c] \in Nat
      BY <1>a, <1>b, <2>1
    <2> HIDE DEF D, E
    <2>3. /\ IsFiniteSet(Slots(M))
          /\ Cardinality(Slots(M)) = Cardinality(Slots(L)) - L[c]
          /\ L[c] <= Cardinality(Slots(L))
      BY <1>0, <1>a, <2>2, SlotsDrop
    <2>4. total_pending' = Cardinality(Slots(L)) - L[c]
      BY <1>0, <2>1, <2>2, <2>3 DEF MaxOf
    <2> QED BY <2>1, <2>2, <2>3, <2>4
  <1>8. ASSUME DiscardAll
        PROVE  Slots(M) = {}
    <2>1. Open' = Open /\ \A c \in Open : channels'[c].queue = <<>>
      BY <1>8, DiscardEffect
    <2>2. control' = <<>>
      BY <1>8 DEF DiscardAll
    <2>3. \A c \in Open' \cup {0} : M[c] = 0
      BY <1>b, <2>1, <2>2
    <2>4. \A x : x \in Slots(M) <=> \E c \in Open' \cup {0} : \E i \in 1..M[c] : x = <<c, i>>
      BY <1>b, SlotsMember
    <2> QED BY <2>3, <2>4
  <1> HIDE DEF D
  <1>11. CASE \E config \in Configs : OpenChannel(config)
    BY <1>0, <1>1, <1>11
  <1>12. CASE \E length \in ControlLengths : EnqueueControl(length)
    BY <1>0, <1>2, <1>12 DEF EnqueueControl
  <1>13. CASE \E e \in Envelopes : Enqueue(e) \/ EnqueueDiscardable(e)
    BY <1>0, <1>3, <1>13
  <1>14. CASE NextControl
    BY <1>0, <1>4, <1>14 DEF NextControl
  <1>15. CASE \E i \in DOMAIN ready : NextData(i)
    BY <1>0, <1>5, <1>15
  <1>16. CASE NextNone \/ UNCHANGED muxVars
    BY <1>0, <1>6, <1>16
  <1>17. CASE \E c \in ChannelIds : CancelChannel(c) \/ CloseChannel(c)
    BY <1>0, <1>7, <1>17
  <1>18. CASE DiscardAll
    <2>1. /\ total_pending' = 0
          /\ reported' = reported + total_pending
          /\ UNCHANGED <<accepted, delivered>>
      BY <1>18 DEF DiscardAll
    <2> QED BY <1>0, <1>8, <1>18, <2>1, FS_EmptySet
  <1> QED BY <1>11, <1>12, <1>13, <1>14, <1>15, <1>16, <1>17, <1>18 DEF Next, NextOutbound

-----------------------------------------------------------------------------
(* The scheduler. *)

\* Every queued frame respects its channel's own frame limit.
FramesFit ==
    \A c \in Open : \A k \in DOMAIN channels[c].queue :
        channels[c].queue[k] <= channels[c].config.max_frame_bytes

\* The charge of a largest frame is a positive number.
LEMMA CostBoundFacts ==
    ASSUME ShapeOK, NEW c \in Open
    PROVE  /\ CostBound(c) \in Nat
           /\ CostBound(c) >= 1
           /\ channels[c].virtual_finish \in Nat
  <1>1. /\ channels[c].config.priority_hint \in 0..255
        /\ channels[c].config.max_frame_bytes \in Nat
        /\ channels[c].virtual_finish \in Nat
    BY StateTypes DEF ShapeOK
  <1>2. channels[c].config.max_frame_bytes <= channels[c].config.max_frame_bytes
    BY <1>1
  <1> QED BY <1>1, <1>2, CostFacts DEF CostBound

\* Every step keeps each queued frame within its channel's max_frame_bytes.
LEMMA FitStep ==
    ASSUME ShapeOK, FramesFit, [Next]_muxVars
    PROVE  FramesFit'
  <1>1. ASSUME NEW config \in Configs, OpenChannel(config)
        PROVE  FramesFit'
    <2>1. /\ Open' = Open \cup {config.id}
          /\ \A d \in Open : channels'[d] = channels[d]
          /\ channels'[config.id].queue = <<>>
      BY <1>1, OpenEffect
    <2> QED BY <2>1 DEF FramesFit
  <1>2. ASSUME NEW e \in Envelopes, Enqueue(e) \/ EnqueueDiscardable(e)
        PROVE  FramesFit'
    <2>1. PICK bytes \in Nat : e.channel_id \in Open /\ PushFrame(e, bytes)
      BY <1>2, EnqueueIsPush
    <2>2. PICK c : c = e.channel_id
      OBVIOUS
    <2>3. /\ e.length \in Nat
          /\ c \in Open
          /\ Open' = Open
          /\ \A d \in Open \ {c} : channels'[d] = channels[d]
          /\ channels'[c].config = channels[c].config
          /\ channels'[c].queue = Append(channels[c].queue, e.length)
      BY <2>1, <2>2, PushEffect
    <2>4. e.length <= channels[c].config.max_frame_bytes
      BY <1>2, <2>2 DEF Enqueue, EnqueueDiscardable, ChannelAdmits
    <2>5. PICK q \in Seq(Nat) : q = channels[c].queue
      BY <2>3, StateTypes DEF ShapeOK
    <2>6. \A k \in DOMAIN Append(q, e.length) :
            Append(q, e.length)[k] <= channels[c].config.max_frame_bytes
      <3>1. \A k \in DOMAIN q : q[k] <= channels[c].config.max_frame_bytes
        BY <2>3, <2>5 DEF FramesFit
      <3> QED BY <2>3, <2>4, <3>1
    <2>7. \A d \in Open \ {c} : \A k \in DOMAIN channels[d].queue :
            channels[d].queue[k] <= channels[d].config.max_frame_bytes
      BY DEF FramesFit
    <2> QED BY <2>3, <2>5, <2>6, <2>7 DEF FramesFit
  <1>3. ASSUME NEW i \in DOMAIN ready, NextData(i)
        PROVE  FramesFit'
    <2>1. PICK c : c = ready[i]
      OBVIOUS
    <2>2. /\ c \in Open
          /\ Open' = Open
          /\ channels[c].queue # <<>>
          /\ \A d \in Open \ {c} : channels'[d] = channels[d]
          /\ channels'[c].config = channels[c].config
          /\ channels'[c].queue = Tail(channels[c].queue)
      BY <1>3, <2>1, PopEffect
    <2>3. PICK q \in Seq(Nat) : q = channels[c].queue
      BY <2>2, StateTypes DEF ShapeOK
    <2>4. \A k \in DOMAIN Tail(q) : Tail(q)[k] <= channels[c].config.max_frame_bytes
      <3>1. \A k \in DOMAIN q : q[k] <= channels[c].config.max_frame_bytes
        BY <2>2, <2>3 DEF FramesFit
      <3>2. /\ Tail(q) \in Seq(Nat)
            /\ Len(Tail(q)) = Len(q) - 1
            /\ \A k \in 1..Len(Tail(q)) : Tail(q)[k] = q[k + 1]
        BY <2>2, <2>3, HeadTailProperties
      <3> QED BY <3>1, <3>2
    <2>5. \A d \in Open \ {c} : \A k \in DOMAIN channels[d].queue :
            channels[d].queue[k] <= channels[d].config.max_frame_bytes
      BY DEF FramesFit
    <2> QED BY <2>2, <2>3, <2>4, <2>5 DEF FramesFit
  <1>4. ASSUME NEW c \in ChannelIds, CancelChannel(c)
        PROVE  FramesFit'
    <2>1. /\ Open' = Open
          /\ \A d \in Open \ {c} : channels'[d] = channels[d]
          /\ channels'[c].queue = <<>>
      BY <1>4, CancelEffect
    <2> QED BY <2>1 DEF FramesFit
  <1>5. ASSUME NEW c \in ChannelIds, CloseChannel(c)
        PROVE  FramesFit'
    BY <1>5, CloseEffect DEF FramesFit
  <1>6. CASE DiscardAll
    BY <1>6, DiscardEffect DEF FramesFit
  <1>7. ASSUME NEW length \in ControlLengths, EnqueueControl(length)
        PROVE  FramesFit'
    BY <1>7 DEF EnqueueControl, FramesFit, Open
  <1>8. CASE NextControl \/ NextNone \/ UNCHANGED muxVars
    BY <1>8 DEF NextControl, NextNone, muxVars, codeVars, FramesFit, Open
  <1> QED BY <1>1, <1>2, <1>3, <1>4, <1>5, <1>6, <1>7, <1>8 DEF Next, NextOutbound

\* The frame chosen has the smallest finish time of all waiting channels, which
\* is where the clock moves; and it is charged at most its channel's CostBound.
LEMMA PopTimes ==
    ASSUME ShapeOK, ReadyIndexExact, FramesFit, SchedulerBounds,
           NEW i \in DOMAIN ready, NEW c, c = ready[i], NextData(i)
    PROVE  /\ virtual_time' = channels[c].virtual_finish
           /\ virtual_time <= virtual_time'
           /\ \A d \in Open : channels[d].queue # <<>> =>
                  channels[c].virtual_finish <= channels[d].virtual_finish
           /\ channels'[c].virtual_finish \in Nat
           /\ channels'[c].virtual_finish >= virtual_time' + 1
           /\ channels'[c].virtual_finish <= virtual_time' + CostBound(c)
  <1> DEFINE head == Head(channels[c].queue)
             cost == SchedulingCost(head, channels[c].config.priority_hint)
  <1>1. /\ c \in Open
        /\ channels[c].queue # <<>>
        /\ head \in Nat
        /\ virtual_time' = MaxOf(channels[c].virtual_finish, virtual_time)
        /\ channels'[c].virtual_finish = virtual_time' + cost
    BY PopEffect
  <1>2. channels[c].virtual_finish \in Nat /\ virtual_time \in Nat
    BY <1>1, CostBoundFacts DEF ShapeOK
  <1>3. virtual_time <= channels[c].virtual_finish
    BY <1>1 DEF SchedulerBounds
  <1>4. virtual_time' = channels[c].virtual_finish
    BY <1>1, <1>2, <1>3 DEF MaxOf
  <1>5. ASSUME NEW d \in Open, channels[d].queue # <<>>
        PROVE  channels[c].virtual_finish <= channels[d].virtual_finish
    <2>1. d \in ToSet(ready)
      BY <1>5 DEF ReadyIndexExact
    <2>2. PICK j \in DOMAIN ready : ready[j] = d
      BY <2>1 DEF ToSet
    <2>3. j \in Candidates
      BY <1>5, <2>2 DEF Candidates
    <2>4. Finish(i) < Finish(j) \/ Finish(i) = Finish(j)
      BY <2>3 DEF NextData, Selected
    <2>5. channels[d].virtual_finish \in Nat
      BY CostBoundFacts
    <2> QED BY <1>2, <2>2, <2>4, <2>5 DEF Finish
  <1>6. /\ channels[c].config.priority_hint \in 0..255
        /\ channels[c].config.max_frame_bytes \in Nat
        /\ channels[c].queue \in Seq(Nat)
    BY <1>1, StateTypes DEF ShapeOK
  <1>7. head <= channels[c].config.max_frame_bytes
    <2>1. PICK q \in Seq(Nat) : q = channels[c].queue
      BY <1>6
    <2>2. 1 \in DOMAIN q /\ Head(q) = q[1]
      BY <1>1, <2>1
    <2> QED BY <1>1, <2>1, <2>2 DEF FramesFit
  <1> HIDE DEF head
  <1>8. cost \in Nat /\ cost >= 1 /\ cost <= CostBound(c)
    BY <1>1, <1>6, <1>7, CostFacts DEF CostBound
  <1> HIDE DEF cost
  <1>9. CostBound(c) \in Nat
    BY <1>1, CostBoundFacts
  <1> QED BY <1>1, <1>2, <1>3, <1>4, <1>5, <1>8, <1>9

\* Every step keeps the finish times within one frame of the clock.
LEMMA SchedulerStep ==
    ASSUME ShapeOK, ShapeOK', ReadyIndexExact, FramesFit, SchedulerBounds, [Next]_muxVars
    PROVE  SchedulerBounds'
  <1>0. virtual_time \in Nat
    BY DEF ShapeOK
  <1>a. \A c \in Open : /\ CostBound(c) \in Nat
                        /\ CostBound(c) >= 1
                        /\ channels[c].virtual_finish \in Nat
    BY CostBoundFacts
  <1>b. \A c \in Open : c \in Open' /\ channels'[c].config = channels[c].config
            => CostBound(c)' = CostBound(c)
    BY DEF CostBound
  <1>1. ASSUME NEW config \in Configs, OpenChannel(config)
        PROVE  SchedulerBounds'
    <2>1. /\ Open' = Open \cup {config.id}
          /\ config \in ChannelConfig
          /\ \A d \in Open : channels'[d] = channels[d]
          /\ channels'[config.id].config = config
          /\ channels'[config.id].queue = <<>>
          /\ channels'[config.id].virtual_finish = virtual_time
          /\ virtual_time' = virtual_time
      BY <1>1, OpenEffect
    <2>2. CostBound(config.id)' \in Nat
      <3>1. config.priority_hint \in 0..255 /\ config.max_frame_bytes \in Nat
        BY <2>1 DEF ChannelConfig
      <3>2. config.max_frame_bytes <= config.max_frame_bytes
        BY <3>1
      <3>3. SchedulingCost(config.max_frame_bytes, config.priority_hint) \in Nat
        BY <3>1, <3>2, CostFacts
      <3> QED BY <2>1, <3>3 DEF CostBound
    <2>3. \A d \in Open : CostBound(d)' = CostBound(d)
      BY <1>b, <2>1
    <2> QED BY <1>0, <2>1, <2>2, <2>3 DEF SchedulerBounds
  <1>2. ASSUME NEW e \in Envelopes, Enqueue(e) \/ EnqueueDiscardable(e)
        PROVE  SchedulerBounds'
    <2>1. PICK bytes \in Nat : e.channel_id \in Open /\ PushFrame(e, bytes)
      BY <1>2, EnqueueIsPush
    <2>2. PICK c : c = e.channel_id
      OBVIOUS
    <2>3. /\ c \in Open
          /\ Open' = Open
          /\ \A d \in Open \ {c} : channels'[d] = channels[d]
          /\ channels'[c].config = channels[c].config
          /\ channels'[c].virtual_finish = FinishOnArrival(c)
          /\ virtual_time' = virtual_time
      BY <2>1, <2>2, PushEffect
    <2>4. \A d \in Open : CostBound(d)' = CostBound(d)
      BY <1>b, <2>3
    <2>5. /\ virtual_time <= FinishOnArrival(c)
          /\ FinishOnArrival(c) <= virtual_time + CostBound(c)
      BY <1>0, <1>a, <2>3 DEF FinishOnArrival, MaxOf, SchedulerBounds
    <2> QED BY <2>3, <2>4, <2>5 DEF SchedulerBounds
  <1>3. ASSUME NEW i \in DOMAIN ready, NextData(i)
        PROVE  SchedulerBounds'
    <2>1. PICK c : c = ready[i]
      OBVIOUS
    <2>2. /\ c \in Open
          /\ Open' = Open
          /\ \A d \in Open \ {c} : channels'[d] = channels[d]
          /\ channels'[c].config = channels[c].config
          /\ virtual_time' \in Nat
      BY <1>3, <2>1, PopEffect
    <2>3. /\ virtual_time' = channels[c].virtual_finish
          /\ virtual_time <= virtual_time'
          /\ \A d \in Open : channels[d].queue # <<>> =>
                 channels[c].virtual_finish <= channels[d].virtual_finish
          /\ channels'[c].virtual_finish \in Nat
          /\ channels'[c].virtual_finish >= virtual_time' + 1
          /\ channels'[c].virtual_finish <= virtual_time' + CostBound(c)
      BY <1>3, <2>1, PopTimes
    <2>4. \A d \in Open : CostBound(d)' = CostBound(d)
      BY <1>b, <2>2
    <2>5. ASSUME NEW d \in Open \ {c}
          PROVE  /\ channels'[d].queue # <<>> => virtual_time' <= channels'[d].virtual_finish
                 /\ channels'[d].virtual_finish <= virtual_time' + CostBound(d)'
      <3>1. channels[d].virtual_finish <= virtual_time + CostBound(d)
        BY DEF SchedulerBounds
      <3>2. /\ channels[d].virtual_finish \in Nat /\ virtual_time \in Nat /\ CostBound(d) \in Nat
        BY <1>0, <1>a
      <3>3. channels'[d] = channels[d] /\ virtual_time' \in Nat /\ CostBound(d)' = CostBound(d)
        BY <2>2, <2>4
      <3> QED BY <2>3, <3>1, <3>2, <3>3
    <2>6. /\ virtual_time' <= channels'[c].virtual_finish
          /\ channels'[c].virtual_finish <= virtual_time' + CostBound(c)'
      BY <2>2, <2>3, <2>4
    <2> QED BY <2>2, <2>5, <2>6 DEF SchedulerBounds
  <1>4. ASSUME NEW c \in ChannelIds, CancelChannel(c)
        PROVE  SchedulerBounds'
    <2>1. /\ c \in Open
          /\ Open' = Open
          /\ \A d \in Open \ {c} : channels'[d] = channels[d]
          /\ channels'[c].config = channels[c].config
          /\ channels'[c].queue = <<>>
          /\ channels'[c].virtual_finish = channels[c].virtual_finish
          /\ virtual_time' = virtual_time
      BY <1>4, CancelEffect
    <2>2. \A d \in Open : CostBound(d)' = CostBound(d)
      BY <1>b, <2>1
    <2> QED BY <2>1, <2>2 DEF SchedulerBounds
  <1>5. ASSUME NEW c \in ChannelIds, CloseChannel(c)
        PROVE  SchedulerBounds'
    <2>1. /\ Open' = Open \ {c}
          /\ \A d \in Open \ {c} : channels'[d] = channels[d]
          /\ virtual_time' = virtual_time
      BY <1>5, CloseEffect
    <2>2. \A d \in Open \ {c} : CostBound(d)' = CostBound(d)
      BY <1>b, <2>1
    <2> QED BY <2>1, <2>2 DEF SchedulerBounds
  <1>6. CASE DiscardAll
    <2>1. /\ Open' = Open
          /\ \A c \in Open : /\ channels'[c].config = channels[c].config
                             /\ channels'[c].queue = <<>>
                             /\ channels'[c].virtual_finish = channels[c].virtual_finish
          /\ virtual_time' = virtual_time
      BY <1>6, DiscardEffect DEF DiscardAll
    <2>2. \A d \in Open : CostBound(d)' = CostBound(d)
      BY <1>b, <2>1
    <2> QED BY <2>1, <2>2 DEF SchedulerBounds
  <1>7. ASSUME NEW length \in ControlLengths, EnqueueControl(length)
        PROVE  SchedulerBounds'
    BY <1>7 DEF EnqueueControl, SchedulerBounds, CostBound, Open
  <1>8. CASE NextControl \/ NextNone \/ UNCHANGED muxVars
    BY <1>8 DEF NextControl, NextNone, muxVars, codeVars, SchedulerBounds, CostBound, Open
  <1> QED BY <1>1, <1>2, <1>3, <1>4, <1>5, <1>6, <1>7, <1>8 DEF Next, NextOutbound

-----------------------------------------------------------------------------
(* Starvation: how often a waiting channel can be overtaken. *)

\* No d stands before a c in s.
Precedes(s, c, d) == \A i, j \in DOMAIN s : s[i] = c /\ s[j] = d => i < j

\* Removing a position of ready keeps the order of the others.
LEMMA PrecedesRemoveAt ==
    ASSUME NEW S, NEW s \in Seq(S), NEW i \in 1..Len(s), NEW c, NEW d, Precedes(s, c, d)
    PROVE  Precedes(RemoveAt(s, i), c, d)
  <1> DEFINE r == RemoveAt(s, i)
  <1>1. /\ r \in Seq(S)
        /\ Len(r) = Len(s) - 1
        /\ \A j \in 1..(Len(s) - 1) : r[j] = IF j < i THEN s[j] ELSE s[j + 1]
    BY RemoveAtFacts
  <1> HIDE DEF r
  <1>2. ASSUME NEW a \in 1..Len(r), NEW b \in 1..Len(r), r[a] = c, r[b] = d
        PROVE  a < b
    <2>1. PICK k \in 1..Len(s) : r[a] = s[k] /\ k = IF a < i THEN a ELSE a + 1
      <3>1. a \in 1..(Len(s) - 1) /\ Len(s) \in Nat /\ a \in Int /\ i \in Int
        BY <1>1
      <3>2. r[a] = IF a < i THEN s[a] ELSE s[a + 1]
        BY <1>1, <3>1
      <3> QED BY <3>1, <3>2
    <2>2. PICK l \in 1..Len(s) : r[b] = s[l] /\ l = IF b < i THEN b ELSE b + 1
      <3>1. b \in 1..(Len(s) - 1) /\ Len(s) \in Nat /\ b \in Int /\ i \in Int
        BY <1>1
      <3>2. r[b] = IF b < i THEN s[b] ELSE s[b + 1]
        BY <1>1, <3>1
      <3> QED BY <3>1, <3>2
    <2>3. s[k] = c /\ s[l] = d /\ k \in DOMAIN s /\ l \in DOMAIN s
      BY <1>2, <2>1, <2>2
    <2>4. k < l
      BY <2>3, Zenon DEF Precedes
    <2>5. a \in Int /\ b \in Int /\ i \in Int /\ k \in Int /\ l \in Int
      BY <1>1
    <2> QED BY <2>1, <2>2, <2>4, <2>5
  <1>3. DOMAIN r = 1..Len(r)
    BY <1>1
  <1> QED BY <1>2, <1>3 DEF Precedes, r

\* ready.retain keeps the order of those that stay.
LEMMA PrecedesWithout ==
    ASSUME NEW S, NEW s \in Seq(S), NEW e, NEW c, NEW d, Precedes(s, c, d)
    PROVE  Precedes(Without(s, e), c, d)
  <1>1. CASE \E i \in DOMAIN s : s[i] = e
    <2> DEFINE i == CHOOSE j \in DOMAIN s : s[j] = e
    <2>1. i \in 1..Len(s)
      BY <1>1
    <2>2. Without(s, e) = RemoveAt(s, i)
      BY <1>1 DEF Without
    <2> HIDE DEF i
    <2> QED BY <2>1, <2>2, PrecedesRemoveAt
  <1>2. CASE ~ \E i \in DOMAIN s : s[i] = e
    BY <1>2 DEF Without
  <1> QED BY <1>1, <1>2

\* A channel appended to ready comes before nobody.
LEMMA PrecedesAppend ==
    ASSUME NEW S, NEW s \in Seq(S), NEW e \in S, NEW c, NEW d, Precedes(s, c, d), e # c
    PROVE  Precedes(Append(s, e), c, d)
  <1>1. /\ DOMAIN Append(s, e) = 1..(Len(s) + 1)
        /\ DOMAIN s = 1..Len(s)
        /\ \A k \in 1..Len(s) : Append(s, e)[k] = s[k]
        /\ Append(s, e)[Len(s) + 1] = e
        /\ Len(s) \in Nat
    OBVIOUS
  <1>2. ASSUME NEW a \in 1..(Len(s) + 1), NEW b \in 1..(Len(s) + 1),
               Append(s, e)[a] = c, Append(s, e)[b] = d
        PROVE  a < b
    <2>1. a \in 1..Len(s)
      BY <1>1, <1>2
    <2>2. CASE b = Len(s) + 1
      BY <1>1, <2>1, <2>2
    <2>3. CASE b \in 1..Len(s)
      BY <1>1, <1>2, <2>1, <2>3 DEF Precedes
    <2> QED BY <1>1, <2>2, <2>3
  <1> QED BY <1>1, <1>2 DEF Precedes

Waiting == {c \in Open : channels[c].queue # <<>>}

\* A channel that has overtaken the waiting c stands behind it, and each time it was charged
\* at least one unit past the clock at which c began to wait.
Overtaken(c, d) ==
    bypass[c][d] > 0 =>
        /\ Precedes(ready, c, d)
        /\ channels[c].virtual_finish + bypass[c][d] <= channels[d].virtual_finish + CostBound(c)

BypassInv ==
    /\ \A c \in ChannelIds : bypass[c][c] = 0
    /\ \A c, d \in ChannelIds : bypass[c][d] > 0 => d \in Open \cup retired
    /\ BoundedBypass
    /\ \A c \in Waiting, d \in Open : Overtaken(c, d)

\* A channel waits exactly when it is in ready.
LEMMA WaitingInReady ==
    ASSUME ShapeOK, ReadyIndexExact, NEW c \in Waiting
    PROVE  /\ c \in Open /\ c \in ChannelIds
           /\ \E j \in Candidates : ready[j] = c
  <1>1. c \in Open /\ channels[c].queue # <<>>
    BY DEF Waiting
  <1>2. c \in ToSet(ready)
    BY <1>1 DEF ReadyIndexExact
  <1>3. PICK j \in DOMAIN ready : ready[j] = c
    BY <1>2 DEF ToSet
  <1> QED BY <1>1, <1>3 DEF Candidates, ShapeOK

\* What BypassInv needs of the pop of p while c waits.
LEMMA OvertakeOnce ==
    ASSUME ShapeOK, ReadyIndexExact, FramesFit, SchedulerBounds, BypassInv,
           NEW i \in DOMAIN ready, NEW p, p = ready[i], NextData(i),
           NEW c \in Waiting, c # p
    PROVE  /\ bypass'[c] = [bypass[c] EXCEPT ![p] = @ + 1]
           /\ bypass[c][p] + 1 <= CostBound(c)
           /\ channels[c].virtual_finish + bypass[c][p] + 1
                  <= channels'[p].virtual_finish + CostBound(c)
  <1>1. c \in Open /\ c \in ChannelIds
    BY WaitingInReady
  <1>2. /\ p \in ChannelIds /\ p \in Open
        /\ bypass' = CountBypass(p)
    BY PopEffect
  <1>3. /\ virtual_time' = channels[p].virtual_finish
        /\ virtual_time <= virtual_time'
        /\ channels'[p].virtual_finish \in Nat
        /\ channels'[p].virtual_finish >= virtual_time' + 1
    BY PopTimes
  <1>4. /\ CostBound(c) \in Nat /\ CostBound(c) >= 1
        /\ channels[c].virtual_finish \in Nat
        /\ channels[p].virtual_finish \in Nat
        /\ virtual_time \in Nat
    BY <1>1, <1>2, CostBoundFacts DEF ShapeOK
  <1>5. bypass[c][p] \in Nat
    BY <1>1, <1>2 DEF ShapeOK
  <1>6. bypass'[c] = [bypass[c] EXCEPT ![p] = @ + 1]
    BY <1>1, <1>2 DEF CountBypass, Waiting
  <1>7. CASE bypass[c][p] = 0
    <2>1. channels[c].virtual_finish <= virtual_time + CostBound(c)
      BY <1>1 DEF SchedulerBounds
    <2> QED BY <1>3, <1>4, <1>6, <1>7, <2>1
  <1>8. CASE bypass[c][p] > 0
    <2>1. /\ Precedes(ready, c, p)
          /\ channels[c].virtual_finish + bypass[c][p] <= channels[p].virtual_finish + CostBound(c)
      BY <1>2, <1>8 DEF BypassInv, Overtaken
    <2>2. PICK j \in Candidates : ready[j] = c
      BY WaitingInReady
    <2>3. j < i /\ j \in DOMAIN ready
      BY <2>1, <2>2 DEF Precedes, Candidates
    <2>4. Finish(i) < Finish(j) \/ (Finish(i) = Finish(j) /\ i <= j)
      BY <2>2 DEF NextData, Selected
    <2>5. i \in Int /\ j \in Int
      <3>1. ready \in Seq(ChannelIds)
        BY DEF ShapeOK
      <3>2. DOMAIN ready = 1 .. Len(ready) /\ Len(ready) \in Nat
        BY <3>1
      <3> QED BY <2>3, <3>2
    <2>6. channels[p].virtual_finish < channels[c].virtual_finish
      BY <2>2, <2>3, <2>4, <2>5 DEF Finish
    <2> QED BY <1>3, <1>4, <1>5, <1>6, <2>1, <2>6
  <1> QED BY <1>5, <1>7, <1>8

\* Every step keeps BypassInv.
LEMMA BypassStep ==
    ASSUME ShapeOK, ShapeOK', ReadyIndexExact, FramesFit, SchedulerBounds, BypassInv,
           [Next]_muxVars
    PROVE  BypassInv'
  <1>0. /\ \A c, d \in ChannelIds : bypass[c][d] \in Nat /\ bypass'[c][d] \in Nat
        /\ virtual_time \in Nat
        /\ Open \subseteq ChannelIds /\ Open' \subseteq ChannelIds
        /\ ready \in Seq(ChannelIds)
    BY DEF ShapeOK
  <1>a. \A c \in Open : /\ CostBound(c) \in Nat
                        /\ channels[c].virtual_finish \in Nat
    BY CostBoundFacts
  <1>b. \A c \in Open : c \in Open' /\ channels'[c].config = channels[c].config
            => CostBound(c)' = CostBound(c)
    BY DEF CostBound
  <1>c. /\ \A c \in ChannelIds : bypass[c][c] = 0
        /\ \A c, d \in ChannelIds : bypass[c][d] > 0 => d \in Open \cup retired
        /\ \A c \in Waiting : \A d \in ChannelIds : bypass[c][d] <= CostBound(c)
        /\ \A c \in Waiting, d \in Open : Overtaken(c, d)
    BY DEF BypassInv, BoundedBypass, Waiting
  <1> DEFINE Goal == /\ \A c \in ChannelIds : bypass'[c][c] = 0
                     /\ \A c, d \in ChannelIds : bypass'[c][d] > 0 => d \in Open' \cup retired'
                     /\ \A c \in Waiting' : \A d \in ChannelIds : bypass'[c][d] <= CostBound(c)'
                     /\ \A c \in Waiting', d \in Open' : Overtaken(c, d)'
  <1>d. Goal => BypassInv'
    BY DEF BypassInv, BoundedBypass, Waiting
  <1>1. ASSUME NEW config \in Configs, OpenChannel(config)
        PROVE  Goal
    <2>1. /\ config.id \notin Open \cup retired
          /\ config.id \in ChannelIds
          /\ Open' = Open \cup {config.id}
          /\ \A d \in Open : channels'[d] = channels[d]
          /\ channels'[config.id].queue = <<>>
          /\ UNCHANGED <<retired, ready, bypass>>
      BY <1>1, OpenEffect
    <2>2. Waiting' = Waiting /\ Waiting \subseteq Open
      BY <2>1 DEF Waiting
    <2>3. \A d \in Open : CostBound(d)' = CostBound(d)
      BY <1>b, <2>1
    <2>4. \A c \in Waiting, d \in Open : Overtaken(c, d)'
      BY <1>c, <2>1, <2>2, <2>3 DEF Overtaken
    <2>5. \A c \in Waiting : Overtaken(c, config.id)'
      BY <1>0, <1>c, <2>1, <2>2 DEF Overtaken
    <2> QED BY <1>c, <2>1, <2>2, <2>3, <2>4, <2>5
  <1>2. ASSUME NEW e \in Envelopes, Enqueue(e) \/ EnqueueDiscardable(e)
        PROVE  Goal
    <2>1. PICK bytes \in Nat : e.channel_id \in Open /\ PushFrame(e, bytes)
      BY <1>2, EnqueueIsPush
    <2>2. PICK p : p = e.channel_id
      OBVIOUS
    <2>3. /\ p \in Open /\ p \in ChannelIds
          /\ Open' = Open
          /\ \A d \in Open \ {p} : channels'[d] = channels[d]
          /\ channels'[p].config = channels[p].config
          /\ channels'[p].virtual_finish = FinishOnArrival(p)
          /\ FinishOnArrival(p) \in Nat
          /\ UNCHANGED retired
      BY <2>1, <2>2, PushEffect
    <2>4. /\ ready' = ReadyOnArrival(p)
          /\ bypass' = IF channels[p].queue = <<>> THEN [bypass EXCEPT ![p] = NoBypass] ELSE bypass
      BY <2>1, <2>2, Zenon DEF PushFrame
    <2>5. \A d \in Open : CostBound(d)' = CostBound(d)
      BY <1>b, <2>3
    <2>6. channels[p].virtual_finish <= FinishOnArrival(p)
      BY <1>0, <1>a, <2>3 DEF FinishOnArrival, MaxOf
    <2>7. \A c \in ChannelIds : c # p \/ p \in Waiting => bypass'[c] = bypass[c]
      BY <2>3, <2>4 DEF Waiting, ShapeOK
    <2>8. p \notin Waiting => \A d \in ChannelIds : bypass'[p][d] = 0
      BY <2>3, <2>4 DEF Waiting, ShapeOK, NoBypass
    <2>9. /\ Waiting' \ {p} = Waiting \ {p}
          /\ Waiting \subseteq Open /\ Waiting' \subseteq Open
      BY <2>3 DEF Waiting
    <2>10. p \in Waiting => ready' = ready /\ FinishOnArrival(p) = channels[p].virtual_finish
      BY <2>4 DEF Waiting, ReadyOnArrival, FinishOnArrival
    <2>11. ASSUME NEW c \in Waiting', NEW d \in Open PROVE Overtaken(c, d)'
      <3>1. CASE c = p /\ p \notin Waiting
        BY <1>0, <2>8, <3>1 DEF Overtaken
      <3>2. CASE c # p \/ p \in Waiting
        <4>1. c \in Waiting /\ c \in ChannelIds /\ bypass'[c] = bypass[c]
          BY <1>0, <2>7, <2>9, <3>2
        <4>2. ASSUME Precedes(ready, c, d) PROVE Precedes(ready', c, d)
          <5>1. CASE ready' = ready
            BY <4>2, <5>1
          <5>2. CASE ready' # ready
            <6>1. c # p /\ ready' = Append(ready, p)
              BY <2>4, <2>10, <3>2, <5>2 DEF ReadyOnArrival
            <6> QED BY <1>0, <2>3, <4>2, <6>1, PrecedesAppend
          <5> QED BY <5>1, <5>2
        <4>3. /\ channels'[c].virtual_finish = channels[c].virtual_finish
              /\ channels[d].virtual_finish <= channels'[d].virtual_finish
              /\ channels'[d].virtual_finish \in Nat
          BY <1>a, <2>3, <2>6, <2>9, <2>10, <3>2, <4>1
        <4>4. Overtaken(c, d)
          BY <1>c, <4>1
        <4>5. channels[d].virtual_finish \in Nat /\ CostBound(c) \in Nat /\ bypass[c][d] \in Nat
              /\ channels[c].virtual_finish \in Nat /\ CostBound(c)' = CostBound(c)
          BY <1>0, <1>a, <2>5, <2>9, <4>1
        <4> QED BY <4>1, <4>2, <4>3, <4>4, <4>5 DEF Overtaken
      <3> QED BY <3>1, <3>2
    <2>12. ASSUME NEW c \in Waiting', NEW d \in ChannelIds PROVE bypass'[c][d] <= CostBound(c)'
      <3>1. c \in Open /\ CostBound(c)' = CostBound(c) /\ CostBound(c) \in Nat
        BY <1>a, <2>5, <2>9
      <3>2. CASE c = p /\ p \notin Waiting
        BY <2>8, <3>1, <3>2
      <3>3. CASE c # p \/ p \in Waiting
        BY <1>0, <1>c, <2>7, <2>9, <3>1, <3>3
      <3> QED BY <3>2, <3>3
    <2>13. \A c, d \in ChannelIds : bypass'[c][d] = bypass[c][d] \/ bypass'[c][d] = 0
      BY <2>7, <2>8
    <2> QED BY <1>0, <1>c, <2>3, <2>11, <2>12, <2>13
  <1>3. ASSUME NEW i \in DOMAIN ready, NextData(i)
        PROVE  Goal
    <2>1. PICK p : p = ready[i]
      OBVIOUS
    <2>2. /\ i \in 1..Len(ready)
          /\ p \in Open /\ p \in ChannelIds
          /\ Open' = Open
          /\ \A d \in Open \ {p} : channels'[d] = channels[d]
          /\ channels'[p].config = channels[p].config
          /\ bypass' = CountBypass(p)
          /\ ready' = ReadyAfterPop(i)
          /\ UNCHANGED retired
      BY <1>3, <2>1, PopEffect
    <2>3. \A c \in Waiting \ {p} :
            /\ bypass'[c] = [bypass[c] EXCEPT ![p] = @ + 1]
            /\ bypass[c][p] + 1 <= CostBound(c)
            /\ channels[c].virtual_finish + bypass[c][p] + 1
                   <= channels'[p].virtual_finish + CostBound(c)
      BY <1>3, <2>1, OvertakeOnce
    <2>4. \A d \in Open : CostBound(d)' = CostBound(d)
      BY <1>b, <2>2
    <2>5. Waiting' \ {p} = Waiting \ {p} /\ Waiting \subseteq Open /\ Waiting' \subseteq Open
      BY <2>2 DEF Waiting
    <2>6. \A d \in ChannelIds : bypass'[p][d] = 0
      BY <2>2 DEF CountBypass, NoBypass
    <2>7. \A c \in ChannelIds \ {p} : c \notin Waiting => bypass'[c] = bypass[c]
      BY <2>2 DEF CountBypass, Waiting
    <2>a. ASSUME NEW c \in Waiting \ {p}
          PROVE  /\ \A d \in ChannelIds \ {p} : bypass'[c][d] = bypass[c][d]
                 /\ bypass'[c][p] = bypass[c][p] + 1
      <3>1. c \in ChannelIds
        BY <1>0, <2>5
      <3>2. PICK b : b = bypass[c]
        OBVIOUS
      <3>3. b \in [ChannelIds -> Nat]
        BY <3>1, <3>2 DEF ShapeOK
      <3>4. bypass'[c] = [b EXCEPT ![p] = @ + 1]
        BY <2>3, <3>2
      <3> QED BY <2>2, <3>2, <3>3, <3>4
    <2>8. \A c \in Waiting \ {p}, d \in ChannelIds : d # p => bypass'[c][d] = bypass[c][d]
      BY <2>a
    <2>9. \A c \in Waiting \ {p} : bypass'[c][p] = bypass[c][p] + 1
      BY <2>a
    <2>10. /\ RemoveAt(ready, i) \in Seq(ChannelIds)
           /\ ToSet(RemoveAt(ready, i)) = ToSet(ready) \ {p}
           /\ ready' = RemoveAt(ready, i) \/ ready' = Append(RemoveAt(ready, i), p)
      BY <1>0, <2>1, <2>2, RemoveAtSet DEF ReadyIndexExact, ReadyAfterPop
    <2>11. ASSUME NEW c \in Waiting \ {p}, NEW d, d = p \/ Precedes(ready, c, d)
           PROVE  Precedes(ready', c, d)
      <3>1. Precedes(RemoveAt(ready, i), c, d)
        <4>1. CASE d = p
          BY <2>10, <4>1 DEF Precedes, ToSet
        <4>2. CASE Precedes(ready, c, d)
          BY <1>0, <2>2, <4>2, PrecedesRemoveAt
        <4> QED BY <2>11, <4>1, <4>2
      <3>2. PICK r \in Seq(ChannelIds) : r = RemoveAt(ready, i)
        BY <2>10
      <3>3. p \in ChannelIds /\ p # c /\ Precedes(r, c, d)
        BY <2>2, <3>1, <3>2
      <3>4. Precedes(Append(r, p), c, d)
        BY <3>3, PrecedesAppend
      <3>5. ready' = r \/ ready' = Append(r, p)
        BY <2>10, <3>2
      <3> QED BY <3>3, <3>4, <3>5
    <2>12. ASSUME NEW c \in Waiting', NEW d \in Open PROVE Overtaken(c, d)'
      <3>1. CASE c = p
        BY <1>0, <2>6, <3>1 DEF Overtaken
      <3>2. CASE c # p /\ d = p
        <4>1. c \in Waiting \ {p} /\ c \in Open
          BY <2>5, <3>2
        <4>2. Precedes(ready', c, p)
          BY <2>11, <4>1
        <4>3. /\ bypass'[c][p] = bypass[c][p] + 1
              /\ channels'[c].virtual_finish = channels[c].virtual_finish
              /\ CostBound(c)' = CostBound(c)
          BY <2>2, <2>4, <2>9, <4>1
        <4>4. /\ channels[c].virtual_finish \in Nat /\ bypass[c][p] \in Nat
              /\ channels[c].virtual_finish + bypass[c][p] + 1
                   <= channels'[p].virtual_finish + CostBound(c)
          BY <1>0, <1>a, <2>2, <2>3, <4>1
        <4>5. channels'[c].virtual_finish + bypass'[c][p]
                <= channels'[p].virtual_finish + CostBound(c)'
          BY <4>3, <4>4
        <4> QED BY <3>2, <4>2, <4>5 DEF Overtaken
      <3>3. CASE c # p /\ d # p
        <4>1. c \in Waiting \ {p} /\ c \in Open /\ d \in ChannelIds
          BY <1>0, <2>5, <3>3
        <4>2. /\ bypass'[c][d] = bypass[c][d]
              /\ channels'[c] = channels[c] /\ channels'[d] = channels[d]
              /\ CostBound(c)' = CostBound(c)
          BY <2>2, <2>4, <2>8, <3>3, <4>1
        <4>3. Overtaken(c, d)
          BY <1>c, <4>1
        <4> QED BY <2>11, <4>1, <4>2, <4>3 DEF Overtaken
      <3> QED BY <3>1, <3>2, <3>3
    <2>13. ASSUME NEW c \in Waiting', NEW d \in ChannelIds PROVE bypass'[c][d] <= CostBound(c)'
      <3>1. c \in Open /\ CostBound(c)' = CostBound(c) /\ CostBound(c) \in Nat
        BY <1>a, <2>4, <2>5
      <3>2. CASE c = p
        BY <2>6, <3>1, <3>2
      <3>3. CASE c # p
        <4>1. c \in Waiting \ {p}
          BY <2>5, <3>3
        <4>2. CASE d = p
          <5>1. bypass[c][p] + 1 <= CostBound(c) /\ bypass'[c][p] = bypass[c][p] + 1
            BY <2>3, <2>9, <4>1
          <5> QED BY <3>1, <4>2, <5>1
        <4>3. CASE d # p
          <5>1. bypass[c][d] <= CostBound(c)
            BY <1>c, <4>1
          <5>2. bypass'[c][d] = bypass[c][d]
            BY <2>8, <4>1, <4>3
          <5> QED BY <3>1, <5>1, <5>2
        <4> QED BY <4>2, <4>3
      <3> QED BY <3>2, <3>3
    <2>14. \A c, d \in ChannelIds : d # p \/ c = p => bypass'[c][d] = bypass[c][d] \/ bypass'[c][d] = 0
      BY <2>6, <2>7, <2>8
    <2> QED BY <1>0, <1>c, <2>2, <2>6, <2>12, <2>13, <2>14
  <1>4. ASSUME NEW p \in ChannelIds, CancelChannel(p) \/ CloseChannel(p)
        PROVE  Goal
    <2>1. /\ Open' \subseteq Open /\ Open' \cup retired' = Open \cup retired
          /\ \A d \in Open' : d # p => channels'[d] = channels[d]
          /\ \A d \in Open' : /\ channels'[d].config = channels[d].config
                              /\ channels'[d].virtual_finish = channels[d].virtual_finish
          /\ p \in Open' => channels'[p].queue = <<>>
          /\ ready' = Without(ready, p)
          /\ UNCHANGED bypass
      BY <1>4, CancelEffect, CloseEffect
    <2>2. Waiting' \subseteq Waiting /\ Waiting' \subseteq Open'
      BY <2>1 DEF Waiting
    <2>3. \A d \in Open' : CostBound(d)' = CostBound(d)
      BY <1>b, <2>1
    <2>4. ASSUME NEW c \in Waiting', NEW d \in Open' PROVE Overtaken(c, d)'
      <3>1. Overtaken(c, d)
        BY <1>c, <2>1, <2>2
      <3>2. Precedes(ready, c, d) => Precedes(ready', c, d)
        BY <1>0, <2>1, PrecedesWithout
      <3> QED BY <2>1, <2>2, <2>3, <3>1, <3>2 DEF Overtaken
    <2> QED BY <1>c, <2>1, <2>2, <2>3, <2>4
  <1>5. ASSUME DiscardAll \/ NextNone
        PROVE  Goal
    <2>1. Waiting' = {}
      <3>1. CASE DiscardAll
        BY <3>1, DiscardEffect DEF Waiting
      <3>2. CASE NextNone
        BY <3>2, WaitingInReady DEF NextNone, Waiting, Open
      <3> QED BY <1>5, <3>1, <3>2
    <2>2. Open' = Open /\ UNCHANGED <<retired, bypass>>
      BY <1>5, DiscardEffect DEF DiscardAll, NextNone, Open, history
    <2> QED BY <1>c, <2>1, <2>2
  <1>6. ASSUME \/ \E length \in ControlLengths : EnqueueControl(length)
               \/ NextControl
               \/ UNCHANGED muxVars
        PROVE  Goal
    <2>1. UNCHANGED <<channels, retired, ready, bypass>>
      BY <1>6 DEF EnqueueControl, NextControl, muxVars, codeVars, history
    <2>2. Open' = Open /\ Waiting' = Waiting
      BY <2>1 DEF Open, Waiting
    <2>3. \A c : CostBound(c)' = CostBound(c)
      BY <2>1 DEF CostBound
    <2>4. \A c \in Waiting, d \in Open : Overtaken(c, d)'
      BY <1>c, <2>1, <2>3 DEF Overtaken
    <2>5. \A c \in Waiting' : \A d \in ChannelIds : bypass'[c][d] <= CostBound(c)'
      BY <1>c, <2>1, <2>2, <2>3
    <2> QED BY <1>c, <2>1, <2>2, <2>4, <2>5
  <1> HIDE DEF Goal
  <1>7. \/ \E config \in Configs : OpenChannel(config)
        \/ \E length \in ControlLengths : EnqueueControl(length)
        \/ \E e \in Envelopes : Enqueue(e) \/ EnqueueDiscardable(e)
        \/ \E i \in DOMAIN ready : NextData(i)
        \/ NextControl
        \/ \E c \in ChannelIds : CancelChannel(c) \/ CloseChannel(c)
        \/ DiscardAll \/ NextNone
        \/ UNCHANGED muxVars
    BY Zenon DEF Next, NextOutbound
  <1>8. Goal
    <2>1. CASE \E config \in Configs : OpenChannel(config)
      BY <1>1, <2>1
    <2>2. CASE \E e \in Envelopes : Enqueue(e) \/ EnqueueDiscardable(e)
      BY <1>2, <2>2
    <2>3. CASE \E i \in DOMAIN ready : NextData(i)
      BY <1>3, <2>3
    <2>4. CASE \E c \in ChannelIds : CancelChannel(c) \/ CloseChannel(c)
      BY <1>4, <2>4
    <2> QED BY <1>5, <1>6, <1>7, <2>1, <2>2, <2>3, <2>4, Zenon
  <1> QED BY <1>d, <1>8

-----------------------------------------------------------------------------
(* The theorems. *)

\* The inductive invariant: the index and the counter agree with the queues,
\* queued frames fit their channel, finish times stay near the clock, and a
\* channel that overtakes a waiting one pays for it in virtual time.
MuxInv ==
    /\ ShapeOK
    /\ ReadyIndexExact
    /\ CountInv
    /\ FramesFit
    /\ SchedulerBounds
    /\ BypassInv

\* A new multiplexer satisfies the inductive invariant.
LEMMA MuxInit == Init => MuxInv
  <1> SUFFICES ASSUME Init PROVE MuxInv
    OBVIOUS
  <1>1. Open = {}
    BY DEF Init, Open
  <1>2. ShapeOK
    BY <1>1 DEF Init, ShapeOK, NoBypass
  <1>3. ReadyIndexExact
    BY <1>1 DEF Init, ReadyIndexExact, IsInjective, ToSet
  <1>4. PendingSlots = {}
    <2>1. /\ QueueLengths \in [Open \cup {0} -> Nat]
          /\ QueueLengths[0] = Len(control)
      BY <1>2, LengthTypes
    <2>2. Len(control) = 0
      BY DEF Init
    <2>3. \A x : x \in Slots(QueueLengths) <=>
              \E c \in Open \cup {0} : \E i \in 1..QueueLengths[c] : x = <<c, i>>
      BY <2>1, SlotsMember
    <2> QED BY <1>1, <2>1, <2>2, <2>3 DEF PendingSlots
  <1>5. CountInv
    BY <1>4, FS_EmptySet DEF Init, CountInv, PendingExact, FramesAccountedFor
  <1>6. FramesFit /\ SchedulerBounds
    BY <1>1 DEF FramesFit, SchedulerBounds
  <1>7. BypassInv
    BY <1>1 DEF Init, BypassInv, BoundedBypass, Waiting, NoBypass
  <1> QED BY <1>2, <1>3, <1>5, <1>6, <1>7 DEF MuxInv

\* Every step of the multiplexer preserves the inductive invariant.
LEMMA MuxStep == MuxInv /\ [Next]_muxVars => MuxInv'
  <1> SUFFICES ASSUME MuxInv, [Next]_muxVars PROVE MuxInv'
    OBVIOUS
  <1>1. ShapeOK /\ ReadyIndexExact /\ CountInv /\ FramesFit /\ SchedulerBounds /\ BypassInv
    BY DEF MuxInv
  <1>2. ShapeOK'
    BY <1>1, ShapeStep
  <1>3. ReadyIndexExact'
    BY <1>1, ReadyStep
  <1>4. CountInv'
    BY <1>1, <1>2, CountStep
  <1>5. FramesFit'
    BY <1>1, FitStep
  <1>6. SchedulerBounds'
    BY <1>1, <1>2, SchedulerStep
  <1>7. BypassInv'
    BY <1>1, <1>2, BypassStep
  <1> QED BY <1>2, <1>3, <1>4, <1>5, <1>6, <1>7 DEF MuxInv

\* MuxInv is an inductive invariant of the multiplexer, for any channel
\* configurations, envelopes and limits.
THEOREM MuxInvariant == Spec => []MuxInv
  BY MuxInit, MuxStep, PTL DEF Spec

\* Type correctness; total_pending, a usize, never underflows.
THEOREM TypeCorrect == Spec => []TypeOK
  <1>1. MuxInv => TypeOK
    <2> SUFFICES ASSUME MuxInv PROVE TypeOK
      OBVIOUS
    <2>1. Cardinality(PendingSlots) \in Nat
      BY FS_CardinalityType DEF MuxInv, CountInv
    <2> QED BY <2>1 DEF MuxInv, CountInv, PendingExact, TypeOK
  <1> QED BY <1>1, MuxInvariant, PTL

\* The cached counter is the number of queued frames.
THEOREM PendingIsExact == Spec => []PendingExact
  <1>1. MuxInv => PendingExact
    BY DEF MuxInv, CountInv
  <1> QED BY <1>1, MuxInvariant, PTL

\* No accepted frame is lost without being reported.
THEOREM NoFrameUnaccounted == Spec => []FramesAccountedFor
  <1>1. MuxInv => FramesAccountedFor
    BY DEF MuxInv, CountInv
  <1> QED BY <1>1, MuxInvariant, PTL

\* The ready list is exactly the set of channels with a frame.
THEOREM ReadyIsExact == Spec => []ReadyIndexExact
  <1>1. MuxInv => ReadyIndexExact
    BY DEF MuxInv
  <1> QED BY <1>1, MuxInvariant, PTL

\* The scheduler's finish times stay within one frame of its clock.
THEOREM SchedulerIsFair == Spec => []SchedulerBounds
  <1>1. MuxInv => SchedulerBounds
    BY DEF MuxInv
  <1> QED BY <1>1, MuxInvariant, PTL

\* While one frame waits at the head of its queue, no other channel is served
\* more often than the frame's own largest scheduling cost: starvation is
\* impossible for every set of priorities, frame sizes and arrival patterns.
THEOREM NoStarvation == Spec => []BoundedBypass
  <1>1. MuxInv => BoundedBypass
    BY DEF MuxInv, BypassInv
  <1> QED BY <1>1, MuxInvariant, PTL

-----------------------------------------------------------------------------
(* The multiplexer implements ChannelQueues, step by step: the initial state maps to an  *)
(* initial state, and every step to a step of the abstract queues or to no change.       *)

\* The queues without their scheduling state.
Backlog == [c \in Open |-> channels[c].queue]

\* The channels cancel_channel has marked.
Marked == {c \in Open : channels[c].cancelled}

\* Cardinality means the same in the instance.
LEMMA SameCardinality == ASSUME NEW S PROVE Queues!Cardinality(S) = Cardinality(S)
  BY Zenon DEF Queues!Cardinality, Cardinality

\* The abstract queues hold as many frames as the counter says.
LEMMA CountMapped ==
    ASSUME ShapeOK, CountInv
    PROVE  Queues!Cardinality(Queues!QueuedFrames) = total_pending
  <1>1. /\ QueueLengths \in [Open \cup {0} -> Nat]
        /\ QueueLengths[0] = Len(control)
        /\ \A c \in Open : QueueLengths[c] = Len(channels[c].queue)
    BY LengthTypes
  <1>2. \A x : x \in PendingSlots <=>
            \E c \in Open \cup {0} : \E i \in 1..QueueLengths[c] : x = <<c, i>>
    BY <1>1, SlotsMember DEF PendingSlots
  <1>3. \A x : x \in Queues!QueuedFrames <=>
            \/ \E i \in 1..Len(control) : x = <<0, i>>
            \/ \E c \in Open : \E i \in 1..Len(channels[c].queue) : x = <<c, i>>
    BY DEF Queues!QueuedFrames
  <1>4. \A x : x \in Queues!QueuedFrames <=> x \in PendingSlots
    BY <1>1, <1>2, <1>3
  <1>5. Queues!QueuedFrames = PendingSlots
    BY <1>4, Zenon
  <1> QED BY <1>5, SameCardinality DEF CountInv, PendingExact

-----------------------------------------------------------------------------
(* One lemma per operation. *)

\* open_channel opens an abstract channel; the bound on open and retired
\* channels together is a bound on their union.
LEMMA OpenMaps ==
    ASSUME ShapeOK, NEW config \in Configs, OpenChannel(config)
    PROVE  Queues!Open(config.id)
  <1>1. PICK p : p = config.id
    OBVIOUS
  <1>2. /\ p \notin Open \cup retired
        /\ Open' = Open \cup {p}
        /\ \A d \in Open : channels'[d] = channels[d]
        /\ channels'[p].queue = <<>>
        /\ channels'[p].cancelled = FALSE
        /\ UNCHANGED <<retired, control>>
    BY <1>1, OpenEffect
  <1>3. Cardinality(Open \cup retired) < MaxChannels
    <2>1. Open \subseteq ChannelIds /\ retired \subseteq ChannelIds /\ IsFiniteSet(ChannelIds)
      BY LimitsAssumption DEF ShapeOK
    <2>2. IsFiniteSet(Open) /\ IsFiniteSet(retired) /\ IsFiniteSet(Open \cap retired)
      BY <2>1, FS_Subset
    <2>3. Cardinality(Open \cup retired)
            = Cardinality(Open) + Cardinality(retired) - Cardinality(Open \cap retired)
      BY <2>2, FS_Union
    <2>4. /\ Cardinality(Open) \in Nat /\ Cardinality(retired) \in Nat
          /\ Cardinality(Open \cap retired) \in Nat
      BY <2>2, FS_CardinalityType
    <2>5. Cardinality(Open) + Cardinality(retired) < MaxChannels
      BY DEF OpenChannel, OpenAdmitted
    <2>6. MaxChannels \in Nat
      BY LimitsAssumption
    <2> QED BY <2>3, <2>4, <2>5, <2>6
  <1>4. Backlog' = [d \in Open \cup {p} |-> IF d = p THEN <<>> ELSE Backlog[d]]
    BY <1>2 DEF Backlog
  <1>5. Marked' = Marked
    BY <1>2 DEF Marked
  <1>6. DOMAIN Backlog = Open
    BY DEF Backlog
  <1>7. Queues!Cardinality(DOMAIN Backlog \cup retired) < MaxChannels
    BY <1>3, <1>6, SameCardinality
  <1> QED BY <1>1, <1>2, <1>4, <1>5, <1>6, <1>7 DEF Queues!Open, Backlog, Marked

\* enqueue and enqueue_discardable append to the abstract channel, and only
\* when the number of frames really queued is below the limit.
LEMMA EnqueueMaps ==
    ASSUME ShapeOK, CountInv, NEW e \in Envelopes, Enqueue(e) \/ EnqueueDiscardable(e)
    PROVE  \E c \in ChannelIds : Queues!Accept(c)
  <1>1. PICK bytes \in Nat : e.channel_id \in Open /\ PushFrame(e, bytes)
    BY EnqueueIsPush
  <1>2. PICK p : p = e.channel_id
    OBVIOUS
  <1>3. /\ p \in Open /\ p \in ChannelIds
        /\ Open' = Open
        /\ \A d \in Open \ {p} : channels'[d] = channels[d]
        /\ channels'[p].queue = Append(channels[p].queue, e.length)
        /\ channels'[p].cancelled = channels[p].cancelled
        /\ UNCHANGED <<retired, control>>
    BY <1>1, <1>2, PushEffect
  <1>4. ~ channels[p].cancelled
    BY <1>2 DEF Enqueue, EnqueueDiscardable, ChannelAdmits
  <1>5. Queues!Cardinality(Queues!QueuedFrames) < MaxTotalPending
    <2>1. total_pending < MaxTotalPending
      BY DEF Enqueue, EnqueueDiscardable, RoomFor
    <2> QED BY <2>1, CountMapped
  <1>6. e.length \in FrameLengths
    BY DEF FrameLengths
  <1>7. Backlog' = [Backlog EXCEPT ![p] = Append(@, e.length)]
    BY <1>3 DEF Backlog
  <1>8. Marked' = Marked
    BY <1>3 DEF Marked
  <1>9. p \in DOMAIN Backlog \ Marked
    BY <1>3, <1>4 DEF Backlog, Marked
  <1>10. \E length \in FrameLengths : Backlog' = [Backlog EXCEPT ![p] = Append(@, length)]
    BY <1>6, <1>7
  <1>11. Queues!Accept(p)
    BY <1>3, <1>5, <1>8, <1>9, <1>10 DEF Queues!Accept, Backlog, Marked
  <1> QED BY <1>3, <1>11

\* next_outbound takes the oldest frame of one abstract channel, and only when
\* no control frame waits.
LEMMA PopMaps ==
    ASSUME ShapeOK, NEW i \in DOMAIN ready, NextData(i)
    PROVE  \E c \in ChannelIds : Queues!Deliver(c)
  <1>1. PICK p : p = ready[i]
    OBVIOUS
  <1>2. /\ p \in Open /\ p \in ChannelIds
        /\ channels[p].queue # <<>>
        /\ Open' = Open
        /\ \A d \in Open \ {p} : channels'[d] = channels[d]
        /\ channels'[p].queue = Tail(channels[p].queue)
        /\ channels'[p].cancelled = channels[p].cancelled
        /\ UNCHANGED <<retired, control>>
    BY <1>1, PopEffect
  <1>3. control = <<>>
    BY DEF NextData
  <1>4. Backlog' = [Backlog EXCEPT ![p] = Tail(@)]
    BY <1>2 DEF Backlog
  <1>5. Marked' = Marked
    BY <1>2 DEF Marked
  <1>6. p \in DOMAIN Backlog /\ Backlog[p] # <<>>
    BY <1>2 DEF Backlog
  <1>7. Queues!Deliver(p)
    BY <1>2, <1>3, <1>4, <1>5, <1>6 DEF Queues!Deliver, Backlog, Marked
  <1> QED BY <1>2, <1>7

\* cancel_channel cancels the abstract channel.
LEMMA CancelMaps ==
    ASSUME ShapeOK, NEW p \in ChannelIds, CancelChannel(p)
    PROVE  Queues!Cancel(p)
  <1>1. /\ p \in Open
        /\ Open' = Open
        /\ \A d \in Open \ {p} : channels'[d] = channels[d]
        /\ channels'[p].queue = <<>>
        /\ channels'[p].cancelled = TRUE
        /\ UNCHANGED <<retired, control>>
    BY CancelEffect
  <1>2. Backlog' = [Backlog EXCEPT ![p] = <<>>]
    BY <1>1 DEF Backlog
  <1>3. Marked' = Marked \cup {p}
    BY <1>1 DEF Marked
  <1>4. p \in DOMAIN Backlog
    BY <1>1 DEF Backlog
  <1> QED BY <1>1, <1>2, <1>3, <1>4 DEF Queues!Cancel, Backlog, Marked

\* close_channel closes the abstract channel for good.
LEMMA CloseMaps ==
    ASSUME ShapeOK, NEW p \in ChannelIds, CloseChannel(p)
    PROVE  Queues!Close(p)
  <1>1. /\ p \in Open
        /\ Open' = Open \ {p}
        /\ \A d \in Open \ {p} : channels'[d] = channels[d]
        /\ retired' = retired \cup {p}
        /\ UNCHANGED control
    BY CloseEffect
  <1>2. Backlog' = [d \in DOMAIN Backlog \ {p} |-> Backlog[d]]
    BY <1>1 DEF Backlog
  <1>3. Marked' = Marked \ {p}
    BY <1>1 DEF Marked
  <1>4. p \in DOMAIN Backlog
    BY <1>1 DEF Backlog
  <1> QED BY <1>1, <1>2, <1>3, <1>4 DEF Queues!Close, Backlog, Marked

\* discard_all empties every abstract queue.
LEMMA DiscardMaps ==
    ASSUME ShapeOK, DiscardAll
    PROVE  Queues!DiscardAll
  <1>1. /\ Open' = Open
        /\ \A c \in Open : /\ channels'[c].queue = <<>>
                           /\ channels'[c].cancelled = channels[c].cancelled
    BY DiscardEffect
  <1>2. Backlog' = [c \in DOMAIN Backlog |-> <<>>]
    BY <1>1 DEF Backlog
  <1>3. Marked' = Marked
    BY <1>1 DEF Marked
  <1>4. control' = <<>> /\ UNCHANGED retired
    BY DEF DiscardAll
  <1> QED BY <1>2, <1>3, <1>4 DEF Queues!DiscardAll, Backlog, Marked

-----------------------------------------------------------------------------
(* The refinement. *)

\* A new multiplexer maps to empty queues.
LEMMA InitMaps == Init => Queues!Init
  <1> SUFFICES ASSUME Init PROVE Queues!Init
    OBVIOUS
  <1>1. Open = {} /\ retired = {} /\ control = <<>>
    BY DEF Init, Open
  <1>2. Backlog = [c \in {} |-> <<>>] /\ Marked = {}
    BY <1>1 DEF Backlog, Marked
  <1> QED BY <1>1, <1>2 DEF Queues!Init, Backlog, Marked

\* Every step is a step of the abstract queues or leaves them as they are.
LEMMA StepMaps ==
    ASSUME MuxInv, [Next]_muxVars
    PROVE  [Queues!Next]_(Queues!queueVars)
  <1>1. ShapeOK /\ CountInv
    BY DEF MuxInv
  <1>2. ASSUME NEW config \in Configs, OpenChannel(config)
        PROVE  Queues!Next
    <2>1. config.id \in ChannelIds
      BY <1>1, <1>2, OpenEffect
    <2>2. Queues!Open(config.id)
      BY <1>1, <1>2, OpenMaps
    <2> QED BY <2>1, <2>2 DEF Queues!Next
  <1>3. ASSUME NEW length \in ControlLengths, EnqueueControl(length)
        PROVE  Queues!Next
    <2>1. /\ Len(control) < ControlQueueCapacity
          /\ control' = Append(control, length)
          /\ length \in FrameLengths
          /\ UNCHANGED <<channels, retired>>
      BY <1>3 DEF EnqueueControl, FrameLengths
    <2>2. Backlog' = Backlog /\ Marked' = Marked
      BY <2>1 DEF Backlog, Marked, Open
    <2>3. \E l \in FrameLengths : control' = Append(control, l)
      BY <2>1
    <2>4. Queues!AcceptControl
      BY <2>1, <2>2, <2>3 DEF Queues!AcceptControl, Backlog, Marked
    <2> QED BY <2>4 DEF Queues!Next
  <1>4. ASSUME NEW e \in Envelopes, Enqueue(e) \/ EnqueueDiscardable(e)
        PROVE  Queues!Next
    BY <1>1, <1>4, EnqueueMaps DEF Queues!Next
  <1>5. ASSUME NextControl
        PROVE  Queues!Next
    <2>1. control # <<>> /\ control' = Tail(control) /\ UNCHANGED <<channels, retired>>
      BY <1>5 DEF NextControl
    <2>2. Backlog' = Backlog /\ Marked' = Marked
      BY <2>1 DEF Backlog, Marked, Open
    <2>3. Queues!DeliverControl
      BY <2>1, <2>2 DEF Queues!DeliverControl, Backlog, Marked
    <2> QED BY <2>3 DEF Queues!Next, Queues!DeliverNext
  <1>6. ASSUME NEW i \in DOMAIN ready, NextData(i)
        PROVE  Queues!Next
    BY <1>1, <1>6, PopMaps DEF Queues!Next, Queues!DeliverNext
  <1>7. ASSUME NEW c \in ChannelIds, CancelChannel(c) \/ CloseChannel(c)
        PROVE  Queues!Next
    BY <1>1, <1>7, CancelMaps, CloseMaps DEF Queues!Next
  <1>8. ASSUME DiscardAll
        PROVE  Queues!Next
    BY <1>1, <1>8, DiscardMaps DEF Queues!Next
  <1>9. ASSUME NextNone \/ UNCHANGED muxVars
        PROVE  UNCHANGED Queues!queueVars
    <2>1. UNCHANGED <<channels, retired, control>>
      BY <1>9 DEF NextNone, muxVars, codeVars
    <2>2. Backlog' = Backlog /\ Marked' = Marked
      BY <2>1 DEF Backlog, Marked, Open
    <2> QED BY <2>1, <2>2 DEF Queues!queueVars, Backlog, Marked
  <1>10. \/ \E config \in Configs : OpenChannel(config)
         \/ \E length \in ControlLengths : EnqueueControl(length)
         \/ \E e \in Envelopes : Enqueue(e) \/ EnqueueDiscardable(e)
         \/ NextControl
         \/ \E i \in DOMAIN ready : NextData(i)
         \/ \E c \in ChannelIds : CancelChannel(c) \/ CloseChannel(c)
         \/ DiscardAll
         \/ NextNone \/ UNCHANGED muxVars
    BY Zenon DEF Next, NextOutbound
  <1> QED BY <1>2, <1>3, <1>4, <1>5, <1>6, <1>7, <1>8, <1>9, <1>10, Zenon

\* The safety part of ImplementsQueues, for every value of the constants: the
\* cached counter, the ready list and virtual time never admit, reorder,
\* duplicate or lose a frame that FIFO queues with a true count would not.
THEOREM RefinesQueues == Spec => Queues!SafeSpec
  <1>1. Init => Queues!Init
    BY InitMaps
  <1>2. MuxInv /\ [Next]_muxVars => [Queues!Next]_(Queues!queueVars)
    BY StepMaps
  <1> QED BY <1>1, <1>2, MuxInvariant, PTL DEF Spec, Queues!SafeSpec

-----------------------------------------------------------------------------
(* The session and its multiplexer. *)

\* Whatever the session does to its multiplexer is a step of the multiplexer.
LEMMA MuxStepOrStutter ==
    ASSUME [SessionNext]_sessionVars
    PROVE  [Next]_muxVars
  <1>1. ASSUME NEW v \in ValidatedChannels, OpenChannel(v.config)
        PROVE  Next
    BY <1>1, SessionAssumption DEF Next
  <1>2. CASE \E v \in ValidatedChannels : OpenValidatedChannel(v)
    BY <1>1, <1>2 DEF OpenValidatedChannel
  <1>3. CASE \E v \in ValidatedChannels : OpenLegacyValidatedChannel(v)
    BY <1>1, <1>3 DEF OpenLegacyValidatedChannel
  <1>4. CASE \E id \in ChannelIds : CloseSessionChannel(id)
    BY <1>4 DEF CloseSessionChannel, Next
  <1>5. CASE DataAccept
    BY <1>5, Zenon DEF DataAccept, Next
  <1>6. CASE \E id \in ChannelIds : DataCancel(id)
    BY <1>6 DEF DataCancel, Next
  <1>7. CASE DataNext
    BY <1>7 DEF DataNext, Next
  <1>8. CASE Report \/ BeginDrain \/ FinishDrain
    BY <1>8 DEF Report, BeginDrain, FinishDrain
  <1>9. CASE Abort \/ \E reason \in FailReasons : Fail(reason)
    BY <1>9 DEF Abort, Fail, Next
  <1>10. CASE \/ \E capacity \in Capacities : Subscribe(capacity)
              \/ \E s \in DOMAIN subscribers : NextEvent(s)
              \/ \E s \in DOMAIN subscribers : Unsubscribe(s)
    BY <1>10 DEF Subscribe, NextEvent, Unsubscribe
  <1>11. CASE UNCHANGED sessionVars
    BY <1>11 DEF sessionVars
  <1> QED
    BY <1>2, <1>3, <1>4, <1>5, <1>6, <1>7, <1>8, <1>9, <1>10, <1>11, Zenon DEF SessionNext

-----------------------------------------------------------------------------
(* A terminal session is clean. *)

\* A session that has ended queues nothing.
EndedEmpty == Terminal => total_pending = 0

\* Nothing queued: no slot, no control frame, no candidate.
LEMMA EmptyMux ==
    ASSUME MuxInv, total_pending = 0
    PROVE  /\ PendingSlots = {}
           /\ control = <<>>
           /\ \A c \in Open : channels[c].queue = <<>>
           /\ Candidates = {}
           /\ ready = <<>>
  <1>0. ShapeOK /\ CountInv /\ ReadyIndexExact
    BY DEF MuxInv
  <1>1. PendingSlots = {}
    BY <1>0, FS_EmptySet DEF CountInv, PendingExact
  <1>2. /\ QueueLengths \in [Open \cup {0} -> Nat]
        /\ QueueLengths[0] = Len(control)
        /\ \A c \in Open : QueueLengths[c] = Len(channels[c].queue)
    BY <1>0, LengthTypes
  <1>3. \A x : x \in PendingSlots <=>
            \E c \in Open \cup {0} : \E i \in 1..QueueLengths[c] : x = <<c, i>>
    BY <1>2, SlotsMember DEF PendingSlots
  <1>4. ASSUME NEW c \in Open \cup {0}
        PROVE  QueueLengths[c] = 0
    <2>1. QueueLengths[c] \in Nat
      BY <1>2
    <2>2. 1 \notin 1..QueueLengths[c]
      BY <1>1, <1>3
    <2> QED BY <2>1, <2>2
  <1>5. control = <<>>
    BY <1>0, <1>2, <1>4, EmptySeq DEF ShapeOK
  <1>6. ASSUME NEW c \in Open
        PROVE  channels[c].queue = <<>>
    <2>1. PICK q : q = channels[c].queue
      OBVIOUS
    <2>2. q \in Seq(Nat) /\ Len(q) = 0
      BY <1>0, <1>2, <1>4, <2>1, StateTypes DEF ShapeOK
    <2> QED BY <2>1, <2>2, NonEmptyLen
  <1>7. Candidates = {}
    BY <1>6 DEF Candidates
  <1>8. ready = <<>>
    <2>1. ready \in Seq(ChannelIds) /\ ToSet(ready) = {}
      BY <1>0, <1>6 DEF ShapeOK, ReadyIndexExact
    <2> QED BY <2>1, EmptySeq DEF ToSet
  <1> QED BY <1>1, <1>5, <1>6, <1>7, <1>8

\* No step refills an ended session: the data plane refuses new frames, a drain
\* ends with empty queues, and abort and fail discard first.
LEMMA EndedStep ==
    ASSUME MuxInv, EndedEmpty, [SessionNext]_sessionVars
    PROVE  EndedEmpty'
  <1>1. CASE \/ \E v \in ValidatedChannels : OpenValidatedChannel(v)
             \/ \E v \in ValidatedChannels : OpenLegacyValidatedChannel(v)
             \/ DataAccept
             \/ \E id \in ChannelIds : DataCancel(id)
             \/ Report
    <2>1. Active /\ UNCHANGED state
      BY <1>1 DEF OpenValidatedChannel, OpenLegacyValidatedChannel, DataAccept, DataCancel,
                  Report, SessionUnchanged
    <2> QED BY <2>1 DEF EndedEmpty, Terminal, Active
  <1>2. CASE \E id \in ChannelIds : CloseSessionChannel(id)
    <2>1. PICK id \in ChannelIds : CloseChannel(id) /\ UNCHANGED state
      BY <1>2 DEF CloseSessionChannel
    <2>2. /\ total_pending' = MaxOf(0, total_pending - Len(channels[id].queue))
          /\ Len(channels[id].queue) \in Nat
      BY <2>1, CloseEffect DEF MuxInv
    <2> QED BY <2>1, <2>2 DEF EndedEmpty, Terminal, MaxOf
  <1>3. CASE DataNext
    <2>1. NextOutbound /\ UNCHANGED state
      BY <1>3 DEF DataNext, SessionUnchanged
    <2>2. ASSUME Terminal PROVE total_pending' = 0
      <3>1. control = <<>> /\ Candidates = {} /\ total_pending = 0
        BY <2>2, EmptyMux DEF EndedEmpty
      <3>2. ~ NextControl
        BY <3>1 DEF NextControl
      <3>3. ~ \E j \in DOMAIN ready : NextData(j)
        BY <3>1 DEF NextData, Selected
      <3>4. NextNone
        BY <2>1, <3>2, <3>3 DEF NextOutbound
      <3> QED BY <3>1, <3>4 DEF NextNone
    <2> QED BY <2>1, <2>2 DEF EndedEmpty, Terminal
  <1>4. CASE BeginDrain
    BY <1>4 DEF BeginDrain, EndedEmpty, Terminal
  <1>5. CASE FinishDrain
    BY <1>5 DEF FinishDrain, EndedEmpty, muxVars, codeVars
  <1>6. CASE Abort \/ \E reason \in FailReasons : Fail(reason)
    BY <1>6 DEF Abort, Fail, DiscardAll, EndedEmpty
  <1>7. CASE \/ \E capacity \in Capacities : Subscribe(capacity)
             \/ \E s \in DOMAIN subscribers : NextEvent(s)
             \/ \E s \in DOMAIN subscribers : Unsubscribe(s)
    BY <1>7 DEF Subscribe, NextEvent, Unsubscribe, EndedEmpty, Terminal, muxVars, codeVars
  <1>8. CASE UNCHANGED sessionVars
    BY <1>8 DEF sessionVars, EndedEmpty, Terminal, muxVars, codeVars
  <1> QED BY <1>1, <1>2, <1>3, <1>4, <1>5, <1>6, <1>7, <1>8, Zenon DEF SessionNext

-----------------------------------------------------------------------------
(* The channel map. *)

\* Every step of the multiplexer but opening and closing keeps the set of open
\* channels, their configurations and the retired ids.
LEMMA ConfigsKept ==
    ASSUME ShapeOK,
           \/ \E e \in Envelopes : Enqueue(e) \/ EnqueueDiscardable(e)
           \/ \E length \in ControlLengths : EnqueueControl(length)
           \/ NextOutbound
           \/ \E c \in ChannelIds : CancelChannel(c)
           \/ DiscardAll
           \/ UNCHANGED muxVars
    PROVE  /\ Open' = Open
           /\ \A c \in Open : channels'[c].config = channels[c].config
           /\ UNCHANGED retired
  <1>1. ASSUME NEW e \in Envelopes, Enqueue(e) \/ EnqueueDiscardable(e)
        PROVE  /\ Open' = Open
               /\ \A c \in Open : channels'[c].config = channels[c].config
               /\ UNCHANGED retired
    <2>1. PICK bytes \in Nat : e.channel_id \in Open /\ PushFrame(e, bytes)
      BY <1>1, EnqueueIsPush
    <2>2. PICK p : p = e.channel_id
      OBVIOUS
    <2>3. /\ Open' = Open
          /\ \A d \in Open \ {p} : channels'[d] = channels[d]
          /\ channels'[p].config = channels[p].config
          /\ UNCHANGED retired
      BY <2>1, <2>2, PushEffect
    <2> QED BY <2>3
  <1>2. ASSUME NEW i \in DOMAIN ready, NextData(i)
        PROVE  /\ Open' = Open
               /\ \A c \in Open : channels'[c].config = channels[c].config
               /\ UNCHANGED retired
    <2>1. PICK p : p = ready[i]
      OBVIOUS
    <2>2. /\ Open' = Open
          /\ \A d \in Open \ {p} : channels'[d] = channels[d]
          /\ channels'[p].config = channels[p].config
          /\ UNCHANGED retired
      BY <1>2, <2>1, PopEffect
    <2> QED BY <2>2
  <1>3. ASSUME NEW p \in ChannelIds, CancelChannel(p)
        PROVE  /\ Open' = Open
               /\ \A c \in Open : channels'[c].config = channels[c].config
               /\ UNCHANGED retired
    <2>1. /\ Open' = Open
          /\ \A d \in Open \ {p} : channels'[d] = channels[d]
          /\ channels'[p].config = channels[p].config
          /\ UNCHANGED retired
      BY <1>3, CancelEffect
    <2> QED BY <2>1
  <1>4. CASE DiscardAll
    BY <1>4, DiscardEffect DEF DiscardAll
  <1>5. CASE \/ \E length \in ControlLengths : EnqueueControl(length)
             \/ NextControl
             \/ NextNone
             \/ UNCHANGED muxVars
    BY <1>5 DEF EnqueueControl, NextControl, NextNone, muxVars, codeVars, Open
  <1> QED BY <1>1, <1>2, <1>3, <1>4, <1>5 DEF NextOutbound

\* Binding a new pair keeps the two indexes inverse.
LEMMA BindKeepsInverse ==
    ASSUME \A k \in DOMAIN by_protocol : by_protocol[k] \in DOMAIN by_session
                                         /\ by_session[by_protocol[k]] = k,
           \A c \in DOMAIN by_session : by_session[c] \in DOMAIN by_protocol
                                        /\ by_protocol[by_session[c]] = c,
           NEW key, NEW id, key \notin DOMAIN by_protocol, id \notin DOMAIN by_session,
           Bind(key, id)
    PROVE  /\ \A k \in DOMAIN by_protocol' : by_protocol'[k] \in DOMAIN by_session'
                                             /\ by_session'[by_protocol'[k]] = k
           /\ \A c \in DOMAIN by_session' : by_session'[c] \in DOMAIN by_protocol'
                                            /\ by_protocol'[by_session'[c]] = c
           /\ DOMAIN by_session' = DOMAIN by_session \cup {id}
           /\ by_session'[id] = key
           /\ \A c \in DOMAIN by_session : by_session'[c] = by_session[c]
           /\ map_retired' = map_retired
  <1>1. /\ DOMAIN by_protocol' = DOMAIN by_protocol \cup {key}
        /\ DOMAIN by_session' = DOMAIN by_session \cup {id}
        /\ by_protocol'[key] = id /\ by_session'[id] = key
        /\ \A k \in DOMAIN by_protocol : by_protocol'[k] = by_protocol[k]
        /\ \A c \in DOMAIN by_session : by_session'[c] = by_session[c]
        /\ map_retired' = map_retired
    BY DEF Bind
  <1> QED BY <1>1

\* Unbinding an id removes it from both indexes.
LEMMA UnbindKeepsInverse ==
    ASSUME \A k \in DOMAIN by_protocol : by_protocol[k] \in DOMAIN by_session
                                         /\ by_session[by_protocol[k]] = k,
           \A c \in DOMAIN by_session : by_session[c] \in DOMAIN by_protocol
                                        /\ by_protocol[by_session[c]] = c,
           NEW id, id \in DOMAIN by_session, Unbind(id)
    PROVE  /\ \A k \in DOMAIN by_protocol' : by_protocol'[k] \in DOMAIN by_session'
                                             /\ by_session'[by_protocol'[k]] = k
           /\ \A c \in DOMAIN by_session' : by_session'[c] \in DOMAIN by_protocol'
                                            /\ by_protocol'[by_session'[c]] = c
           /\ DOMAIN by_session' = DOMAIN by_session \ {id}
           /\ \A c \in DOMAIN by_session' : by_session'[c] = by_session[c]
           /\ map_retired' = map_retired \cup {id}
  <1>1. PICK key : key = by_session[id]
    OBVIOUS
  <1>2. /\ DOMAIN by_protocol' = DOMAIN by_protocol \ {key}
        /\ DOMAIN by_session' = DOMAIN by_session \ {id}
        /\ \A k \in DOMAIN by_protocol' : by_protocol'[k] = by_protocol[k]
        /\ \A c \in DOMAIN by_session' : by_session'[c] = by_session[c]
        /\ map_retired' = map_retired \cup {id}
    BY <1>1 DEF Unbind
  <1> QED BY <1>1, <1>2

\* Every step keeps the map and the multiplexer in agreement.
LEMMA MapStep ==
    ASSUME ShapeOK, ChannelMapExact, [SessionNext]_sessionVars
    PROVE  ChannelMapExact'
  <1>0. /\ \A k \in DOMAIN by_protocol : by_protocol[k] \in DOMAIN by_session
                                         /\ by_session[by_protocol[k]] = k
        /\ \A c \in DOMAIN by_session : by_session[c] \in DOMAIN by_protocol
                                        /\ by_protocol[by_session[c]] = c
    BY DEF ChannelMapExact
  <1>1. ASSUME NEW v \in ValidatedChannels, OpenValidatedChannel(v)
        PROVE  ChannelMapExact'
    <2>1. PICK config \in Configs : config = v.config
      BY SessionAssumption
    <2>2. PICK id : id = config.id
      OBVIOUS
    <2>3. PICK key : key = config.key
      OBVIOUS
    <2>4. /\ data_mode = "CompactV1" /\ data_mode' = data_mode
          /\ key \notin DOMAIN by_protocol /\ id \notin DOMAIN by_session
          /\ OpenChannel(config)
          /\ Bind(key, id)
      BY <1>1, <2>1, <2>2, <2>3 DEF OpenValidatedChannel, ValidBind, modes
    <2>5. /\ Open' = Open \cup {id}
          /\ \A d \in Open : channels'[d] = channels[d]
          /\ channels'[id].config = config
          /\ retired' = retired
      BY <2>2, <2>4, OpenEffect
    <2>6. /\ \A k \in DOMAIN by_protocol' : by_protocol'[k] \in DOMAIN by_session'
                                            /\ by_session'[by_protocol'[k]] = k
          /\ \A c \in DOMAIN by_session' : by_session'[c] \in DOMAIN by_protocol'
                                           /\ by_protocol'[by_session'[c]] = c
      BY <1>0, <2>4, BindKeepsInverse
    <2>7. /\ DOMAIN by_session' = DOMAIN by_session \cup {id}
          /\ by_session'[id] = key
          /\ \A c \in DOMAIN by_session : by_session'[c] = by_session[c]
          /\ map_retired' = map_retired
      BY <1>0, <2>4, BindKeepsInverse
    <2>8. /\ DOMAIN by_session = Open
          /\ \A c \in Open : by_session[c] = channels[c].config.key
          /\ map_retired = retired
      BY <2>4 DEF ChannelMapExact
    <2>9. \A c \in Open' : by_session'[c] = channels'[c].config.key
      BY <2>3, <2>5, <2>7, <2>8
    <2> QED BY <2>4, <2>5, <2>6, <2>7, <2>8, <2>9 DEF ChannelMapExact
  <1>2. ASSUME NEW v \in ValidatedChannels, OpenLegacyValidatedChannel(v)
        PROVE  ChannelMapExact'
    <2>1. /\ data_mode # "CompactV1"
          /\ UNCHANGED <<data_mode, by_protocol, by_session, map_retired>>
      BY <1>2 DEF OpenLegacyValidatedChannel, modes, mapVars
    <2> QED BY <2>1 DEF ChannelMapExact
  <1>3. ASSUME NEW id \in ChannelIds, CloseSessionChannel(id)
        PROVE  ChannelMapExact'
    <2>1. CloseChannel(id) /\ Unbind(id) /\ data_mode' = data_mode
      BY <1>3 DEF CloseSessionChannel, modes
    <2>2. /\ id \in Open
          /\ Open' = Open \ {id}
          /\ \A d \in Open \ {id} : channels'[d] = channels[d]
          /\ retired' = retired \cup {id}
      BY <2>1, CloseEffect
    <2>3. CASE data_mode = "CompactV1"
      <3>1. /\ DOMAIN by_session = Open
            /\ \A c \in Open : by_session[c] = channels[c].config.key
            /\ map_retired = retired
        BY <2>3 DEF ChannelMapExact
      <3>2. /\ \A k \in DOMAIN by_protocol' : by_protocol'[k] \in DOMAIN by_session'
                                              /\ by_session'[by_protocol'[k]] = k
            /\ \A c \in DOMAIN by_session' : by_session'[c] \in DOMAIN by_protocol'
                                             /\ by_protocol'[by_session'[c]] = c
        BY <1>0, <2>1, <2>2, <3>1, UnbindKeepsInverse
      <3>3. /\ DOMAIN by_session' = DOMAIN by_session \ {id}
            /\ \A c \in DOMAIN by_session' : by_session'[c] = by_session[c]
            /\ map_retired' = map_retired \cup {id}
        BY <1>0, <2>1, <2>2, <3>1, UnbindKeepsInverse
      <3> QED BY <2>1, <2>2, <2>3, <3>1, <3>2, <3>3 DEF ChannelMapExact
    <2>4. CASE data_mode # "CompactV1"
      <3>1. id \notin DOMAIN by_session
        BY <2>4 DEF ChannelMapExact
      <3>2. UNCHANGED <<by_protocol, by_session, map_retired>>
        BY <2>1, <3>1 DEF Unbind, mapVars
      <3> QED BY <2>1, <2>4, <3>2 DEF ChannelMapExact
    <2> QED BY <2>3, <2>4
  <1>4. ASSUME \/ \E e \in Envelopes : Enqueue(e) \/ EnqueueDiscardable(e)
               \/ \E length \in ControlLengths : EnqueueControl(length)
               \/ NextOutbound
               \/ \E c \in ChannelIds : CancelChannel(c)
               \/ DiscardAll
               \/ UNCHANGED muxVars,
               UNCHANGED <<modes, mapVars>>
        PROVE  ChannelMapExact'
    <2>1. /\ Open' = Open
          /\ \A c \in Open : channels'[c].config = channels[c].config
          /\ UNCHANGED retired
      BY <1>4, ConfigsKept
    <2>2. UNCHANGED <<data_mode, by_protocol, by_session, map_retired>>
      BY <1>4 DEF modes, mapVars
    <2> QED BY <2>1, <2>2 DEF ChannelMapExact
  <1>5. CASE \/ DataAccept \/ DataNext \/ \E id \in ChannelIds : DataCancel(id)
    BY <1>4, <1>5 DEF DataAccept, DataNext, DataCancel, SessionUnchanged
  <1>6. CASE \/ Report \/ BeginDrain \/ FinishDrain \/ Abort
             \/ \E reason \in FailReasons : Fail(reason)
    BY <1>4, <1>6 DEF Report, BeginDrain, FinishDrain, Abort, Fail, CloseSession
  <1>7. CASE \/ \E capacity \in Capacities : Subscribe(capacity)
             \/ \E s \in DOMAIN subscribers : NextEvent(s)
             \/ \E s \in DOMAIN subscribers : Unsubscribe(s)
             \/ UNCHANGED sessionVars
    BY <1>4, <1>7 DEF Subscribe, NextEvent, Unsubscribe, sessionVars
  <1> QED BY <1>1, <1>2, <1>3, <1>5, <1>6, <1>7, Zenon DEF SessionNext

-----------------------------------------------------------------------------
(* The event bus. *)

Subscriber == [queue : Seq(SessionEvents), capacity : Nat \ {0}, dropped : Nat]

BusTypes ==
    /\ subscribers \in [DOMAIN subscribers -> Subscriber]
    /\ published \in [DOMAIN subscribers -> Nat]
    /\ received \in [DOMAIN subscribers -> Nat]

\* What publish does to one subscriber: one more event queued or counted as
\* dropped, never more than the capacity, and the new event last.
LEMMA DeliverFacts ==
    ASSUME NEW x \in Subscriber, Len(x.queue) <= x.capacity, NEW event \in SessionEvents,
           NEW y, y = DeliverEvent(x, event)
    PROVE  /\ y \in Subscriber
           /\ y.capacity = x.capacity
           /\ Len(y.queue) <= y.capacity
           /\ y.dropped + Len(y.queue) = x.dropped + Len(x.queue) + 1
           /\ y.queue # <<>> /\ Last(y.queue) = event
  <1>1. PICK q : q = x.queue
    OBVIOUS
  <1>2. /\ q \in Seq(SessionEvents) /\ Len(q) \in Nat
        /\ x.capacity \in Nat \ {0} /\ x.dropped \in Nat
    BY <1>1 DEF Subscriber
  <1>3. CASE Len(q) = x.capacity
    <2>1. q # <<>>
      BY <1>2, <1>3
    <2>2. Tail(q) \in Seq(SessionEvents) /\ Len(Tail(q)) = Len(q) - 1
      BY <1>2, <2>1
    <2>3. PICK r : r = Append(Tail(q), event)
      OBVIOUS
    <2>4. r \in Seq(SessionEvents) /\ Len(r) = Len(q) /\ r[Len(r)] = event
      BY <1>2, <2>2, <2>3
    <2>d. PICK n : n = x.dropped + 1
      OBVIOUS
    <2>e. n \in Nat
      BY <1>2, <2>d
    <2>5. y = [x EXCEPT !.queue = r, !.dropped = n]
      BY <1>1, <1>3, <2>3, <2>d DEF DeliverEvent
    <2>a. y.queue = r /\ y.capacity = x.capacity
      BY <2>5 DEF Subscriber
    <2>b. y.dropped = x.dropped + 1
      BY <2>5, <2>d DEF Subscriber
    <2>c. y \in Subscriber
      BY <2>4, <2>5, <2>e DEF Subscriber
    <2>6. /\ y.queue = r /\ y.dropped = x.dropped + 1 /\ y.capacity = x.capacity
          /\ y \in Subscriber
      BY <2>a, <2>b, <2>c
    <2>7. r # <<>>
      BY <1>2, <1>3, <2>4
    <2> QED BY <1>1, <1>2, <1>3, <2>4, <2>6, <2>7 DEF Last
  <1>4. CASE Len(q) # x.capacity
    <2>1. PICK r : r = Append(q, event)
      OBVIOUS
    <2>2. r \in Seq(SessionEvents) /\ Len(r) = Len(q) + 1 /\ r[Len(r)] = event
      BY <1>2, <2>1
    <2>3. y = [x EXCEPT !.queue = r]
      BY <1>1, <1>4, <2>1 DEF DeliverEvent
    <2>4. /\ y.queue = r /\ y.dropped = x.dropped /\ y.capacity = x.capacity
          /\ y \in Subscriber
      BY <1>2, <2>2, <2>3 DEF Subscriber
    <2>5. r # <<>>
      BY <1>2, <2>2
    <2> QED BY <1>1, <1>2, <1>4, <2>2, <2>4, <2>5 DEF Last
  <1> QED BY <1>3, <1>4

\* Reading the oldest event leaves the newest in place.
LEMMA TailFacts ==
    ASSUME NEW q \in Seq(SessionEvents), q # <<>>
    PROVE  /\ Tail(q) \in Seq(SessionEvents)
           /\ Len(Tail(q)) = Len(q) - 1
           /\ \/ Tail(q) = <<>> /\ Head(q) = Last(q)
              \/ Tail(q) # <<>> /\ Last(Tail(q)) = Last(q)
  <1>1. /\ Len(q) \in Nat /\ Len(q) >= 1
        /\ Tail(q) \in Seq(SessionEvents) /\ Len(Tail(q)) = Len(q) - 1
    OBVIOUS
  <1>2. CASE Len(q) = 1
    <2>1. Tail(q) = <<>>
      <3>1. PICK t : t = Tail(q)
        OBVIOUS
      <3>2. t \in Seq(SessionEvents) /\ Len(t) = 0
        BY <1>1, <1>2, <3>1
      <3>3. t = <<>>
        BY <3>2, EmptySeq
      <3> QED BY <3>1, <3>3
    <2>2. Head(q) = q[1]
      OBVIOUS
    <2> QED BY <1>1, <1>2, <2>1, <2>2 DEF Last
  <1>3. CASE Len(q) > 1
    <2>1. Tail(q) # <<>>
      BY <1>1, <1>3
    <2>2. Tail(q)[Len(q) - 1] = q[Len(q)]
      BY <1>1, <1>3
    <2> QED BY <1>1, <2>1, <2>2 DEF Last
  <1> QED BY <1>1, <1>2, <1>3

\* publish, one event or two, keeps the accounts of every subscriber.
LEMMA PublishFacts ==
    ASSUME BusTypes, EventsAccountedFor, NEW subs, NEW count \in {1, 2}, NEW last,
           \/ /\ count = 1 /\ last \in SessionEvents
              /\ subs = DeliverToAll(subscribers, last)
           \/ /\ count = 2 /\ last = "Closed"
              /\ subs = DeliverToAll(DeliverToAll(subscribers, "StateChanged"), "Closed"),
           Published(subs, count)
    PROVE  /\ BusTypes'
           /\ \A s \in DOMAIN subscribers' :
                /\ published'[s] = received'[s] + subscribers'[s].dropped
                                     + Len(subscribers'[s].queue)
                /\ Len(subscribers'[s].queue) <= subscribers'[s].capacity
                /\ subscribers'[s].queue # <<>> /\ Last(subscribers'[s].queue) = last
  <1>1. /\ DOMAIN subs = DOMAIN subscribers
        /\ subscribers' = subs /\ received' = received
        /\ published' = [s \in DOMAIN subscribers |-> published[s] + count]
    BY DEF DeliverToAll, Published, BusTypes
  <1>2. ASSUME NEW s \in DOMAIN subscribers
        PROVE  /\ subs[s] \in Subscriber
               /\ subs[s].dropped + Len(subs[s].queue)
                    = subscribers[s].dropped + Len(subscribers[s].queue) + count
               /\ Len(subs[s].queue) <= subs[s].capacity
               /\ subs[s].queue # <<>> /\ Last(subs[s].queue) = last
    <2>1. subscribers[s] \in Subscriber /\ Len(subscribers[s].queue) <= subscribers[s].capacity
      BY DEF BusTypes, EventsAccountedFor
    <2>2. CASE count = 1
      <3>1. subs[s] = DeliverEvent(subscribers[s], last) /\ last \in SessionEvents
        BY <2>2 DEF DeliverToAll
      <3> QED BY <2>1, <2>2, <3>1, DeliverFacts
    <2>3. CASE count = 2
      <3>1. PICK x : x = DeliverEvent(subscribers[s], "StateChanged")
        OBVIOUS
      <3>2. subs[s] = DeliverEvent(x, "Closed") /\ last = "Closed"
        BY <2>3, <3>1 DEF DeliverToAll
      <3>3. "StateChanged" \in SessionEvents /\ "Closed" \in SessionEvents
        BY DEF SessionEvents
      <3>4. /\ x \in Subscriber
            /\ Len(x.queue) <= x.capacity
            /\ x.dropped + Len(x.queue) = subscribers[s].dropped + Len(subscribers[s].queue) + 1
        BY <2>1, <3>1, <3>3, DeliverFacts
      <3>5. /\ subs[s] \in Subscriber
            /\ Len(subs[s].queue) <= subs[s].capacity
            /\ subs[s].dropped + Len(subs[s].queue) = x.dropped + Len(x.queue) + 1
            /\ subs[s].queue # <<>> /\ Last(subs[s].queue) = "Closed"
        BY <3>2, <3>3, <3>4, DeliverFacts
      <3>6. subscribers[s].dropped + Len(subscribers[s].queue) \in Nat
        BY <2>1 DEF Subscriber
      <3> QED BY <2>3, <3>2, <3>4, <3>5, <3>6
    <2> QED BY <2>2, <2>3
  <1>3. BusTypes'
    <2>1. subscribers' \in [DOMAIN subscribers -> Subscriber]
      <3>1. subs = [s \in DOMAIN subs |-> subs[s]]
        BY DEF DeliverToAll
      <3> QED BY <1>1, <1>2, <3>1
    <2>2. published' \in [DOMAIN subscribers -> Nat]
      BY <1>1 DEF BusTypes
    <2> QED BY <1>1, <2>1, <2>2 DEF BusTypes
  <1>4. ASSUME NEW s \in DOMAIN subscribers
        PROVE  published'[s] = received'[s] + subs[s].dropped + Len(subs[s].queue)
    <2>1. /\ published[s] = received[s] + subscribers[s].dropped + Len(subscribers[s].queue)
          /\ published'[s] = published[s] + count
          /\ received'[s] = received[s]
      BY <1>1 DEF EventsAccountedFor
    <2>2. /\ received[s] \in Nat /\ published[s] \in Nat /\ count \in Nat
          /\ subscribers[s].dropped \in Nat
          /\ Len(subscribers[s].queue) \in Nat
          /\ subs[s].dropped \in Nat /\ Len(subs[s].queue) \in Nat
      BY <1>2 DEF BusTypes, Subscriber
    <2>3. subs[s].dropped + Len(subs[s].queue)
            = subscribers[s].dropped + Len(subscribers[s].queue) + count
      BY <1>2
    <2>4. PICK a, b : a = published[s] /\ b = received[s]
      OBVIOUS
    <2>5. PICK d, l : d = subscribers[s].dropped /\ l = Len(subscribers[s].queue)
      OBVIOUS
    <2>6. PICK m, n : m = subs[s].dropped /\ n = Len(subs[s].queue)
      OBVIOUS
    <2>7. /\ a \in Nat /\ b \in Nat /\ d \in Nat /\ l \in Nat /\ m \in Nat /\ n \in Nat
          /\ a = b + d + l
          /\ m + n = d + l + count
      BY <2>1, <2>2, <2>3, <2>4, <2>5, <2>6
    <2>8. a + count = b + m + n
      BY <2>7
    <2> QED BY <2>1, <2>4, <2>6, <2>8
  <1> QED BY <1>1, <1>2, <1>3, <1>4

BusInv == BusTypes /\ EventsAccountedFor

\* A step that publishes keeps BusInv: only the last event of a close may find
\* the session terminal.
LEMMA PublishStep ==
    ASSUME BusInv,
           \/ Report \/ BeginDrain \/ FinishDrain \/ Abort
           \/ \E reason \in FailReasons : Fail(reason)
    PROVE  BusInv'
  <1>1. CASE Report \/ BeginDrain
    <2>1. PICK event \in SessionEvents : Publish(event)
      BY <1>1 DEF Report, BeginDrain, SessionEvents
    <2>2. ~ Terminal'
      BY <1>1 DEF Report, BeginDrain, Terminal, Active
    <2>3. /\ BusTypes'
          /\ \A s \in DOMAIN subscribers' :
               /\ published'[s] = received'[s] + subscribers'[s].dropped
                                    + Len(subscribers'[s].queue)
               /\ Len(subscribers'[s].queue) <= subscribers'[s].capacity
      <3>1. PICK subs : subs = DeliverToAll(subscribers, event)
        OBVIOUS
      <3>2. Published(subs, 1)
        BY <2>1, <3>1 DEF Publish
      <3> QED BY <3>1, <3>2, PublishFacts DEF BusInv
    <2> QED BY <2>2, <2>3 DEF BusInv, EventsAccountedFor
  <1>2. CASE FinishDrain \/ Abort \/ \E reason \in FailReasons : Fail(reason)
    <2>1. Published(DeliverToAll(DeliverToAll(subscribers, "StateChanged"), "Closed"), 2)
      BY <1>2 DEF FinishDrain, Abort, Fail, CloseSession
    <2>2. /\ BusTypes'
          /\ \A s \in DOMAIN subscribers' :
               /\ published'[s] = received'[s] + subscribers'[s].dropped
                                    + Len(subscribers'[s].queue)
               /\ Len(subscribers'[s].queue) <= subscribers'[s].capacity
               /\ subscribers'[s].queue # <<>> /\ Last(subscribers'[s].queue) = "Closed"
      <3>1. PICK subs : subs = DeliverToAll(DeliverToAll(subscribers, "StateChanged"), "Closed")
        OBVIOUS
      <3>2. Published(subs, 2)
        BY <2>1, <3>1
      <3> QED BY <3>1, <3>2, PublishFacts DEF BusInv
    <2> QED BY <2>2 DEF BusInv, EventsAccountedFor
  <1> QED BY <1>1, <1>2

\* A new subscriber starts with an empty queue; after the end it has nothing
\* left to be told.
LEMMA SubscribeStep ==
    ASSUME BusInv, NEW capacity \in Capacities, Subscribe(capacity)
    PROVE  BusInv'
  <1>1. PICK x : x = [queue |-> <<>>, capacity |-> capacity, dropped |-> 0]
    OBVIOUS
  <1>2. capacity \in Nat \ {0}
    BY SessionAssumption DEF Subscribe
  <1>3. x \in Subscriber /\ x.queue = <<>> /\ x.capacity = capacity /\ x.dropped = 0
    BY <1>1, <1>2 DEF Subscriber
  <1>4. /\ subscribers' = [s \in DOMAIN subscribers \cup {next_id} |->
                             IF s = next_id THEN x ELSE subscribers[s]]
        /\ published' = [s \in DOMAIN published \cup {next_id} |->
                           IF s = next_id THEN 0 ELSE published[s]]
        /\ received' = [s \in DOMAIN received \cup {next_id} |->
                          IF s = next_id THEN 0 ELSE received[s]]
        /\ told' = IF Terminal THEN told \cup {next_id} ELSE told
        /\ state' = state
    BY <1>1 DEF Subscribe
  <1>5. /\ BusTypes
        /\ DOMAIN published = DOMAIN subscribers /\ DOMAIN received = DOMAIN subscribers
    BY DEF BusInv, BusTypes
  <1>6. BusTypes'
    BY <1>3, <1>4, <1>5 DEF BusTypes
  <1>7. ASSUME NEW s \in DOMAIN subscribers'
        PROVE  /\ published'[s] = received'[s] + subscribers'[s].dropped
                                    + Len(subscribers'[s].queue)
               /\ Len(subscribers'[s].queue) <= subscribers'[s].capacity
               /\ Terminal' => \/ s \in told'
                               \/ /\ subscribers'[s].queue # <<>>
                                  /\ Last(subscribers'[s].queue) = "Closed"
    <2>1. CASE s = next_id
      <3>1. /\ subscribers'[s] = x /\ published'[s] = 0 /\ received'[s] = 0
            /\ Terminal => s \in told'
        BY <1>4, <1>5, <2>1
      <3>2. Terminal' = Terminal
        BY <1>4 DEF Terminal
      <3> QED BY <1>2, <1>3, <3>1, <3>2
    <2>2. CASE s # next_id
      <3>1. /\ s \in DOMAIN subscribers
            /\ subscribers'[s] = subscribers[s] /\ published'[s] = published[s]
            /\ received'[s] = received[s]
            /\ s \in told => s \in told'
        BY <1>4, <1>5, <2>2
      <3>2. Terminal' = Terminal
        BY <1>4 DEF Terminal
      <3> QED BY <3>1, <3>2 DEF BusInv, EventsAccountedFor
    <2> QED BY <2>1, <2>2
  <1> QED BY <1>6, <1>7 DEF BusInv, EventsAccountedFor

\* next reports the dropped events or hands over the oldest one.
LEMMA NextEventStep ==
    ASSUME BusInv, NEW s \in DOMAIN subscribers, NextEvent(s)
    PROVE  BusInv'
  <1>1. PICK x : x = subscribers[s]
    OBVIOUS
  <1>2. PICK q : q = x.queue
    OBVIOUS
  <1>3. PICK p, g : p = published[s] /\ g = received[s]
    OBVIOUS
  <1>4. BusTypes
    BY DEF BusInv
  <1>5. /\ x \in Subscriber /\ q \in Seq(SessionEvents) /\ Len(q) \in Nat
        /\ x.dropped \in Nat /\ x.capacity \in Nat
        /\ p \in Nat /\ g \in Nat
    BY <1>1, <1>2, <1>3, <1>4 DEF BusTypes, Subscriber
  <1>6. /\ p = g + x.dropped + Len(q)
        /\ Len(q) <= x.capacity
        /\ Terminal => s \in told \/ (q # <<>> /\ Last(q) = "Closed")
    BY <1>1, <1>2, <1>3 DEF BusInv, EventsAccountedFor
  <1>7. published' = published /\ Terminal' = Terminal
    BY DEF NextEvent, Terminal
  <1>8. \E y \in Subscriber, h \in Nat :
          /\ subscribers' = [subscribers EXCEPT ![s] = y]
          /\ received' = [received EXCEPT ![s] = h]
          /\ p = h + y.dropped + Len(y.queue)
          /\ Len(y.queue) <= y.capacity
          /\ told \subseteq told'
          /\ Terminal => s \in told' \/ (y.queue # <<>> /\ Last(y.queue) = "Closed")
    <2>1. CASE x.dropped > 0
      <3>1. PICK y : y = [x EXCEPT !.dropped = 0]
        OBVIOUS
      <3>2. y \in Subscriber /\ y.dropped = 0 /\ y.queue = q /\ y.capacity = x.capacity
        BY <1>2, <1>5, <3>1 DEF Subscriber
      <3>3. /\ subscribers' = [subscribers EXCEPT ![s] = y]
            /\ received' = [received EXCEPT ![s] = g + x.dropped]
            /\ told' = told
        BY <1>1, <1>3, <1>5, <2>1, <3>1 DEF NextEvent
      <3>4. PICK h : h = g + x.dropped
        OBVIOUS
      <3>5. h \in Nat /\ p = h + y.dropped + Len(y.queue) /\ Len(y.queue) <= y.capacity
        BY <1>5, <1>6, <3>2, <3>4
      <3> QED BY <1>6, <3>2, <3>3, <3>4, <3>5
    <2>2. CASE x.dropped = 0
      <3>1. q # <<>>
        BY <1>1, <1>2, <2>2 DEF NextEvent
      <3>2. /\ Tail(q) \in Seq(SessionEvents)
            /\ Len(Tail(q)) = Len(q) - 1
            /\ \/ Tail(q) = <<>> /\ Head(q) = Last(q)
               \/ Tail(q) # <<>> /\ Last(Tail(q)) = Last(q)
        BY <1>5, <3>1, TailFacts
      <3>3. PICK y : y = [x EXCEPT !.queue = Tail(q)]
        OBVIOUS
      <3>4. y \in Subscriber /\ y.dropped = 0 /\ y.queue = Tail(q) /\ y.capacity = x.capacity
        BY <1>5, <2>2, <3>2, <3>3 DEF Subscriber
      <3>5. /\ subscribers' = [subscribers EXCEPT ![s] = y]
            /\ received' = [received EXCEPT ![s] = g + 1]
            /\ told' = IF Head(q) = "Closed" THEN told \cup {s} ELSE told
        BY <1>1, <1>2, <1>3, <2>2, <3>3 DEF NextEvent
      <3>6. g + 1 \in Nat /\ p = g + 1 + y.dropped + Len(y.queue) /\ Len(y.queue) <= y.capacity
        BY <1>5, <1>6, <2>2, <3>2, <3>4
      <3>7. /\ told \subseteq told'
            /\ Terminal => s \in told' \/ (y.queue # <<>> /\ Last(y.queue) = "Closed")
        BY <1>6, <3>2, <3>4, <3>5
      <3> QED BY <3>4, <3>5, <3>6, <3>7
    <2> QED BY <1>5, <2>1, <2>2
  <1>9. PICK y \in Subscriber, h \in Nat :
          /\ subscribers' = [subscribers EXCEPT ![s] = y]
          /\ received' = [received EXCEPT ![s] = h]
          /\ p = h + y.dropped + Len(y.queue)
          /\ Len(y.queue) <= y.capacity
          /\ told \subseteq told'
          /\ Terminal => s \in told' \/ (y.queue # <<>> /\ Last(y.queue) = "Closed")
    BY <1>8
  <1>10. /\ DOMAIN subscribers' = DOMAIN subscribers
         /\ subscribers'[s] = y /\ received'[s] = h
         /\ \A t \in DOMAIN subscribers \ {s} : /\ subscribers'[t] = subscribers[t]
                                                /\ received'[t] = received[t]
    BY <1>4, <1>9 DEF BusTypes
  <1>11. BusTypes'
    BY <1>4, <1>7, <1>9 DEF BusTypes
  <1>12. EventsAccountedFor'
    BY <1>3, <1>7, <1>9, <1>10 DEF BusInv, EventsAccountedFor
  <1> QED BY <1>11, <1>12 DEF BusInv

\* Every step keeps the accounts of the bus.
LEMMA BusStep ==
    ASSUME BusInv, [SessionNext]_sessionVars
    PROVE  BusInv'
  <1>1. ASSUME NEW s \in DOMAIN subscribers, Unsubscribe(s)
        PROVE  BusInv'
    <2>1. /\ DOMAIN subscribers' = DOMAIN subscribers \ {s}
          /\ \A t \in DOMAIN subscribers' : /\ subscribers'[t] = subscribers[t]
                                            /\ published'[t] = published[t]
                                            /\ received'[t] = received[t]
                                            /\ t \in told => t \in told'
          /\ state' = state
      BY <1>1 DEF Unsubscribe, BusInv, BusTypes
    <2>2. BusTypes'
      BY <1>1 DEF Unsubscribe, BusInv, BusTypes
    <2>3. Terminal' = Terminal
      BY <2>1 DEF Terminal
    <2>4. EventsAccountedFor'
      BY <2>1, <2>3 DEF BusInv, EventsAccountedFor
    <2> QED BY <2>2, <2>4 DEF BusInv
  <1>2. ASSUME UNCHANGED <<state, busVars>>
        PROVE  BusInv'
    <2>1. UNCHANGED <<state, subscribers, published, received, told>>
      BY <1>2 DEF busVars
    <2> QED BY <2>1 DEF BusInv, BusTypes, EventsAccountedFor, Terminal
  <1>3. CASE \/ \E v \in ValidatedChannels : OpenValidatedChannel(v)
             \/ \E v \in ValidatedChannels : OpenLegacyValidatedChannel(v)
             \/ \E id \in ChannelIds : CloseSessionChannel(id)
             \/ DataAccept
             \/ \E id \in ChannelIds : DataCancel(id)
             \/ DataNext
             \/ UNCHANGED sessionVars
    BY <1>2, <1>3, Zenon DEF OpenValidatedChannel, OpenLegacyValidatedChannel,
          CloseSessionChannel, DataAccept, DataCancel, DataNext, SessionUnchanged, sessionVars
  <1>4. CASE \/ Report \/ BeginDrain \/ FinishDrain \/ Abort
             \/ \E reason \in FailReasons : Fail(reason)
    BY <1>4, PublishStep
  <1>5. CASE \/ \E capacity \in Capacities : Subscribe(capacity)
             \/ \E s \in DOMAIN subscribers : NextEvent(s)
             \/ \E s \in DOMAIN subscribers : Unsubscribe(s)
    BY <1>1, <1>5, SubscribeStep, NextEventStep
  <1> QED BY <1>3, <1>4, <1>5, Zenon DEF SessionNext

-----------------------------------------------------------------------------
(* The theorems. *)

\* The multiplexer's invariant, and the session's own on top of it.
SessionInv == MuxInv /\ EndedEmpty /\ ChannelMapExact /\ BusInv

\* A newly established session satisfies the invariant.
LEMMA SessionInitial == SessionInit => SessionInv
  <1> SUFFICES ASSUME SessionInit PROVE SessionInv
    OBVIOUS
  <1>1. MuxInv
    BY MuxInit DEF SessionInit
  <1>2. EndedEmpty
    BY DEF SessionInit, EndedEmpty, Terminal
  <1>3. ChannelMapExact
    BY DEF SessionInit, Init, ChannelMapExact, Open
  <1>4. BusInv
    BY DEF SessionInit, BusInv, BusTypes, EventsAccountedFor
  <1> QED BY <1>1, <1>2, <1>3, <1>4 DEF SessionInv

\* SessionInv is an inductive invariant of an established session.
THEOREM SessionInvariant == SessionSpec => []SessionInv
  <1>1. SessionInv /\ [SessionNext]_sessionVars => SessionInv'
    <2> SUFFICES ASSUME SessionInv, [SessionNext]_sessionVars PROVE SessionInv'
      OBVIOUS
    <2>1. MuxInv'
      BY MuxStepOrStutter, MuxStep DEF SessionInv
    <2>2. EndedEmpty'
      BY EndedStep DEF SessionInv
    <2>3. ChannelMapExact'
      BY MapStep DEF SessionInv, MuxInv
    <2>4. BusInv'
      BY BusStep DEF SessionInv
    <2> QED BY <2>1, <2>2, <2>3, <2>4 DEF SessionInv
  <1> QED BY <1>1, SessionInitial, PTL DEF SessionSpec

\* A session uses its multiplexer only as the multiplexer allows, so every
\* theorem about Multiplexer holds of the multiplexer of a session.
THEOREM SessionDrivesMultiplexer == SessionSpec => Spec
  <1>1. SessionInit => Init
    BY DEF SessionInit
  <1>2. [SessionNext]_sessionVars => [Next]_muxVars
    BY MuxStepOrStutter
  <1> QED BY <1>1, <1>2, PTL DEF SessionSpec, Spec

\* A terminal session holds no frame, and a graceful close has lost none.
THEOREM EndsClean == SessionSpec => []TerminalIsClean
  <1>1. SessionInv => TerminalIsClean
    <2> SUFFICES ASSUME SessionInv, Terminal
                 PROVE  PendingSlots = {} /\ ready = <<>> /\ accepted = delivered + reported
      BY DEF TerminalIsClean
    <2>1. PendingSlots = {} /\ ready = <<>>
      BY EmptyMux DEF SessionInv, EndedEmpty
    <2>2. accepted = delivered + reported + 0
      BY <2>1, FS_EmptySet DEF SessionInv, MuxInv, CountInv, FramesAccountedFor
    <2>3. delivered \in Nat /\ reported \in Int
      BY DEF SessionInv, MuxInv, ShapeOK
    <2> QED BY <2>1, <2>2, <2>3
  <1> QED BY <1>1, SessionInvariant, PTL

\* Every published event is received, counted as dropped or queued, and the end
\* of the session is never dropped.
THEOREM NoEventUnaccounted == SessionSpec => []EventsAccountedFor
  <1>1. SessionInv => EventsAccountedFor
    BY DEF SessionInv, BusInv
  <1> QED BY <1>1, SessionInvariant, PTL

\* The compact channel map and the multiplexer's tables agree.
THEOREM MapIsExact == SessionSpec => []ChannelMapExact
  <1>1. SessionInv => ChannelMapExact
    BY DEF SessionInv
  <1> QED BY <1>1, SessionInvariant, PTL

=============================================================================
