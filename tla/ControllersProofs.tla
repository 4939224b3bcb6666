------------------------- MODULE ControllersProofs -------------------------
(***************************************************************************)
(* What the heartbeat and the reconnect controller promise, for every      *)
(* valid policy, every tick gap and every clock (Heartbeat, Reconnect),    *)
(* and what follows a reconnect attempt (Resumption).                      *)
(***************************************************************************)
EXTENDS Heartbeat, Reconnect, Resumption, DataFacts, FiniteSetTheorems

-----------------------------------------------------------------------------
(* The heartbeat's inductive invariant *)

LivenessStates == {"Healthy", "LatencyElevated", "TemporarilyUnreachable", "Dead", "PeerClosed"}

IsHeartbeat(h) ==
    h = [ last_liveness |-> h.last_liveness, last_ack |-> h.last_ack,
          next_probe |-> h.next_probe, state |-> h.state, paused |-> h.paused ]

HeartbeatTypes ==
    /\ IsHeartbeat(hb)
    /\ hb.last_liveness \in Nat
    /\ hb.last_ack \in Nat \cup {Never}
    /\ hb.next_probe \in Nat
    /\ hb.state \in LivenessStates
    /\ hb.paused \in BOOLEAN /\ probed \in BOOLEAN /\ excused \in BOOLEAN /\ rested \in BOOLEAN
    /\ clock \in 0 .. U64Max
    /\ ticked \in Nat
    /\ stepped \in Nat

\* Times recorded earlier are ahead of the clock by at most what it stepped back.
TimesInOrder ==
    /\ ticked <= clock
    /\ clock <= ticked + TickGap
    /\ hb.paused => excused /\ rested
    /\ \E profile \in Profiles : hb.next_probe <= clock + stepped + Interval[profile]
    /\ hb.last_ack # Never =>
         /\ hb.last_ack <= clock + stepped
         /\ hb.last_ack <= hb.last_liveness + stepped

\* What the last tick saw, it reported.
TickSawDeath ==
    /\ ~ rested
    /\ hb.state # "PeerClosed"
    /\ ticked >= hb.last_liveness + DeadAfter
    => hb.state = "Dead"

\* A peer that was not asked since its last sign of life is not given up, and its
\* probe is due in time: an acknowledgement puts it off once, and the one tick that
\* passes it by only reports the end of an elevated latency.
NotAskedYet ==
    ~ probed /\ ~ excused =>
        /\ \E profile \in Profiles :
              hb.next_probe <= hb.last_liveness + 2 * Interval[profile] + stepped
        /\ RoomToAsk =>
             /\ hb.state \notin {"TemporarilyUnreachable", "Dead"}
             /\ hb.state = "LatencyElevated" => ticked <= hb.last_liveness
             /\ hb.state = "Healthy" =>
                  \/ ticked < hb.next_probe
                  \/ ticked <= hb.last_liveness + TickGap
                  \/ hb.next_probe = U64Max

HeartbeatInv == HeartbeatTypes /\ TimesInOrder /\ TickSawDeath /\ NotAskedYet

-----------------------------------------------------------------------------
(* Facts about the operators *)

\* Saturating sums and differences stay in the range and are bounded by the exact ones.
LEMMA Saturation ==
    ASSUME NEW a \in Nat, NEW b \in Nat
    PROVE  /\ SatAdd(a, b) \in 0 .. U64Max
           /\ SatAdd(a, b) <= a + b
           /\ SatAdd(a, b) = a + b \/ SatAdd(a, b) = U64Max
           /\ SatSub(a, b) \in Nat
           /\ SatSub(a, b) <= a
           /\ a <= SatSub(a, b) + b
           /\ a >= b => SatSub(a, b) = a - b
           /\ a < b => SatSub(a, b) = 0
  BY ControllersAssumption DEF SatAdd, SatSub, Least

\* Every profile has a positive probe interval.
LEMMA IntervalFacts ==
    /\ Profiles # {}
    /\ \A profile \in Profiles : Interval[profile] \in Nat \ {0}
  BY ControllersAssumption

\* The verdict of a tick tells silence by its two thresholds.
LEMMA VerdictFacts ==
    ASSUME NEW silence \in Nat
    PROVE  /\ silence >= DeadAfter => Verdict(silence) = "Dead"
           /\ silence < UnreachableAfter => Verdict(silence) = "Healthy"
           /\ Verdict(silence) \in {"Healthy", "TemporarilyUnreachable", "Dead"}
  BY ControllersAssumption DEF Verdict

\* A new heartbeat controller satisfies the invariant.
LEMMA HeartbeatInitial == HeartbeatInit => HeartbeatInv
<1> SUFFICES ASSUME HeartbeatInit PROVE HeartbeatInv
  OBVIOUS
<1>1. hb = NewHeartbeat(Epoch) /\ clock = Epoch /\ ticked = Epoch /\ stepped = 0
      /\ probed = FALSE /\ excused = FALSE /\ rested = FALSE
  BY DEF HeartbeatInit
<1>2. Epoch \in 0 .. U64Max /\ Epoch \in Nat /\ U64Max \in Nat
  BY HeartbeatAssumption, ControllersAssumption
<1>3. /\ hb.last_liveness = Epoch /\ hb.last_ack = Never
      /\ hb.next_probe = SatAdd(Epoch, Interval["Idle"])
      /\ hb.state = "Healthy" /\ hb.paused = FALSE
      /\ IsHeartbeat(hb)
  BY <1>1 DEF NewHeartbeat, IsHeartbeat
<1>4. "Idle" \in Profiles /\ Interval["Idle"] \in Nat \ {0}
  BY ControllersAssumption
<1>5. /\ hb.next_probe \in Nat
      /\ hb.next_probe <= Epoch + Interval["Idle"]
      /\ Epoch < hb.next_probe \/ hb.next_probe = U64Max
  <2> DEFINE sum == SatAdd(Epoch, Interval["Idle"])
  <2>1. sum \in 0 .. U64Max /\ sum <= Epoch + Interval["Idle"]
        /\ (sum = Epoch + Interval["Idle"] \/ sum = U64Max)
    BY <1>2, <1>4, Saturation
  <2> QED
    BY <1>2, <1>3, <1>4, <2>1
<1>6. HeartbeatTypes
  <2>1. hb.paused \in BOOLEAN /\ probed \in BOOLEAN /\ excused \in BOOLEAN /\ rested \in BOOLEAN
    BY <1>1, <1>3, Zenon
  <2>2. hb.state \in LivenessStates /\ hb.last_ack \in Nat \cup {Never}
    BY <1>3 DEF LivenessStates
  <2>3. hb.last_liveness \in Nat /\ clock \in 0 .. U64Max /\ ticked \in Nat /\ stepped \in Nat
    BY <1>1, <1>2, <1>3, ControllersAssumption
  <2> QED
    BY <2>1, <2>2, <2>3, <1>3, <1>5, Zenon DEF HeartbeatTypes
<1>7. TimesInOrder
  <2>1. \E profile \in Profiles : hb.next_probe <= clock + stepped + Interval[profile]
    BY <1>1, <1>2, <1>4, <1>5
  <2> QED
    BY <2>1, <1>1, <1>2, <1>3, HeartbeatAssumption DEF TimesInOrder
<1>8. TickSawDeath
  BY <1>1, <1>2, <1>3, ControllersAssumption DEF TickSawDeath
<1>9. NotAskedYet
  BY <1>1, <1>2, <1>3, <1>4, <1>5 DEF NotAskedYet
<1> QED
  BY <1>6, <1>7, <1>8, <1>9 DEF HeartbeatInv

\* One tick at a time `at`: the three ways it can end.
LEMMA TickCases ==
    ASSUME NEW h, IsHeartbeat(h), NEW at \in Nat, NEW profile \in Profiles,
           h.last_liveness \in Nat
    PROVE  LET result == HeartbeatTick(h, at, profile)
               verdict == Verdict(SatSub(at, h.last_liveness))
           IN  \/ /\ h.paused \/ h.state = "PeerClosed"
                  /\ result.hb = h /\ result.action = "None"
               \/ /\ ~ h.paused /\ h.state # "PeerClosed" /\ verdict # h.state
                  /\ result.hb = [h EXCEPT !.state = verdict] /\ result.action = "StateChanged"
               \/ /\ ~ h.paused /\ h.state # "PeerClosed" /\ verdict = h.state
                  /\ at < h.next_probe
                  /\ result.hb = h /\ result.action = "None"
               \/ /\ ~ h.paused /\ h.state # "PeerClosed" /\ verdict = h.state
                  /\ ~ (at < h.next_probe)
                  /\ result.hb = [h EXCEPT !.next_probe = SatAdd(at, Interval[profile])]
                  /\ IF Suppressed(h, at, profile)
                     THEN result.action = "SuppressedByTransport"
                     ELSE result.action = "SendProbe"
  BY DEF HeartbeatTick

\* What an observation writes.
AliveAs(h, at, state) == [h EXCEPT !.last_liveness = at, !.state = state]

\* The fields of a controller that was shown a sign of life.
LEMMA ObservedFields ==
    ASSUME NEW h, IsHeartbeat(h), NEW at, NEW state
    PROVE  /\ IsHeartbeat(AliveAs(h, at, state))
           /\ AliveAs(h, at, state).last_liveness = at
           /\ AliveAs(h, at, state).state = state
           /\ AliveAs(h, at, state).last_ack = h.last_ack
           /\ AliveAs(h, at, state).next_probe = h.next_probe
           /\ AliveAs(h, at, state).paused = h.paused
<1> DEFINE alive == [h EXCEPT !.last_liveness = at]
           g == AliveAs(h, at, state)
<1>1. /\ IsHeartbeat(alive) /\ alive.last_liveness = at /\ alive.state = h.state
      /\ alive.last_ack = h.last_ack /\ alive.next_probe = h.next_probe
      /\ alive.paused = h.paused
  BY DEF IsHeartbeat
<1>2. g = [alive EXCEPT !.state = state]
  BY DEF AliveAs
<1> HIDE DEF g, alive
<1>3. IsHeartbeat(g) /\ g.last_liveness = at /\ g.state = state
      /\ g.last_ack = h.last_ack /\ g.next_probe = h.next_probe /\ g.paused = h.paused
  BY <1>1, <1>2 DEF IsHeartbeat
<1> QED
  BY <1>3 DEF g

\* The fields of a controller that was shown an acknowledgement.
LEMMA AckedFields ==
    ASSUME NEW h, IsHeartbeat(h), NEW at
    PROVE  LET g == [h EXCEPT !.last_ack = at]
           IN  /\ IsHeartbeat(g) /\ g.last_liveness = h.last_liveness /\ g.state = h.state
               /\ g.last_ack = at /\ g.next_probe = h.next_probe /\ g.paused = h.paused
  BY DEF IsHeartbeat

\* Moving last_liveness to the clock, with a new state and perhaps a new acknowledgement.
LEMMA EvidenceStep ==
    ASSUME HeartbeatInv, NEW h, Evidence(h), IsHeartbeat(h),
           h.last_liveness = clock, h.next_probe = hb.next_probe, h.paused = hb.paused,
           h.state \in {"Healthy", "LatencyElevated"},
           h.last_ack \in {hb.last_ack, clock}
    PROVE  HeartbeatInv'
<1>1. hb' = h /\ probed' = FALSE /\ excused' = h.paused
      /\ clock' = clock /\ ticked' = ticked /\ stepped' = stepped /\ rested' = rested
  BY DEF Evidence
<1>2. HeartbeatTypes /\ TimesInOrder
  BY DEF HeartbeatInv
<1>3. clock \in Nat /\ ticked \in Nat /\ stepped \in Nat /\ TickGap \in Nat /\ U64Max \in Nat
  BY <1>2, HeartbeatAssumption, ControllersAssumption DEF HeartbeatTypes
<1>4. HeartbeatTypes'
  <2>1. h.paused \in BOOLEAN /\ probed' \in BOOLEAN /\ excused' \in BOOLEAN /\ rested' \in BOOLEAN
    BY <1>1, <1>2, Zenon DEF HeartbeatTypes
  <2>2. h.state \in LivenessStates /\ h.last_ack \in Nat \cup {Never}
    BY <1>2, <1>3 DEF LivenessStates, HeartbeatTypes
  <2>3. h.last_liveness \in Nat /\ h.next_probe \in Nat /\ clock \in 0 .. U64Max
    BY <1>2, <1>3 DEF HeartbeatTypes
  <2> QED
    BY <2>1, <2>2, <2>3, <1>1, <1>3, Zenon DEF HeartbeatTypes
<1>5. TimesInOrder'
  <2>1. h.last_ack # Never => h.last_ack <= clock + stepped
    BY <1>2, <1>3 DEF TimesInOrder
  <2>2. h.paused => h.paused /\ rested
    BY <1>2 DEF TimesInOrder
  <2>3. /\ ticked <= clock /\ clock <= ticked + TickGap
        /\ \E profile \in Profiles : h.next_probe <= clock + stepped + Interval[profile]
    BY <1>2 DEF TimesInOrder
  <2> QED
    BY <1>1, <2>1, <2>2, <2>3, Zenon DEF TimesInOrder
<1>6. TickSawDeath'
  BY <1>1, <1>2, <1>3, ControllersAssumption DEF TickSawDeath, TimesInOrder
<1>7. NotAskedYet'
  <2>1. PICK profile \in Profiles : h.next_probe <= clock + stepped + Interval[profile]
    BY <1>2 DEF TimesInOrder
  <2>2. h.next_probe \in Nat /\ Interval[profile] \in Nat
    BY <1>2, IntervalFacts DEF HeartbeatTypes
  <2>3. h.next_probe <= h.last_liveness + 2 * Interval[profile] + stepped
    BY <1>3, <2>1, <2>2
  <2>4. ticked <= h.last_liveness /\ ticked <= h.last_liveness + TickGap
    BY <1>2, <1>3 DEF TimesInOrder
  <2>5. h.state \notin {"TemporarilyUnreachable", "Dead"}
    OBVIOUS
  <2> QED
    BY <1>1, <2>3, <2>4, <2>5, Zenon DEF NotAskedYet
<1> QED
  BY <1>4, <1>5, <1>6, <1>7 DEF HeartbeatInv

\* A tick reports what it sees, and asks a silent peer before it gives it up.
LEMMA TickStep ==
    ASSUME HeartbeatInv, NEW profile \in Profiles, Tick(profile)
    PROVE  HeartbeatInv'
<1> DEFINE result == HeartbeatTick(hb, clock, profile)
           verdict == Verdict(SatSub(clock, hb.last_liveness))
<1>1. /\ hb' = result.hb /\ probed' = (probed \/ result.action = "SendProbe")
      /\ ticked' = clock /\ rested' = hb.paused
      /\ clock' = clock /\ stepped' = stepped /\ excused' = excused
  BY DEF Tick
<1>2. HeartbeatTypes /\ TimesInOrder /\ TickSawDeath /\ NotAskedYet
  BY DEF HeartbeatInv
<1>3. /\ clock \in Nat /\ ticked \in Nat /\ stepped \in Nat /\ TickGap \in Nat \ {0}
      /\ U64Max \in Nat /\ clock <= U64Max
      /\ hb.last_liveness \in Nat /\ hb.next_probe \in Nat
      /\ hb.last_ack \in Nat \cup {Never}
      /\ DeadAfter \in Nat \ {0} /\ UnreachableAfter \in Nat \ {0}
      /\ UnreachableAfter < DeadAfter
  BY <1>2, HeartbeatAssumption, ControllersAssumption DEF HeartbeatTypes
<1>4. /\ verdict \in {"Healthy", "TemporarilyUnreachable", "Dead"}
      /\ clock >= hb.last_liveness + DeadAfter => verdict = "Dead"
      /\ clock < hb.last_liveness + UnreachableAfter => verdict = "Healthy"
  <2> DEFINE silence == SatSub(clock, hb.last_liveness)
  <2>1. /\ silence \in Nat
        /\ clock >= hb.last_liveness => silence = clock - hb.last_liveness
        /\ clock < hb.last_liveness => silence = 0
    BY <1>3, Saturation
  <2> HIDE DEF silence
  <2>2. /\ silence >= DeadAfter => Verdict(silence) = "Dead"
        /\ silence < UnreachableAfter => Verdict(silence) = "Healthy"
        /\ Verdict(silence) \in {"Healthy", "TemporarilyUnreachable", "Dead"}
    BY <2>1, VerdictFacts
  <2>3. verdict = Verdict(silence)
    BY DEF silence
  <2> QED
    BY <1>3, <2>1, <2>2, <2>3
<1>5. Interval[profile] \in Nat \ {0}
  BY IntervalFacts
\* One of the four ways of TickCases.
<1>6. \/ (hb.paused \/ hb.state = "PeerClosed") /\ hb' = hb /\ probed' = probed
      \/ /\ ~ hb.paused /\ hb.state # "PeerClosed" /\ verdict # hb.state
         /\ hb' = [hb EXCEPT !.state = verdict] /\ probed' = probed
      \/ /\ ~ hb.paused /\ hb.state # "PeerClosed" /\ verdict = hb.state
         /\ clock < hb.next_probe /\ hb' = hb /\ probed' = probed
      \/ /\ ~ hb.paused /\ hb.state # "PeerClosed" /\ verdict = hb.state
         /\ hb' = [hb EXCEPT !.next_probe = SatAdd(clock, Interval[profile])]
         /\ Suppressed(hb, clock, profile) /\ probed' = probed
      \/ /\ ~ hb.paused /\ hb.state # "PeerClosed" /\ verdict = hb.state
         /\ hb' = [hb EXCEPT !.next_probe = SatAdd(clock, Interval[profile])]
         /\ probed' = TRUE
  <2>1. IsHeartbeat(hb) /\ probed \in BOOLEAN
    BY <1>2 DEF HeartbeatTypes
  <2>2. result.action = "SendProbe" => probed' = TRUE
    BY <1>1, <2>1, Zenon
  <2>3. result.action # "SendProbe" => probed' = probed
    BY <1>1, <2>1, Zenon
  <2>4. \/ (hb.paused \/ hb.state = "PeerClosed") /\ hb' = hb /\ result.action = "None"
        \/ /\ ~ hb.paused /\ hb.state # "PeerClosed" /\ verdict # hb.state
           /\ hb' = [hb EXCEPT !.state = verdict] /\ result.action = "StateChanged"
        \/ /\ ~ hb.paused /\ hb.state # "PeerClosed" /\ verdict = hb.state
           /\ clock < hb.next_probe /\ hb' = hb /\ result.action = "None"
        \/ /\ ~ hb.paused /\ hb.state # "PeerClosed" /\ verdict = hb.state
           /\ hb' = [hb EXCEPT !.next_probe = SatAdd(clock, Interval[profile])]
           /\ \/ Suppressed(hb, clock, profile) /\ result.action = "SuppressedByTransport"
              \/ result.action = "SendProbe"
    BY <1>1, <1>3, <2>1, TickCases
  <2> HIDE DEF result, verdict
  <2> QED
    BY <2>2, <2>3, <2>4
<1>7. /\ IsHeartbeat(hb') /\ hb'.last_liveness = hb.last_liveness
      /\ hb'.last_ack = hb.last_ack /\ hb'.paused = hb.paused
  <2>1. IsHeartbeat(hb)
    BY <1>2 DEF HeartbeatTypes
  <2>2. \A v : /\ IsHeartbeat([hb EXCEPT !.state = v])
               /\ [hb EXCEPT !.state = v].last_liveness = hb.last_liveness
               /\ [hb EXCEPT !.state = v].last_ack = hb.last_ack
               /\ [hb EXCEPT !.state = v].paused = hb.paused
    BY <2>1 DEF IsHeartbeat
  <2>3. \A v : /\ IsHeartbeat([hb EXCEPT !.next_probe = v])
               /\ [hb EXCEPT !.next_probe = v].last_liveness = hb.last_liveness
               /\ [hb EXCEPT !.next_probe = v].last_ack = hb.last_ack
               /\ [hb EXCEPT !.next_probe = v].paused = hb.paused
    BY <2>1 DEF IsHeartbeat
  <2> QED
    BY <1>6, <2>1, <2>2, <2>3, ZenonT(60)
<1>8. \/ /\ hb.paused \/ hb.state = "PeerClosed"
         /\ hb'.state = hb.state /\ hb'.next_probe = hb.next_probe /\ probed' = probed
      \/ /\ ~ hb.paused /\ hb.state # "PeerClosed" /\ verdict # hb.state
         /\ hb'.state = verdict /\ hb'.next_probe = hb.next_probe /\ probed' = probed
      \/ /\ ~ hb.paused /\ hb.state # "PeerClosed" /\ verdict = hb.state
         /\ clock < hb.next_probe
         /\ hb'.state = hb.state /\ hb'.next_probe = hb.next_probe /\ probed' = probed
      \/ /\ ~ hb.paused /\ hb.state # "PeerClosed" /\ verdict = hb.state
         /\ hb'.state = hb.state /\ hb'.next_probe = SatAdd(clock, Interval[profile])
         /\ Suppressed(hb, clock, profile) /\ probed' = probed
      \/ /\ ~ hb.paused /\ hb.state # "PeerClosed" /\ verdict = hb.state
         /\ hb'.state = hb.state /\ hb'.next_probe = SatAdd(clock, Interval[profile])
         /\ probed' = TRUE
  <2>1. IsHeartbeat(hb)
    BY <1>2 DEF HeartbeatTypes
  <2>2. \A v : /\ [hb EXCEPT !.state = v].state = v
               /\ [hb EXCEPT !.state = v].next_probe = hb.next_probe
               /\ [hb EXCEPT !.next_probe = v].state = hb.state
               /\ [hb EXCEPT !.next_probe = v].next_probe = v
    BY <2>1 DEF IsHeartbeat
  <2> QED
    BY <1>6, <2>2, ZenonT(60)
<1> HIDE DEF verdict
\* The next probe moves to one interval after the clock, or not at all.
<1>9. \/ /\ hb'.next_probe = hb.next_probe
         /\ verdict = hb.state /\ ~ hb.paused /\ hb.state # "PeerClosed" =>
              clock < hb.next_probe \/ hb.next_probe = U64Max \/ probed'
      \/ /\ hb'.next_probe <= clock + Interval[profile]
         /\ hb'.next_probe \in 0 .. U64Max
         /\ clock < hb'.next_probe \/ hb'.next_probe = U64Max
  <2>1. /\ SatAdd(clock, Interval[profile]) \in 0 .. U64Max
        /\ SatAdd(clock, Interval[profile]) <= clock + Interval[profile]
        /\ \/ SatAdd(clock, Interval[profile]) = clock + Interval[profile]
           \/ SatAdd(clock, Interval[profile]) = U64Max
    BY <1>3, <1>5, Saturation
  <2> QED
    BY <1>3, <1>5, <1>8, <2>1
<1>10. hb'.next_probe \in Nat
  BY <1>3, <1>9
<1>11. HeartbeatTypes'
  <2>1. /\ hb'.paused \in BOOLEAN /\ probed' \in BOOLEAN /\ excused' \in BOOLEAN
        /\ rested' \in BOOLEAN
    BY <1>1, <1>2, <1>7, <1>8, Zenon DEF HeartbeatTypes
  <2>2. hb'.state \in LivenessStates
    BY <1>2, <1>4, <1>8 DEF HeartbeatTypes, LivenessStates
  <2> QED
    BY <2>1, <2>2, <1>1, <1>2, <1>3, <1>7, <1>10, Zenon DEF HeartbeatTypes
<1>12. TimesInOrder'
  <2>1. \E p \in Profiles : hb'.next_probe <= clock + stepped + Interval[p]
    <3>1. CASE hb'.next_probe = hb.next_probe
      BY <3>1, <1>2, Zenon DEF TimesInOrder
    <3>2. CASE hb'.next_probe # hb.next_probe
      BY <3>2, <1>3, <1>5, <1>9
    <3> QED
      BY <3>1, <3>2
  <2>2. clock <= clock /\ clock <= clock + TickGap
    BY <1>3
  <2>3. hb.paused => excused /\ hb.paused
    BY <1>2 DEF TimesInOrder
  <2>4. hb.last_ack # Never =>
          hb.last_ack <= clock + stepped /\ hb.last_ack <= hb.last_liveness + stepped
    BY <1>2 DEF TimesInOrder
  <2> QED
    BY <1>1, <1>7, <2>1, <2>2, <2>3, <2>4, Zenon DEF TimesInOrder
<1>13. TickSawDeath'
  BY <1>1, <1>4, <1>7, <1>8 DEF TickSawDeath
<1>14. NotAskedYet'
  <2> SUFFICES ASSUME ~ probed', ~ excused
               PROVE  /\ \E p \in Profiles :
                            hb'.next_probe <= hb.last_liveness + 2 * Interval[p] + stepped
                      /\ RoomToAsk =>
                           /\ hb'.state \notin {"TemporarilyUnreachable", "Dead"}
                           /\ hb'.state = "LatencyElevated" => clock <= hb.last_liveness
                           /\ hb'.state = "Healthy" =>
                                \/ clock < hb'.next_probe
                                \/ clock <= hb.last_liveness + TickGap
                                \/ hb'.next_probe = U64Max
    <3>1. RoomToAsk' = RoomToAsk
      BY <1>1 DEF RoomToAsk
    <3> QED
      BY <1>1, <1>7, <3>1, Zenon DEF NotAskedYet
  <2>1. ~ probed /\ ~ hb.paused
    BY <1>1, <1>2 DEF TimesInOrder
  <2>2. PICK p \in Profiles :
          hb.next_probe <= hb.last_liveness + 2 * Interval[p] + stepped
    BY <2>1, <1>2, Zenon DEF NotAskedYet
  <2>3. RoomToAsk =>
          /\ hb.state \notin {"TemporarilyUnreachable", "Dead"}
          /\ hb.state = "LatencyElevated" => ticked <= hb.last_liveness
          /\ hb.state = "Healthy" =>
               \/ ticked < hb.next_probe
               \/ ticked <= hb.last_liveness + TickGap
               \/ hb.next_probe = U64Max
    BY <2>1, <1>2, Zenon DEF NotAskedYet
  <2>4. \E q \in Profiles :
          hb'.next_probe <= hb.last_liveness + 2 * Interval[q] + stepped
    <3>1. CASE hb'.next_probe = hb.next_probe
      BY <3>1, <2>2
    <3>2. CASE hb'.next_probe # hb.next_probe
      <4>1. Suppressed(hb, clock, profile)
        BY <3>2, <1>8
      <4>2. hb.last_ack \in Nat /\ SatSub(clock, hb.last_ack) <= Interval[profile]
        BY <4>1, <1>3 DEF Suppressed
      <4>3. clock <= SatSub(clock, hb.last_ack) + hb.last_ack /\ SatSub(clock, hb.last_ack) \in Nat
        BY <4>2, <1>3, Saturation
      <4>4. hb.last_ack <= hb.last_liveness + stepped
        BY <4>1, <1>2 DEF Suppressed, TimesInOrder
      <4> QED
        BY <3>2, <4>2, <4>3, <4>4, <1>3, <1>5, <1>9
    <3> QED
      BY <3>1, <3>2
  <2>5. ASSUME RoomToAsk
        PROVE  clock < hb.last_liveness + UnreachableAfter \/ hb.state = "PeerClosed"
    <3>1. 2 * Interval[p] + TickGap + stepped <= UnreachableAfter /\ 2 * TickGap < UnreachableAfter
      BY <2>5 DEF RoomToAsk
    <3>2. clock <= ticked + TickGap
      BY <1>2 DEF TimesInOrder
    <3>3. Interval[p] \in Nat
      BY IntervalFacts
    <3>4. hb.state \in {"Healthy", "LatencyElevated", "PeerClosed"}
      BY <2>3, <2>5, <1>2 DEF HeartbeatTypes, LivenessStates
    <3>5. CASE hb.state = "LatencyElevated"
      BY <3>1, <3>2, <3>5, <2>3, <2>5, <1>3
    <3>6. CASE hb.state = "Healthy"
      BY <3>1, <3>2, <3>3, <3>6, <2>2, <2>3, <2>5, <1>3
    <3> QED
      BY <3>4, <3>5, <3>6
  <2>6. ASSUME RoomToAsk
        PROVE  /\ hb'.state \notin {"TemporarilyUnreachable", "Dead"}
               /\ hb'.state = "LatencyElevated" => clock <= hb.last_liveness
               /\ hb'.state = "Healthy" =>
                    \/ clock < hb'.next_probe
                    \/ clock <= hb.last_liveness + TickGap
                    \/ hb'.next_probe = U64Max
    <3>1. CASE hb.state = "PeerClosed"
      BY <3>1, <1>8
    <3>2. CASE hb.state # "PeerClosed"
      <4>1. verdict = "Healthy" /\ hb'.state = "Healthy"
        BY <3>2, <2>1, <2>5, <2>6, <1>4, <1>8
      <4>2. CASE hb.state = "LatencyElevated"
        <5>1. clock <= hb.last_liveness + TickGap
          BY <4>2, <2>3, <2>6, <1>2, <1>3 DEF TimesInOrder
        <5> QED
          BY <4>1, <5>1
      <4>3. CASE hb.state = "Healthy"
        BY <4>1, <4>3, <2>1, <1>3, <1>8, <1>9
      <4> QED
        BY <4>1, <4>2, <4>3, <3>2, <2>3, <2>6, <1>2 DEF HeartbeatTypes, LivenessStates
    <3> QED
      BY <3>1, <3>2
  <2> QED
    BY <2>4, <2>6, Zenon
<1> QED
  BY <1>11, <1>12, <1>13, <1>14 DEF HeartbeatInv

\* The clock moves; the controller does not.
LEMMA ClockStep ==
    ASSUME HeartbeatInv, HeartbeatAdvance \/ HeartbeatStepBack
    PROVE  HeartbeatInv'
<1>1. HeartbeatTypes /\ TimesInOrder /\ TickSawDeath /\ NotAskedYet
  BY DEF HeartbeatInv
<1>2. hb' = hb /\ probed' = probed /\ excused' = excused /\ rested' = rested
  BY DEF HeartbeatAdvance, HeartbeatStepBack
<1>3. /\ clock \in Nat /\ clock <= U64Max /\ ticked \in Nat /\ stepped \in Nat
      /\ TickGap \in Nat \ {0} /\ U64Max \in Nat /\ LastTick \in Nat /\ LastTick <= U64Max
      /\ hb.last_liveness \in Nat /\ hb.next_probe \in Nat
      /\ hb.last_ack \in Nat \cup {Never} /\ DeadAfter \in Nat
      /\ ticked <= clock /\ clock <= ticked + TickGap
  BY <1>1, HeartbeatAssumption, ControllersAssumption DEF HeartbeatTypes, TimesInOrder
<1>4. /\ clock' \in Nat /\ clock' <= U64Max /\ ticked' \in Nat /\ stepped' \in Nat
      /\ ticked' <= clock' /\ clock' <= ticked' + TickGap
      /\ ticked' <= ticked /\ stepped <= stepped'
  BY <1>3 DEF HeartbeatAdvance, HeartbeatStepBack
<1>5. HeartbeatTypes'
  BY <1>1, <1>2, <1>3, <1>4 DEF HeartbeatTypes
<1> DEFINE reach == clock + stepped
           reached == clock' + stepped'
<1>a. reach \in Nat /\ reached \in Nat /\ reach <= reached
  <2>1. CASE HeartbeatAdvance
    <3>1. clock' = clock + 1 /\ stepped' = stepped
      BY <2>1 DEF HeartbeatAdvance
    <3> QED
      BY <3>1, <1>3
  <2>2. CASE HeartbeatStepBack
    <3>1. clock' = clock - 1 /\ stepped' = stepped + 1
      BY <2>2 DEF HeartbeatStepBack
    <3> QED
      BY <3>1, <1>3
  <2> QED
    BY <2>1, <2>2
<1>6. TimesInOrder'
  <2>1. PICK p \in Profiles : hb.next_probe <= clock + stepped + Interval[p]
    BY <1>1 DEF TimesInOrder
  <2>2. hb.next_probe <= clock' + stepped' + Interval[p]
    <3>1. Interval[p] \in Nat
      BY IntervalFacts
    <3>2. hb.next_probe \in Nat /\ hb.next_probe <= reach + Interval[p]
      BY <2>1, <1>3
    <3> HIDE DEF reach, reached
    <3>3. hb.next_probe <= reached + Interval[p]
      BY <3>1, <3>2, <1>a
    <3> QED
      BY <3>3 DEF reached
  <2>3. ASSUME hb.last_ack # Never
        PROVE  hb.last_ack <= clock' + stepped' /\ hb.last_ack <= hb.last_liveness + stepped'
    <3>1. hb.last_ack <= clock + stepped /\ hb.last_ack <= hb.last_liveness + stepped
      BY <2>3, <1>1 DEF TimesInOrder
    <3>2. hb.last_ack \in Nat /\ hb.last_ack <= reach
      BY <2>3, <3>1, <1>3
    <3> HIDE DEF reach, reached
    <3>3. hb.last_ack <= reached
      BY <3>2, <1>a
    <3>4. hb.last_ack <= hb.last_liveness + stepped'
      BY <3>1, <3>2, <1>3, <1>4
    <3> QED
      BY <3>3, <3>4 DEF reached
  <2>4. hb.paused => excused /\ rested
    BY <1>1 DEF TimesInOrder
  <2> QED
    BY <1>2, <1>4, <2>2, <2>3, <2>4, Zenon DEF TimesInOrder
<1>7. TickSawDeath'
  BY <1>1, <1>2, <1>3, <1>4 DEF TickSawDeath
<1>8. NotAskedYet'
  <2> SUFFICES ASSUME ~ probed, ~ excused
               PROVE  /\ \E p \in Profiles :
                            hb.next_probe <= hb.last_liveness + 2 * Interval[p] + stepped'
                      /\ RoomToAsk' =>
                           /\ hb.state \notin {"TemporarilyUnreachable", "Dead"}
                           /\ hb.state = "LatencyElevated" => ticked' <= hb.last_liveness
                           /\ hb.state = "Healthy" =>
                                \/ ticked' < hb.next_probe
                                \/ ticked' <= hb.last_liveness + TickGap
                                \/ hb.next_probe = U64Max
    BY <1>2, Zenon DEF NotAskedYet
  <2>1. PICK p \in Profiles : hb.next_probe <= hb.last_liveness + 2 * Interval[p] + stepped
    BY <1>1, Zenon DEF NotAskedYet
  <2>2. hb.next_probe <= hb.last_liveness + 2 * Interval[p] + stepped'
    BY <2>1, <1>3, <1>4, IntervalFacts
  <2>3. RoomToAsk' => RoomToAsk
    BY <1>3, <1>4, IntervalFacts, ControllersAssumption DEF RoomToAsk
  <2>4. RoomToAsk =>
          /\ hb.state \notin {"TemporarilyUnreachable", "Dead"}
          /\ hb.state = "LatencyElevated" => ticked <= hb.last_liveness
          /\ hb.state = "Healthy" =>
               \/ ticked < hb.next_probe
               \/ ticked <= hb.last_liveness + TickGap
               \/ hb.next_probe = U64Max
    BY <1>1, Zenon DEF NotAskedYet
  <2>5. /\ ticked <= hb.last_liveness => ticked' <= hb.last_liveness
        /\ ticked < hb.next_probe => ticked' < hb.next_probe
        /\ ticked <= hb.last_liveness + TickGap => ticked' <= hb.last_liveness + TickGap
    BY <1>3, <1>4
  <2> QED
    BY <2>2, <2>3, <2>4, <2>5, Zenon
<1> QED
  BY <1>5, <1>6, <1>7, <1>8 DEF HeartbeatInv

\* The owner pauses, resumes or learns of the peer's close.
LEMMA OwnerStep ==
    ASSUME HeartbeatInv,
           \/ ObservePeerClose \/ HeartbeatPause
           \/ \E profile \in Profiles : HeartbeatResume(profile)
    PROVE  HeartbeatInv'
<1>1. HeartbeatTypes /\ TimesInOrder /\ TickSawDeath /\ NotAskedYet
  BY DEF HeartbeatInv
<1>2. clock' = clock /\ ticked' = ticked /\ stepped' = stepped /\ probed' = probed
  BY DEF ObservePeerClose, HeartbeatPause, HeartbeatResume
<1>3. IsHeartbeat(hb) /\ clock \in Nat /\ stepped \in Nat /\ U64Max \in Nat
  BY <1>1, ControllersAssumption DEF HeartbeatTypes
<1>4. CASE ObservePeerClose
  <2>1. /\ hb'.state = "PeerClosed" /\ IsHeartbeat(hb') /\ excused' = excused /\ rested' = rested
        /\ hb'.last_liveness = hb.last_liveness /\ hb'.last_ack = hb.last_ack
        /\ hb'.next_probe = hb.next_probe /\ hb'.paused = hb.paused
    BY <1>3, <1>4 DEF ObservePeerClose, IsHeartbeat
  <2>2. HeartbeatTypes'
    <3>1. hb'.state \in LivenessStates
      BY <2>1 DEF LivenessStates
    <3> QED
      BY <1>1, <1>2, <2>1, <3>1, Zenon DEF HeartbeatTypes
  <2>3. TimesInOrder'
    BY <1>1, <1>2, <2>1, Zenon DEF TimesInOrder
  <2>4. TickSawDeath'
    BY <2>1 DEF TickSawDeath
  <2>5. NotAskedYet'
    BY <1>1, <1>2, <2>1 DEF NotAskedYet
  <2> QED
    BY <2>2, <2>3, <2>4, <2>5 DEF HeartbeatInv
<1>5. CASE HeartbeatPause \/ \E profile \in Profiles : HeartbeatResume(profile)
  <2>1. /\ excused' = TRUE /\ rested' = TRUE /\ IsHeartbeat(hb') /\ hb'.state = hb.state
        /\ hb'.last_liveness = hb.last_liveness /\ hb'.last_ack = hb.last_ack
        /\ hb'.paused \in BOOLEAN
        /\ \/ hb'.next_probe = hb.next_probe
           \/ \E p \in Profiles : hb'.next_probe = SatAdd(clock, Interval[p])
    BY <1>3, <1>5 DEF HeartbeatPause, HeartbeatResume, IsHeartbeat
  <2>2. /\ hb'.next_probe \in Nat
        /\ \E p \in Profiles : hb'.next_probe <= clock + stepped + Interval[p]
    <3>1. CASE hb'.next_probe = hb.next_probe
      BY <3>1, <1>1, Zenon DEF HeartbeatTypes, TimesInOrder
    <3>2. ASSUME NEW p \in Profiles, hb'.next_probe = SatAdd(clock, Interval[p])
          PROVE  hb'.next_probe \in Nat /\ hb'.next_probe <= clock + stepped + Interval[p]
      <4>1. Interval[p] \in Nat
        BY IntervalFacts
      <4>2. /\ SatAdd(clock, Interval[p]) \in 0 .. U64Max
            /\ SatAdd(clock, Interval[p]) <= clock + Interval[p]
        BY <4>1, <1>3, Saturation
      <4> QED
        BY <3>2, <4>1, <4>2, <1>3
    <3> QED
      BY <2>1, <3>1, <3>2
  <2>3. HeartbeatTypes'
    BY <1>1, <1>2, <2>1, <2>2, Zenon DEF HeartbeatTypes
  <2>4. TimesInOrder'
    BY <1>1, <1>2, <2>1, <2>2, Zenon DEF TimesInOrder
  <2>5. TickSawDeath' /\ NotAskedYet'
    BY <2>1, Zenon DEF TickSawDeath, NotAskedYet
  <2> QED
    BY <2>3, <2>4, <2>5 DEF HeartbeatInv
<1> QED
  BY <1>4, <1>5

\* Every step of the clock and of the host keeps the heartbeat's invariant.
LEMMA HeartbeatStep == HeartbeatInv /\ [HeartbeatNext]_heartbeatVars => HeartbeatInv'
<1> SUFFICES ASSUME HeartbeatInv, [HeartbeatNext]_heartbeatVars PROVE HeartbeatInv'
  OBVIOUS
<1>1. IsHeartbeat(hb)
  BY DEF HeartbeatInv, HeartbeatTypes
<1>2. CASE HeartbeatAdvance \/ HeartbeatStepBack
  BY <1>2, ClockStep
<1>3. ASSUME NEW profile \in Profiles, Tick(profile) PROVE HeartbeatInv'
  BY <1>3, TickStep
<1>4. CASE ObserveTransportAck
  <2> DEFINE h == TransportAcked(hb, clock)
  <2>1. /\ IsHeartbeat(h) /\ h.last_liveness = clock /\ h.next_probe = hb.next_probe
        /\ h.paused = hb.paused /\ h.state = "Healthy" /\ h.last_ack = clock
    <3> DEFINE g == Observed(hb, clock)
    <3>1. /\ IsHeartbeat(g) /\ g.last_liveness = clock /\ g.next_probe = hb.next_probe
          /\ g.paused = hb.paused /\ g.state = "Healthy"
      <4>1. g = AliveAs(hb, clock, "Healthy")
        BY DEF Observed, AliveAs
      <4> QED
        BY <4>1, <1>1, ObservedFields
    <3>2. h = [g EXCEPT !.last_ack = clock]
      BY DEF TransportAcked
    <3> HIDE DEF g, h
    <3> QED
      BY <3>1, <3>2, AckedFields
  <2>2. Evidence(h)
    BY <1>4 DEF ObserveTransportAck
  <2> HIDE DEF h
  <2> QED
    BY <2>1, <2>2, EvidenceStep
<1>5. CASE ObserveProbeAck
  <2> DEFINE h == Observed(hb, clock)
  <2>1. /\ IsHeartbeat(h) /\ h.last_liveness = clock /\ h.next_probe = hb.next_probe
        /\ h.paused = hb.paused /\ h.state = "Healthy" /\ h.last_ack = hb.last_ack
    <3>1. h = AliveAs(hb, clock, "Healthy")
      BY DEF Observed, AliveAs
    <3> QED
      BY <3>1, <1>1, ObservedFields
  <2>2. Evidence(h)
    BY <1>5 DEF ObserveProbeAck
  <2> HIDE DEF h
  <2> QED
    BY <2>1, <2>2, EvidenceStep
<1>6. ASSUME NEW elevated \in BOOLEAN, ObserveLatency(elevated) PROVE HeartbeatInv'
  <2> DEFINE h == [hb EXCEPT !.last_liveness = clock, !.state = LatencyState(elevated)]
  <2>1. /\ IsHeartbeat(h) /\ h.last_liveness = clock /\ h.next_probe = hb.next_probe
        /\ h.paused = hb.paused /\ h.state = LatencyState(elevated) /\ h.last_ack = hb.last_ack
    <3>1. h = AliveAs(hb, clock, LatencyState(elevated))
      BY DEF AliveAs
    <3> HIDE DEF h
    <3> QED
      BY <3>1, <1>1, ObservedFields
  <2>2. Evidence(h)
    BY <1>6 DEF ObserveLatency
  <2>3. LatencyState(elevated) \in {"Healthy", "LatencyElevated"}
    BY DEF LatencyState
  <2> HIDE DEF h
  <2> QED
    BY <2>1, <2>2, <2>3, EvidenceStep
<1>7. CASE \/ ObservePeerClose \/ HeartbeatPause
           \/ \E profile \in Profiles : HeartbeatResume(profile)
  BY <1>7, OwnerStep
<1>8. CASE UNCHANGED heartbeatVars
  <2>1. hb' = hb /\ clock' = clock /\ ticked' = ticked /\ stepped' = stepped
        /\ probed' = probed /\ excused' = excused /\ rested' = rested
    BY <1>8 DEF heartbeatVars
  <2> QED
    BY <2>1 DEF HeartbeatInv, HeartbeatTypes, TimesInOrder, TickSawDeath, NotAskedYet, RoomToAsk
<1> QED
  BY <1>2, <1>3, <1>4, <1>5, <1>6, <1>7, <1>8 DEF HeartbeatNext

\* Times, verdicts and probes of a HeartbeatController stay in step (tick, observe_transport_ack,
\* observe_probe_ack, pause, resume).
THEOREM HeartbeatInvariant == HeartbeatSpec => []HeartbeatInv
<1>1. HeartbeatInit => HeartbeatInv
  BY HeartbeatInitial
<1>2. HeartbeatInv /\ [HeartbeatNext]_heartbeatVars => HeartbeatInv'
  BY HeartbeatStep
<1> QED
  BY <1>1, <1>2, PTL DEF HeartbeatSpec

\* Silence of dead_after_ms and a tick gap is reported as Dead (HeartbeatController::tick),
\* for every policy, tick gap and clock.
THEOREM SilenceIsReported == HeartbeatSpec => []DeathIsDetected
<1>1. HeartbeatInv => DeathIsDetected
  <2> SUFFICES ASSUME HeartbeatInv, clock - hb.last_liveness >= DeadAfter + TickGap, ~ rested,
                      hb.state # "PeerClosed"
               PROVE  hb.state = "Dead"
    BY DEF DeathIsDetected
  <2>1. /\ clock \in Nat /\ ticked \in Nat /\ hb.last_liveness \in Nat /\ TickGap \in Nat
        /\ DeadAfter \in Nat /\ clock <= ticked + TickGap
    BY HeartbeatAssumption, ControllersAssumption DEF HeartbeatInv, HeartbeatTypes, TimesInOrder
  <2>2. ticked >= hb.last_liveness + DeadAfter
    BY <2>1
  <2> QED
    BY <2>2 DEF HeartbeatInv, TickSawDeath
<1> QED
  BY <1>1, HeartbeatInvariant, PTL

\* No peer is given up unasked where the policy leaves room to ask
\* (HeartbeatController::tick, observe_transport_ack).
THEOREM AskedBeforeGivenUp == HeartbeatSpec => []ProbedBeforeUnreachable
<1>1. HeartbeatInv => ProbedBeforeUnreachable
  BY Zenon DEF HeartbeatInv, NotAskedYet, ProbedBeforeUnreachable
<1> QED
  BY <1>1, HeartbeatInvariant, PTL

-----------------------------------------------------------------------------
(* Delays *)

\* One step of the backoff, and what exponential_delay's loop computes.
Grown(policy, base) == Least(SatMul(base, policy.multiplier) \div 1000, policy.maximum)

IsBackoff(f, policy, last) ==
    f = [n \in 0 .. last |-> IF n = 0 THEN policy.initial ELSE Grown(policy, f[n - 1])]

\* The recursive function of the backoff exists.
LEMMA BackoffExists ==
    ASSUME NEW policy, NEW last \in Nat
    PROVE  \E f : IsBackoff(f, policy, last)
<1> DEFINE T == {k \in Nat : ~ \E f : IsBackoff(f, policy, k)}
<1> SUFFICES ASSUME T # {} PROVE FALSE
  OBVIOUS
<1>1. PICK k \in T : \A m \in T : k <= m
  BY LeastElement
<1>2. CASE k = 0
  <2> DEFINE f == [n \in 0 .. 0 |-> policy.initial]
  <2>1. IsBackoff(f, policy, 0)
    BY DEF IsBackoff
  <2> QED
    BY <1>2, <2>1
<1>3. CASE k # 0
  <2>1. k \in Nat /\ k - 1 \in Nat /\ k - 1 \notin T
    BY <1>1, <1>3
  <2>2. PICK f : IsBackoff(f, policy, k - 1)
    BY <2>1
  <2> DEFINE g == [n \in 0 .. k |-> IF n = 0 THEN policy.initial ELSE Grown(policy, f[n - 1])]
  <2>3. \A n \in 0 .. k : n # 0 => g[n - 1] = f[n - 1]
    <3> SUFFICES ASSUME NEW n \in 0 .. k, n # 0 PROVE g[n - 1] = f[n - 1]
      OBVIOUS
    <3>1. n - 1 \in 0 .. k - 1 /\ n - 1 \in 0 .. k
      BY <2>1
    <3>2. f[n - 1] = IF n - 1 = 0 THEN policy.initial ELSE Grown(policy, f[(n - 1) - 1])
      BY <2>2, <3>1 DEF IsBackoff
    <3> QED
      BY <3>1, <3>2
  <2>4. IsBackoff(g, policy, k)
    BY <2>3 DEF IsBackoff
  <2> QED
    BY <1>1, <2>4
<1> QED
  BY <1>2, <1>3

\* A growing delay stays between the first one and the maximum, as far as u64 allows.
LEMMA GrownInRange ==
    ASSUME NEW policy \in Policies, NEW base \in Nat,
           Least(policy.initial, U64Max \div 1000) <= base, base <= policy.maximum
    PROVE  /\ Grown(policy, base) \in Nat
           /\ Least(policy.initial, U64Max \div 1000) <= Grown(policy, base)
           /\ Grown(policy, base) <= policy.maximum
<1> DEFINE mult == policy.multiplier
           product == base * mult
           floor == Least(policy.initial, U64Max \div 1000)
<1>1. /\ U64Max \in Nat /\ mult \in Nat /\ mult >= 1000
      /\ policy.maximum \in Nat /\ policy.initial \in Nat /\ policy.initial <= policy.maximum
  BY ControllersAssumption
<1>2. product \in Nat /\ product >= base * 1000
  BY <1>1
<1>3. U64Max \div 1000 \in Nat /\ product \div 1000 \in Nat /\ product \div 1000 >= base
  <2> HIDE DEF product
  <2> QED
    BY <1>1, <1>2
<1>4. floor <= U64Max \div 1000 /\ floor <= policy.maximum /\ floor \in Nat
  BY <1>1, <1>3 DEF Least
<1>5. SatMul(base, mult) \div 1000 \in {product \div 1000, U64Max \div 1000}
  BY DEF SatMul, Least
<1> HIDE DEF product, floor
<1>6. /\ SatMul(base, mult) \div 1000 \in Nat
      /\ floor <= SatMul(base, mult) \div 1000
  BY <1>1, <1>3, <1>4, <1>5 DEF floor
<1> QED
  BY <1>1, <1>4, <1>6 DEF Grown, Least, floor

\* The exponential delay lies between the initial delay, saturation aside, and the maximum.
LEMMA ExponentialInRange ==
    ASSUME NEW policy \in Policies, NEW attempt \in Nat
    PROVE  /\ ExponentialDelay(policy, attempt) \in Nat
           /\ Least(policy.initial, U64Max \div 1000) <= ExponentialDelay(policy, attempt)
           /\ ExponentialDelay(policy, attempt) <= policy.maximum
<1> DEFINE floor == Least(policy.initial, U64Max \div 1000)
<1>1. PICK f : IsBackoff(f, policy, attempt) /\ ExponentialDelay(policy, attempt) = f[attempt]
  <2>1. \E f : IsBackoff(f, policy, attempt)
    BY BackoffExists
  <2> QED
    BY <2>1, Zenon DEF IsBackoff, ExponentialDelay, Grown
<1> DEFINE Good(n) == f[n] \in Nat /\ floor <= f[n] /\ f[n] <= policy.maximum
           T == {n \in 0 .. attempt : ~ Good(n)}
<1>2. T = {}
  <2> SUFFICES ASSUME T # {} PROVE FALSE
    OBVIOUS
  <2>1. PICK n \in T : \A m \in T : n <= m
    <3>1. T \in SUBSET Nat
      OBVIOUS
    <3> HIDE DEF T
    <3> QED
      BY <3>1, LeastElement
  <2>2. CASE n = 0
    <3>1. f[0] = policy.initial
      BY <1>1 DEF IsBackoff
    <3>2. policy.initial \in Nat /\ policy.initial <= policy.maximum /\ U64Max \in Nat
      BY ControllersAssumption
    <3>3. floor <= policy.initial
      BY <3>2 DEF Least
    <3> QED
      BY <2>1, <2>2, <3>1, <3>2, <3>3
  <2>3. CASE n # 0
    <3>1. n \in 0 .. attempt /\ n - 1 \in 0 .. attempt /\ n - 1 \notin T
      BY <2>1, <2>3
    <3>2. Good(n - 1)
      BY <3>1
    <3>3. f[n] = Grown(policy, f[n - 1])
      BY <1>1, <3>1, <2>3 DEF IsBackoff
    <3>4. Good(n)
      BY <3>2, <3>3, GrownInRange
    <3> QED
      BY <2>1, <3>4
  <2> QED
    BY <2>2, <2>3
<1>3. Good(attempt)
  BY <1>2
<1> QED
  BY <1>1, <1>3

\* jittered_delay varies a delay by at most its share.
Within(d, base, jitter) ==
    d \in Nat /\ 1000 * d >= (1000 - jitter) * base /\ 1000 * d <= (1000 + jitter) * base

\* Shares of a thousand: what a jitter and its sample are.
Shares == 0 .. 1000

\* The ranges of a policy's back-off parameters.
LEMMA PolicyRange ==
    ASSUME NEW policy \in Policies
    PROVE  policy.jitter \in 0 .. 1000 /\ policy.initial \in Nat /\ policy.maximum \in Nat
  BY ControllersAssumption

\* A jittered delay stays within the share the policy's jitter allows.
LEMMA JitterInRange ==
    ASSUME NEW base \in Nat, base <= U64Max, NEW jitter \in Shares, NEW sample \in Shares
    PROVE  Within(JitteredDelay(base, jitter, sample), base, jitter)
<1> USE DEF Shares
<1>1. U64Max \in Nat /\ jitter \in Nat /\ sample \in Nat
  BY ControllersAssumption
<1> DEFINE share == base * jitter
           span == SatMul(base, jitter) \div 1000
<1>2. share \in Nat /\ share <= base * 1000
  BY <1>1
<1>3. SatMul(base, jitter) \in Nat /\ SatMul(base, jitter) <= share
  BY <1>1, <1>2 DEF SatMul, Least
<1>4. span \in Nat /\ 1000 * span <= share
  <2> DEFINE product == SatMul(base, jitter)
  <2>1. product \in Nat /\ product <= share /\ share \in Nat
    BY <1>2, <1>3
  <2> HIDE DEF product, share
  <2>2. product \div 1000 \in Nat /\ 1000 * (product \div 1000) <= share
    BY <2>1
  <2> QED
    BY <2>2 DEF product
<1> HIDE DEF span
<1>5. span <= base
  <2> HIDE DEF share
  <2> QED
    BY <1>2, <1>4
<1> DEFINE swing == SatMul(SatMul(span, sample), 2) \div 1000
<1>6. swing \in Nat /\ swing <= 2 * span
  <2> DEFINE inner == SatMul(span, sample)
             outer == SatMul(inner, 2)
  <2>1. span * sample \in Nat /\ span * sample <= span * 1000
    BY <1>1, <1>4
  <2>2. inner \in Nat /\ inner <= span * 1000
    <3> DEFINE p == span * sample
    <3>1. p \in Nat /\ p <= span * 1000
      BY <2>1
    <3>2. inner = Least(p, U64Max)
      BY DEF SatMul
    <3> HIDE DEF p, inner
    <3> QED
      BY <3>1, <3>2, <1>1, <1>4 DEF Least
  <2> HIDE DEF inner
  <2>3. outer \in Nat /\ outer <= 2 * (span * 1000)
    BY <2>2, <1>1, <1>4 DEF SatMul, Least
  <2> HIDE DEF outer
  <2>4. outer \div 1000 \in Nat /\ outer \div 1000 <= 2 * span
    BY <2>3, <1>4
  <2> QED
    BY <2>4 DEF inner, outer
<1> HIDE DEF swing
<1> DEFINE d == SatAdd(SatSub(base, span), swing)
<1>7. d \in Nat /\ d >= base - span /\ d <= base + span
  BY <1>1, <1>4, <1>5, <1>6 DEF SatAdd, SatSub, Least
<1> HIDE DEF d
<1>8. (1000 - jitter) * base = 1000 * base - share /\ (1000 + jitter) * base = 1000 * base + share
  BY <1>1
<1>9. 1000 * d >= 1000 * base - share /\ 1000 * d <= 1000 * base + share
  <2> HIDE DEF share
  <2> QED
    BY <1>2, <1>4, <1>7
<1>10. CASE jitter = 0
  <2>1. JitteredDelay(base, jitter, sample) = base
    BY <1>10 DEF JitteredDelay
  <2>2. Within(base, base, 0)
    BY DEF Within
  <2> QED
    BY <1>10, <2>1, <2>2
<1>11. CASE jitter # 0
  <2>1. JitteredDelay(base, jitter, sample) = d
    BY <1>11 DEF JitteredDelay, d, swing, span
  <2> QED
    BY <2>1, <1>7, <1>8, <1>9 DEF Within
<1> QED
  BY <1>10, <1>11

\* Multiplication of natural numbers is monotone.
LEMMA Monotone ==
    ASSUME NEW a \in Nat, NEW b \in Nat, NEW c \in Nat, b <= c
    PROVE  a * b \in Nat /\ a * c \in Nat /\ a * b <= a * c
  OBVIOUS

\* What the host is told to wait.
LEMMA NextDelayInRange ==
    ASSUME NEW r, r.policy \in Policies, r.attempts \in Nat, NEW sample \in Nat
    PROVE  /\ NextDelay(r, sample) \in Nat
           /\ r.policy.kind = "ExponentialBackoff" =>
                /\ 1000 * NextDelay(r, sample) >=
                     (1000 - r.policy.jitter) * Least(r.policy.initial, U64Max \div 1000)
                /\ 1000 * NextDelay(r, sample) <= (1000 + r.policy.jitter) * r.policy.maximum
<1> DEFINE policy == r.policy
           floor == Least(policy.initial, U64Max \div 1000)
           cut == Least(sample, 1000)
<1>1. PICK jitter \in Shares : jitter = policy.jitter
  BY ControllersAssumption DEF Shares
<1>11. jitter \in 0 .. 1000
  BY DEF Shares
<1>2. PICK top \in Nat : top = policy.maximum /\ top <= U64Max
  BY ControllersAssumption
<1>3. PICK base \in Nat : /\ base = ExponentialDelay(policy, r.attempts)
                         /\ floor <= base /\ base <= top
  BY <1>2, ExponentialInRange
<1>4. floor \in Nat
  <2>1. U64Max \div 1000 \in Nat /\ policy.initial \in Nat
    BY ControllersAssumption
  <2> QED
    BY <2>1 DEF Least
<1>5. cut \in 0 .. 1000 /\ U64Max \in Nat
  BY ControllersAssumption DEF Least
<1> HIDE DEF floor, cut
<1> DEFINE d == JitteredDelay(base, jitter, cut)
<1>6. d \in Nat /\ 1000 * d >= (1000 - jitter) * base /\ 1000 * d <= (1000 + jitter) * base
  <2>1. base <= U64Max
    BY <1>2, <1>3, <1>5
  <2> QED
    <3>1. PICK c \in Shares : c = cut
      BY <1>5 DEF Shares
    <3>2. Within(JitteredDelay(base, jitter, c), base, jitter)
      BY <2>1, JitterInRange, ZenonT(60)
    <3>3. Within(d, base, jitter)
      BY <3>1, <3>2, Zenon
    <3> QED
      BY <3>3 DEF Within
<1> HIDE DEF d
<1>7. 1000 * d >= (1000 - jitter) * floor
  <2> DEFINE less == 1000 - jitter
  <2>1. less \in Nat
    BY <1>11
  <2>2. 1000 * d >= less * base
    BY <1>6
  <2> HIDE DEF less
  <2>3. less * floor \in Nat /\ less * base \in Nat /\ less * floor <= less * base
    BY <2>1, <1>3, <1>4, Monotone
  <2>4. 1000 * d >= less * floor
    BY <2>2, <2>3, <1>6
  <2> QED
    BY <2>4 DEF less
<1>8. 1000 * d <= (1000 + jitter) * top
  <2> DEFINE more == 1000 + jitter
  <2>1. more \in Nat
    BY <1>11
  <2>2. 1000 * d <= more * base
    BY <1>6
  <2> HIDE DEF more
  <2>3. more * base \in Nat /\ more * top \in Nat /\ more * base <= more * top
    BY <2>1, <1>3, Monotone
  <2>4. 1000 * d <= more * top
    BY <2>2, <2>3, <1>6
  <2> QED
    BY <2>4 DEF more
<1>9. CASE policy.kind # "Immediate"
  <2>1. NextDelay(r, sample) = d
    BY <1>1, <1>3, <1>9 DEF NextDelay, d, cut
  <2> QED
    BY <1>1, <1>2, <1>6, <1>7, <1>8, <2>1 DEF floor
<1>10. CASE policy.kind = "Immediate"
  BY <1>10 DEF NextDelay
<1> QED
  BY <1>9, <1>10

-----------------------------------------------------------------------------
(* The reconnect controller's inductive invariant *)

IsReconnect(r) ==
    r = [ policy |-> r.policy, started |-> r.started, attempts |-> r.attempts,
          paused |-> r.paused, cancelled |-> r.cancelled ]

Instants == Nat \cup {Never}

ReconnectTypes ==
    /\ IsReconnect(rc)
    /\ rc.policy \in Policies
    /\ rc.attempts \in Nat
    /\ rc.started \in Instants
    /\ first \in Instants
    /\ now \in Nat /\ now <= U64Max

Retrying == rc.policy.kind \in {"Immediate", "ExponentialBackoff"}

\* The controller's count is the history's, and unless it has stopped, so is the
\* instant the outage began (an application that makes the attempts itself is not counted).
CountsAgree ==
    /\ granted = rc.attempts
    /\ granted <= rc.policy.max_attempts
    /\ Retrying /\ link # "stopped" => first = rc.started
    /\ link = "waiting" => Retrying /\ first \in Nat

ReconnectInv == ReconnectTypes /\ CountsAgree /\ AttemptsWithinPolicy

\* after_failure as its three kinds of answers.
LEMMA AnswerCases ==
    ASSUME NEW r, IsReconnect(r), NEW failure, NEW at, NEW sample,
           r.policy.kind \in {"Disabled", "ApplicationControlled", "Immediate",
                             "ExponentialBackoff"}
    PROVE  LET answer == AfterFailure(r, failure, at, sample)
               begun == IF r.started = Never THEN [r EXCEPT !.started = at] ELSE r
               wait == NextDelay(begun, sample)
           IN  \/ /\ answer.action = "Stop"
                  /\ answer.rc \in {r, begun}
               \/ /\ answer.action = "AwaitApplication"
                  /\ answer.rc = r \/ (r.policy.kind = "ApplicationControlled" /\ answer.rc = begun)
               \/ /\ answer.action = "AttemptAt"
                  /\ r.policy.kind \in {"Immediate", "ExponentialBackoff"}
                  /\ ~(begun.attempts >= begun.policy.max_attempts)
                  /\ ~PastDeadline(begun, at, wait)
                  /\ answer.rc = [begun EXCEPT !.attempts = @ + 1]
                  /\ answer.at = SatAdd(at, wait)
<1> DEFINE answer == AfterFailure(r, failure, at, sample)
           begun == IF r.started = Never THEN [r EXCEPT !.started = at] ELSE r
           wait == NextDelay(begun, sample)
<1>1. \/ answer \in {Stopped(r, "Cancelled"), Stopped(r, failure), Stopped(begun, "Disabled")}
      \/ answer = [rc |-> r, action |-> "AwaitApplication"]
      \/ /\ r.policy.kind = "ApplicationControlled"
         /\ answer = [rc |-> begun, action |-> "AwaitApplication"]
      \/ /\ r.policy.kind \in {"Immediate", "ExponentialBackoff"}
         /\ answer = Schedule(begun, at, wait)
  BY DEF AfterFailure
<1> HIDE DEF answer, begun, wait
<1>2. \A x, reason : /\ Stopped(x, reason).action = "Stop"
                     /\ Stopped(x, reason).rc = x
  BY DEF Stopped
<1>3. \/ \E reason : Schedule(begun, at, wait) = Stopped(begun, reason)
      \/ /\ ~(begun.attempts >= begun.policy.max_attempts)
         /\ ~PastDeadline(begun, at, wait)
         /\ Schedule(begun, at, wait) =
              [rc |-> [begun EXCEPT !.attempts = @ + 1], action |-> "AttemptAt",
               at |-> SatAdd(at, wait), attempt |-> begun.attempts + 1]
  BY DEF Schedule
<1>4. \/ /\ answer.action = "Stop"
         /\ answer.rc \in {r, begun}
      \/ /\ answer.action = "AwaitApplication"
         /\ answer.rc = r \/ (r.policy.kind = "ApplicationControlled" /\ answer.rc = begun)
      \/ /\ answer.action = "AttemptAt"
         /\ r.policy.kind \in {"Immediate", "ExponentialBackoff"}
         /\ ~(begun.attempts >= begun.policy.max_attempts)
         /\ ~PastDeadline(begun, at, wait)
         /\ answer.rc = [begun EXCEPT !.attempts = @ + 1]
         /\ answer.at = SatAdd(at, wait)
  BY <1>1, <1>2, <1>3
<1> QED
  BY <1>4 DEF answer, begun, wait

\* A new reconnect controller satisfies the invariant.
LEMMA ReconnectInitial == ReconnectInit => ReconnectInv
<1> SUFFICES ASSUME ReconnectInit PROVE ReconnectInv
  OBVIOUS
<1>1. PICK policy \in Policies : rc = NewReconnect(policy)
  BY DEF ReconnectInit
<1>2. /\ IsReconnect(rc) /\ rc.policy = policy /\ rc.started = Never /\ rc.attempts = 0
  BY <1>1 DEF NewReconnect, IsReconnect
<1>3. link = "up" /\ now = 0 /\ first = Never /\ granted = 0
  BY DEF ReconnectInit
<1>4. policy.max_attempts \in Nat /\ U64Max \in Nat
  BY ControllersAssumption
<1> QED
  BY <1>2, <1>3, <1>4 DEF ReconnectInv, ReconnectTypes, CountsAgree, Instants,
     AttemptsWithinPolicy, WithinLimits, BackoffInRange

\* The controller when an outage has begun.
Begun(r, at) == IF r.started = Never THEN [r EXCEPT !.started = at] ELSE r

\* The fields of a controller at the first failure of an outage.
LEMMA BegunFacts ==
    ASSUME NEW r, IsReconnect(r), NEW at
    PROVE  /\ IsReconnect(Begun(r, at))
           /\ Begun(r, at).policy = r.policy
           /\ Begun(r, at).attempts = r.attempts
           /\ Begun(r, at).started = IF r.started = Never THEN at ELSE r.started
  BY DEF Begun, IsReconnect

\* An answer to a failure stays within the policy.
LEMMA ReportStep ==
    ASSUME ReconnectInv, link # "stopped", NEW failure, NEW sample \in Samples,
           Report(failure, sample)
    PROVE  ReconnectInv'
<1> DEFINE answer == AfterFailure(rc, failure, now, sample)
           begun == Begun(rc, now)
           wait == NextDelay(begun, sample)
<1>1. ReconnectTypes /\ CountsAgree
  BY DEF ReconnectInv
<1>2. /\ IsReconnect(rc) /\ rc.policy \in Policies /\ rc.attempts \in Nat
      /\ rc.started \in Instants /\ first \in Instants /\ now \in Nat /\ now <= U64Max
      /\ U64Max \in Nat /\ sample \in Nat
      /\ rc.policy.max_attempts \in Nat
  BY <1>1, ControllersAssumption, ReconnectAssumption DEF ReconnectTypes
<1>3. rc.policy.kind \in {"Disabled", "ApplicationControlled", "Immediate", "ExponentialBackoff"}
  BY <1>2, ControllersAssumption
<1>4. /\ IsReconnect(begun) /\ begun.policy = rc.policy /\ begun.attempts = rc.attempts
      /\ begun.started = IF rc.started = Never THEN now ELSE rc.started
  BY <1>2, BegunFacts
<1>5. \/ /\ answer.action = "Stop"
         /\ answer.rc \in {rc, begun}
      \/ /\ answer.action = "AwaitApplication"
         /\ answer.rc = rc \/ (rc.policy.kind = "ApplicationControlled" /\ answer.rc = begun)
      \/ /\ answer.action = "AttemptAt"
         /\ Retrying
         /\ ~(begun.attempts >= begun.policy.max_attempts)
         /\ ~PastDeadline(begun, now, wait)
         /\ answer.rc = [begun EXCEPT !.attempts = @ + 1]
         /\ answer.at = SatAdd(now, wait)
  BY <1>2, <1>3, AnswerCases, SMTT(60) DEF Begun, Retrying
<1>6. /\ rc' = answer.rc /\ now' = now
      /\ \/ /\ answer.action = "AttemptAt"
            /\ link' = "waiting"
            /\ due' = answer.at
            /\ granted' = Least(granted + 1, rc.policy.max_attempts + 1)
            /\ delay' = answer.at - now
            /\ first' = IF first = Never THEN now ELSE first
         \/ /\ answer.action = "AwaitApplication"
            /\ link' = "application"
            /\ first' = first /\ granted' = granted
         \/ /\ answer.action = "Stop"
            /\ link' = "stopped"
            /\ first' = first /\ granted' = granted
  BY DEF Report
<1> HIDE DEF answer, begun, wait
<1>7. CASE answer.action # "AttemptAt"
  <2>1. /\ rc' \in {rc, begun} /\ first' = first /\ granted' = granted
        /\ link' \in {"application", "stopped"}
        /\ link' # "stopped" => rc' = rc \/ rc.policy.kind = "ApplicationControlled"
    BY <1>5, <1>6, <1>7
  <2>2. /\ IsReconnect(rc') /\ rc'.policy = rc.policy /\ rc'.attempts = rc.attempts
        /\ rc'.started \in Instants
    BY <1>2, <1>4, <2>1 DEF Instants
  <2>3. ReconnectTypes'
    BY <1>2, <1>6, <2>1, <2>2 DEF ReconnectTypes, Instants
  <2>4. granted' = rc'.attempts /\ granted' <= rc'.policy.max_attempts
    BY <1>1, <2>1, <2>2 DEF CountsAgree
  <2>5. Retrying' /\ link' # "stopped" => first' = rc'.started
    <3> SUFFICES ASSUME Retrying', link' # "stopped" PROVE first' = rc'.started
      OBVIOUS
    <3>1. Retrying /\ rc' = rc
      BY <2>1, <2>2 DEF Retrying
    <3> QED
      BY <3>1, <2>1, <1>1 DEF CountsAgree
  <2>6. link' # "waiting"
    BY <2>1
  <2> QED
    BY <2>3, <2>4, <2>5, <2>6 DEF ReconnectInv, CountsAgree, AttemptsWithinPolicy, WithinLimits,
       BackoffInRange
<1>8. CASE answer.action = "AttemptAt"
  <2>1. /\ Retrying /\ ~(begun.attempts >= begun.policy.max_attempts)
        /\ ~PastDeadline(begun, now, wait)
        /\ rc' = [begun EXCEPT !.attempts = @ + 1] /\ answer.at = SatAdd(now, wait)
    BY <1>5, <1>6, <1>8
  <2>2. /\ link' = "waiting" /\ due' = SatAdd(now, wait)
        /\ granted' = Least(granted + 1, rc.policy.max_attempts + 1)
        /\ delay' = SatAdd(now, wait) - now
        /\ first' = IF first = Never THEN now ELSE first
    BY <1>6, <1>8, <2>1
  <2>3. /\ IsReconnect(rc') /\ rc'.policy = rc.policy /\ rc'.attempts = rc.attempts + 1
        /\ rc'.started = begun.started
    BY <1>4, <2>1 DEF IsReconnect
  <2>4. first = rc.started /\ first' = begun.started /\ begun.started \in Nat
    BY <1>1, <1>2, <1>4, <2>1, <2>2 DEF CountsAgree, Instants
  <2>5. ReconnectTypes'
    BY <1>2, <1>6, <2>3, <2>4 DEF ReconnectTypes, Instants
  <2>6. granted' = rc'.attempts /\ granted' <= rc'.policy.max_attempts
    <3>1. PICK limit \in Nat : limit = rc.policy.max_attempts
      BY <1>2
    <3>2. PICK done \in Nat : done = rc.attempts /\ granted = done /\ ~(done >= limit)
      BY <1>1, <1>2, <1>4, <2>1, <3>1 DEF CountsAgree
    <3>3. Least(done + 1, limit + 1) = done + 1 /\ done + 1 <= limit
      BY <3>2 DEF Least
    <3> QED
      BY <2>2, <2>3, <3>1, <3>2, <3>3
  <2>7. PICK d \in Nat :
          /\ d = wait
          /\ rc.policy.kind = "ExponentialBackoff" =>
               /\ 1000 * d >= (1000 - rc.policy.jitter) * Least(rc.policy.initial, U64Max \div 1000)
               /\ 1000 * d <= (1000 + rc.policy.jitter) * rc.policy.maximum
    <3>1. begun.policy \in Policies /\ begun.attempts \in Nat
      BY <1>2, <1>4
    <3>2. /\ NextDelay(begun, sample) \in Nat
          /\ begun.policy.kind = "ExponentialBackoff" =>
               /\ 1000 * NextDelay(begun, sample) >=
                    (1000 - begun.policy.jitter) * Least(begun.policy.initial, U64Max \div 1000)
               /\ 1000 * NextDelay(begun, sample) <= (1000 + begun.policy.jitter) * begun.policy.maximum
      BY <1>2, <3>1, NextDelayInRange
    <3> QED
      BY <1>4, <3>2 DEF wait
  <2>8. due' \in Nat /\ due' <= U64Max /\ due' <= now + d /\ (due' = U64Max \/ due' = now + d)
    <3>1. /\ SatAdd(now, d) \in 0 .. U64Max /\ SatAdd(now, d) <= now + d
          /\ SatAdd(now, d) = now + d \/ SatAdd(now, d) = U64Max
      BY <1>2, Saturation
    <3> QED
      BY <1>2, <2>2, <2>7, <3>1
  <2>9. due' <= first' + rc'.policy.max_elapsed
    <3>1. PICK limit \in Nat : limit = rc.policy.max_elapsed /\ limit <= U64Max
      BY <1>2, ControllersAssumption
    <3>2. PICK begin \in Nat : begin = begun.started
      BY <2>4
    <3>3. PICK elapsed \in Nat : elapsed = SatSub(now, begin) /\ now <= elapsed + begin
      BY <1>2, Saturation
    <3>4. SatAdd(elapsed, d) <= limit
      <4>1. ~(SatAdd(elapsed, d) > limit)
        BY <1>4, <2>1, <2>7, <3>1, <3>2, <3>3 DEF PastDeadline
      <4>2. SatAdd(elapsed, d) \in 0 .. U64Max
        BY Saturation
      <4> QED
        BY <4>1, <4>2, <1>2
    <3>5. SatAdd(elapsed, d) = elapsed + d \/ SatAdd(elapsed, d) = U64Max
      BY Saturation
    <3>6. due' <= begin + limit
      BY <1>2, <2>8, <3>1, <3>3, <3>4, <3>5
    <3> QED
      BY <2>3, <2>4, <3>1, <3>2, <3>6
  <2>10. BackoffInRange'
    <3> SUFFICES ASSUME rc.policy.kind = "ExponentialBackoff"
                 PROVE  /\ \/ due' = U64Max
                           \/ 1000 * delay' >= (1000 - rc.policy.jitter) *
                                                Least(rc.policy.initial, U64Max \div 1000)
                        /\ 1000 * delay' <= (1000 + rc.policy.jitter) * rc.policy.maximum
      BY <2>3 DEF BackoffInRange
    <3>0. rc.policy.jitter \in 0 .. 1000 /\ rc.policy.initial \in Nat /\ rc.policy.maximum \in Nat
      <4>1. rc.policy \in Policies
        BY <1>2, Zenon
      <4> QED
        BY <4>1, PolicyRange, Zenon
    <3>1. PICK low \in Int :
            low = (1000 - rc.policy.jitter) * Least(rc.policy.initial, U64Max \div 1000)
      <4>1. PICK jitter \in 0 .. 1000 : jitter = rc.policy.jitter
        BY <3>0
      <4>2. rc.policy.initial \in Nat /\ U64Max \div 1000 \in Nat
        BY <1>2, <3>0
      <4>3. PICK floor \in Nat : floor = Least(rc.policy.initial, U64Max \div 1000)
        BY <4>2 DEF Least
      <4>4. (1000 - jitter) * floor \in Int
        OBVIOUS
      <4> QED
        BY <4>1, <4>3, <4>4
    <3>2. PICK high \in Int : high = (1000 + rc.policy.jitter) * rc.policy.maximum
      <4>1. PICK jitter \in 0 .. 1000 : jitter = rc.policy.jitter
        BY <3>0
      <4>2. PICK top \in Nat : top = rc.policy.maximum
        BY <3>0
      <4>3. (1000 + jitter) * top \in Int
        OBVIOUS
      <4> QED
        BY <4>1, <4>2, <4>3
    <3>3. 1000 * d >= low /\ 1000 * d <= high
      BY <2>7, <3>1, <3>2
    <3>4. PICK next \in Nat : next = due' /\ delay' = next - now
      BY <2>2, <2>8
    <3>5. next <= now + d /\ (next = U64Max \/ next = now + d)
      BY <2>8, <3>4
    <3>6. (next = U64Max \/ 1000 * (next - now) >= low) /\ 1000 * (next - now) <= high
      BY <1>2, <3>3, <3>5
    <3> QED
      BY <3>1, <3>2, <3>4, <3>6
  <2>11. Retrying'
    BY <2>1, <2>3 DEF Retrying
  <2>12. CountsAgree'
    BY <2>3, <2>4, <2>6, <2>11 DEF CountsAgree
  <2> QED
    BY <2>2, <2>5, <2>6, <2>9, <2>10, <2>12 DEF ReconnectInv, AttemptsWithinPolicy, WithinLimits
<1> QED
  BY <1>7, <1>8

\* Every step of the clock and of the host keeps the reconnect controller's invariant.
LEMMA ReconnectStep == ReconnectInv /\ [ReconnectNext]_reconnectVars => ReconnectInv'
<1> SUFFICES ASSUME ReconnectInv, [ReconnectNext]_reconnectVars PROVE ReconnectInv'
  OBVIOUS
<1>1. ReconnectTypes /\ CountsAgree /\ AttemptsWithinPolicy
  BY DEF ReconnectInv
<1>2. IsReconnect(rc) /\ now \in Nat /\ now <= U64Max /\ U64Max \in Nat
  BY <1>1, ControllersAssumption DEF ReconnectTypes
<1>3. CASE GoDown \/ AttemptFails
  <2>1. link # "stopped"
    BY <1>3 DEF GoDown, AttemptFails, MayAttempt
  <2>2. PICK failure \in Failures, sample \in Samples : Report(failure, sample)
    BY <1>3 DEF GoDown, AttemptFails
  <2> QED
    BY <2>1, <2>2, ReportStep
<1>4. CASE AttemptSucceeds
  <2>1. /\ link' = "up" /\ rc' = ReconnectReset(rc) /\ first' = Never /\ granted' = 0
        /\ now' = now
    BY <1>4 DEF AttemptSucceeds
  <2>2. /\ IsReconnect(rc') /\ rc'.policy = rc.policy /\ rc'.attempts = 0 /\ rc'.started = Never
    <3> DEFINE cleared == [rc EXCEPT !.started = Never]
    <3>1. IsReconnect(cleared) /\ cleared.policy = rc.policy /\ cleared.started = Never
      BY <1>2 DEF IsReconnect
    <3>2. rc' = [cleared EXCEPT !.attempts = 0]
      BY <2>1 DEF ReconnectReset
    <3> HIDE DEF cleared
    <3> QED
      BY <3>1, <3>2 DEF IsReconnect
  <2>3. rc.policy \in Policies /\ rc.policy.max_attempts \in Nat
    BY <1>1, ControllersAssumption DEF ReconnectTypes
  <2> QED
    BY <1>2, <2>1, <2>2, <2>3 DEF ReconnectInv, ReconnectTypes, CountsAgree, Instants,
       AttemptsWithinPolicy, WithinLimits, BackoffInRange
<1>5. CASE ReconnectPause \/ ReconnectResume \/ ReconnectCancel
  <2>1. /\ link' = link /\ due' = due /\ now' = now /\ first' = first /\ granted' = granted
        /\ delay' = delay
    BY <1>5 DEF ReconnectPause, ReconnectResume, ReconnectCancel
  <2>2. /\ IsReconnect(rc') /\ rc'.policy = rc.policy /\ rc'.attempts = rc.attempts
        /\ rc'.started = rc.started
    BY <1>2, <1>5 DEF ReconnectPause, ReconnectResume, ReconnectCancel, IsReconnect
  <2>3. ReconnectTypes'
    BY <1>1, <2>1, <2>2 DEF ReconnectTypes
  <2>4. Retrying' = Retrying
    BY <2>2 DEF Retrying
  <2>5. CountsAgree'
    BY <1>1, <2>1, <2>2, <2>4 DEF CountsAgree
  <2>6. AttemptsWithinPolicy'
    BY <1>1, <2>1, <2>2 DEF AttemptsWithinPolicy, WithinLimits, BackoffInRange
  <2> QED
    BY <2>3, <2>5, <2>6 DEF ReconnectInv
<1>6. CASE ReconnectAdvance \/ ReconnectStepBack
  <2>1. /\ rc' = rc /\ link' = link /\ due' = due /\ first' = first /\ granted' = granted
        /\ delay' = delay
    BY <1>6 DEF ReconnectAdvance, ReconnectStepBack
  <2>2. now' \in Nat /\ now' <= U64Max
    BY <1>2, <1>6, ReconnectAssumption DEF ReconnectAdvance, ReconnectStepBack
  <2> QED
    BY <1>1, <2>1, <2>2 DEF ReconnectInv, ReconnectTypes, CountsAgree, Retrying,
       AttemptsWithinPolicy, WithinLimits, BackoffInRange
<1>7. CASE UNCHANGED reconnectVars
  <2>1. /\ rc' = rc /\ link' = link /\ due' = due /\ first' = first /\ granted' = granted
        /\ delay' = delay /\ now' = now
    BY <1>7 DEF reconnectVars
  <2> QED
    BY <1>1, <2>1 DEF ReconnectInv, ReconnectTypes, CountsAgree, Retrying,
       AttemptsWithinPolicy, WithinLimits, BackoffInRange
<1> QED
  BY <1>3, <1>4, <1>5, <1>6, <1>7 DEF ReconnectNext

\* No attempt is granted beyond the policy's count or deadline, nor sooner or later than
\* its delays allow, for every valid policy, failure and jitter (after_failure).
THEOREM PolicyIsKept == ReconnectSpec => []AttemptsWithinPolicy
<1>1. ReconnectInit => ReconnectInv
  BY ReconnectInitial
<1>2. ReconnectInv /\ [ReconnectNext]_reconnectVars => ReconnectInv'
  BY ReconnectStep
<1>3. ReconnectInv => AttemptsWithinPolicy
  BY DEF ReconnectInv
<1> QED
  BY <1>1, <1>2, <1>3, PTL DEF ReconnectSpec

-----------------------------------------------------------------------------
(* Coming back after an outage *)

\* What a resumed session asks of the offer it was judged by.
Acceptable(offer, at) ==
    /\ offer # Nothing /\ offer.genuine /\ offer.within /\ offer.peer = "expected"
    /\ at < offer.expires

\* A request is pending at most once.
PendingOnce ==
    /\ unanswered \in Seq(Requests) /\ IsInjective(unanswered)
    /\ recorded \in [Requests -> Nat] /\ told \in [Requests -> Nat]
    /\ hour \in Nat

IsPlan(p) == p = [pending |-> p.pending, strongest |-> p.strongest]

\* A plan holds eligible candidates only, and its strongest bounds all it gave out.
PlanBoundsTried ==
    /\ fallbackPolicy \in FallbackPolicies
    /\ stage \in {"up", "choosing", "trying", "judging", "planning"}
    /\ tried \subseteq Transports
    /\ carrier # Nothing => carrier \in Transports
    /\ stage \in {"choosing", "trying"} =>
         /\ IsPlan(plan)
         /\ plan.pending \in Seq(Transports)
         /\ \A i \in 1 .. Len(plan.pending) :
              plan.pending[i].security >= fallbackPolicy.minimum_security
         /\ plan.strongest = Nothing => tried = {}
         /\ plan.strongest # Nothing =>
              /\ plan.strongest \in SecurityLevels
              /\ \A t \in tried : t.security <= plan.strongest

\* A session that is taken for resumed was judged by an acceptable offer.
JudgedFirst ==
    stage = "planning" /\ continuity.result = "Resumed" =>
        Acceptable(continuity.offer, continuity.at)

ResumptionInv ==
    PendingOnce /\ PlanBoundsTried /\ JudgedFirst /\ ReplayIsSafe /\ NoSilentDowngrade

\* One more or one less pending request, and what it counts for.
Outstanding(r) == IF r \in ToSet(unanswered) THEN 1 ELSE 0

CountsMatch == \A r \in Requests : recorded[r] = told[r] + Outstanding(r)

RetriesAllowed ==
    \A x \in retried : ReplayOf[x[1]] = "Idempotent" /\ Acceptable(x[2], x[3])

\* Contains is membership in a sequence.
LEMMA ContainsIsMember ==
    ASSUME NEW S, NEW s \in Seq(S), NEW e
    PROVE  Contains(s, e) <=> e \in ToSet(s)
  BY DEF Contains, ToSet

\* ReplayIsSafe, taken apart.
LEMMA ReplayParts ==
    ASSUME unanswered \in Seq(Requests)
    PROVE  ReplayIsSafe <=> CountsMatch /\ RetriesAllowed
<1>1. \A r \in Requests : Contains(unanswered, r) <=> r \in ToSet(unanswered)
  BY ContainsIsMember
<1> QED
  BY <1>1, Zenon DEF ReplayIsSafe, CountsMatch, Outstanding, RetriesAllowed, Acceptable

\* The same in the next state.
LEMMA ReplayPartsNext ==
    ASSUME unanswered' \in Seq(Requests)
    PROVE  ReplayIsSafe' <=> CountsMatch' /\ RetriesAllowed'
<1>1. \A r \in Requests : Contains(unanswered', r) <=> r \in ToSet(unanswered')
  BY ContainsIsMember
<1> QED
  BY <1>1, Zenon DEF ReplayIsSafe, CountsMatch, Outstanding, RetriesAllowed, Acceptable

\* A host with no outage behind it satisfies the invariant.
LEMMA ResumptionInitial == ResumptionInit => ResumptionInv
<1> SUFFICES ASSUME ResumptionInit PROVE ResumptionInv
  OBVIOUS
<1>1. /\ unanswered = <<>> /\ fallbackPolicy \in FallbackPolicies /\ carrier = Nothing
      /\ stage = "up" /\ tried = {} /\ retried = {} /\ hour = 0
      /\ recorded = [r \in Requests |-> 0] /\ told = [r \in Requests |-> 0]
  BY DEF ResumptionInit
<1>2. PendingOnce
  BY <1>1 DEF PendingOnce, IsInjective
<1>3. PlanBoundsTried /\ JudgedFirst /\ NoSilentDowngrade
  BY <1>1 DEF PlanBoundsTried, JudgedFirst, NoSilentDowngrade
<1>4. CountsMatch
  BY <1>1 DEF CountsMatch, Outstanding, ToSet
<1>5. RetriesAllowed
  BY <1>1 DEF RetriesAllowed
<1> QED
  BY <1>1, <1>2, <1>3, <1>4, <1>5, ReplayParts DEF ResumptionInv, PendingOnce

\* Recording, acknowledging and planning keep the count of every request.
LEMMA RequestsStep ==
    ASSUME ResumptionInv, [ResumptionNext]_resumptionVars
    PROVE  PendingOnce' /\ ReplayIsSafe'
<1>1. /\ unanswered \in Seq(Requests) /\ IsInjective(unanswered)
      /\ recorded \in [Requests -> Nat] /\ told \in [Requests -> Nat]
  BY DEF ResumptionInv, PendingOnce
<1>0. hour' \in Nat
  <2>1. hour \in Nat
    BY DEF ResumptionInv, PendingOnce
  <2>2. hour' = hour \/ hour' = hour + 1
    BY DEF ResumptionNext, RecordUnacknowledged, Acknowledge, LoseConnection, NextCandidate,
       RecordAttemptFailure, SelectTransport, Exhausted, ValidateOffer, StartNewSession,
       PlanAfterReconnect, HourPasses, resumptionVars
  <2> QED
    BY <2>1, <2>2
<1>2. CountsMatch /\ RetriesAllowed
  BY <1>1, ReplayParts DEF ResumptionInv
<1>3. SUFFICES PendingOnce' /\ CountsMatch' /\ RetriesAllowed'
  BY ReplayPartsNext DEF PendingOnce
<1>4. ASSUME NEW request \in Requests, RecordUnacknowledged(request)
      PROVE  PendingOnce' /\ CountsMatch' /\ RetriesAllowed'
  <2>1. /\ unanswered' = Append(unanswered, request)
        /\ recorded' = [recorded EXCEPT ![request] = @ + 1]
        /\ told' = told /\ retried' = retried
        /\ ~ Contains(unanswered, request)
    BY <1>4 DEF RecordUnacknowledged
  <2>2. request \notin ToSet(unanswered)
    BY <1>1, <2>1, ContainsIsMember
  <2>3. /\ unanswered' \in Seq(Requests) /\ IsInjective(unanswered')
        /\ ToSet(unanswered') = ToSet(unanswered) \cup {request}
    BY <1>1, <2>1, <2>2, AppendSet
  <2>4. PendingOnce'
    BY <1>0, <1>1, <2>1, <2>3 DEF PendingOnce
  <2>5. CountsMatch'
    BY <1>1, <1>2, <2>1, <2>2, <2>3 DEF CountsMatch, Outstanding
  <2> QED
    BY <1>2, <2>1, <2>4, <2>5 DEF RetriesAllowed
<1>5. ASSUME NEW request \in Requests, Acknowledge(request)
      PROVE  PendingOnce' /\ CountsMatch' /\ RetriesAllowed'
  <2>1. recorded' = recorded /\ retried' = retried
    BY <1>5 DEF Acknowledge
  <2>2. CASE unanswered' = unanswered /\ told' = told
    BY <1>0, <1>1, <1>2, <2>1, <2>2 DEF PendingOnce, CountsMatch, Outstanding, RetriesAllowed
  <2>3. CASE \E index \in DOMAIN unanswered :
                /\ unanswered[index] = request
                /\ unanswered' = RemoveAt(unanswered, index)
                /\ told' = [told EXCEPT ![request] = @ + 1]
    <3>1. PICK index \in 1 .. Len(unanswered) :
                /\ unanswered[index] = request
                /\ unanswered' = RemoveAt(unanswered, index)
                /\ told' = [told EXCEPT ![request] = @ + 1]
      BY <1>1, <2>3
    <3>2. /\ unanswered' \in Seq(Requests) /\ IsInjective(unanswered')
          /\ ToSet(unanswered') = ToSet(unanswered) \ {request}
      BY <1>1, <3>1, RemoveAtSet
    <3>3. request \in ToSet(unanswered)
      BY <1>1, <3>1 DEF ToSet
    <3>4. PendingOnce'
      BY <1>0, <1>1, <2>1, <3>1, <3>2 DEF PendingOnce
    <3>5. CountsMatch'
      BY <1>1, <1>2, <2>1, <3>1, <3>2, <3>3 DEF CountsMatch, Outstanding
    <3> QED
      BY <1>2, <2>1, <3>4, <3>5 DEF RetriesAllowed
  <2> QED
    BY <1>5, <2>2, <2>3 DEF Acknowledge
<1>6. ASSUME PlanAfterReconnect
      PROVE  PendingOnce' /\ CountsMatch' /\ RetriesAllowed'
  <2>1. /\ stage = "planning" /\ unanswered' = <<>> /\ recorded' = recorded
        /\ told' = [r \in Requests |-> told[r] + IF Contains(unanswered, r) THEN 1 ELSE 0]
        /\ retried' = retried \cup {<<r, continuity.offer, continuity.at>> :
                                      r \in {r \in ToSet(unanswered) : Retries(r)}}
    BY <1>6 DEF PlanAfterReconnect
  <2>2. \A r \in Requests : told'[r] = told[r] + Outstanding(r)
    BY <1>1, <2>1, ContainsIsMember DEF Outstanding
  <2>3. ToSet(unanswered') = {} /\ unanswered' \in Seq(Requests) /\ IsInjective(unanswered')
    BY <2>1 DEF ToSet, IsInjective
  <2>4. told' \in [Requests -> Nat]
    BY <1>1, <2>1
  <2>5. CountsMatch'
    BY <1>1, <1>2, <2>1, <2>2, <2>3, <2>4 DEF CountsMatch, Outstanding
  <2>6. \A r : Retries(r) => ReplayOf[r] = "Idempotent" /\ Acceptable(continuity.offer, continuity.at)
    BY <2>1 DEF Retries, ResumptionInv, JudgedFirst
  <2>7. ASSUME NEW x \in retried'
        PROVE  ReplayOf[x[1]] = "Idempotent" /\ Acceptable(x[2], x[3])
    <3>1. CASE x \in retried
      BY <1>2, <3>1 DEF RetriesAllowed
    <3>2. CASE \E r : x = <<r, continuity.offer, continuity.at>> /\ Retries(r)
      <4>1. PICK r : x = <<r, continuity.offer, continuity.at>> /\ Retries(r)
        BY <3>2
      <4>2. x[1] = r /\ x[2] = continuity.offer /\ x[3] = continuity.at
        BY <4>1
      <4> QED
        BY <4>1, <4>2, <2>6, Zenon
    <3> QED
      BY <2>1, <2>7, <3>1, <3>2
  <2>8. RetriesAllowed'
    BY <2>7, Zenon DEF RetriesAllowed, Acceptable
  <2> QED
    BY <1>0, <1>1, <2>1, <2>3, <2>4, <2>5, <2>8 DEF PendingOnce
<1>7. ASSUME UNCHANGED <<unanswered, recorded, told, retried>>
      PROVE  PendingOnce' /\ CountsMatch' /\ RetriesAllowed'
  BY <1>0, <1>1, <1>2, <1>7 DEF PendingOnce, CountsMatch, Outstanding, RetriesAllowed
<1>8. ASSUME \/ LoseConnection \/ NextCandidate \/ RecordAttemptFailure \/ SelectTransport
             \/ Exhausted \/ (\E offer \in ResumeOffers : ValidateOffer(offer))
             \/ StartNewSession \/ HourPasses \/ UNCHANGED resumptionVars
      PROVE  UNCHANGED <<unanswered, recorded, told, retried>>
  BY <1>8 DEF LoseConnection, NextCandidate, RecordAttemptFailure, SelectTransport, Exhausted,
     ValidateOffer, StartNewSession, HourPasses, resumptionVars
<1> QED
  BY <1>4, <1>5, <1>6, <1>7, <1>8 DEF ResumptionNext

\* The host's steps between two connections keep the plan's bound.
LEMMA PlanStep ==
    ASSUME ResumptionInv, [ResumptionNext]_resumptionVars
    PROVE  PlanBoundsTried' /\ NoSilentDowngrade'
<1>1. PlanBoundsTried /\ NoSilentDowngrade
  BY DEF ResumptionInv
<1>2. ASSUME LoseConnection
      PROVE  PlanBoundsTried' /\ NoSilentDowngrade'
  <2>1. /\ tried' = {} /\ carrier' = Nothing /\ fallbackPolicy' = fallbackPolicy /\ stage = "up"
    BY <1>2 DEF LoseConnection
  <2> DEFINE eligible == {t \in Transports : t.security >= fallbackPolicy.minimum_security}
  <2>2. PICK order \in SetToSeqs(eligible) :
          \/ plan' = plan /\ stage' = stage
          \/ plan' = [pending |-> order, strongest |-> Nothing] /\ stage' = "choosing"
    BY <1>2 DEF LoseConnection
  <2>3. Cardinality(eligible) \in Nat
    <3>1. IsFiniteSet(eligible)
      BY ResumptionAssumption, FS_Subset
    <3> QED
      BY <3>1, FS_CardinalityType
  <2>4. order \in [1 .. Cardinality(eligible) -> eligible]
    BY DEF SetToSeqs
  <2>6. order \in Seq(Transports) /\ \A i \in 1 .. Len(order) : order[i] \in eligible
    <3>1. PICK n \in Nat : order \in [1 .. n -> eligible]
      BY <2>3, <2>4
    <3>2. Len(order) = n /\ order \in Seq(eligible)
      BY <3>1
    <3>3. \A i \in 1 .. n : order[i] \in eligible /\ order[i] \in Transports
      BY <3>1
    <3>4. order \in [1 .. n -> Transports]
      BY <3>1, <3>3
    <3> QED
      BY <3>2, <3>3, <3>4
  <2>7. \A i \in 1 .. Len(order) : order[i].security >= fallbackPolicy.minimum_security
    BY <2>6
  <2> HIDE DEF eligible
  <2>8. NoSilentDowngrade'
    BY <2>1 DEF NoSilentDowngrade
  <2>9. CASE stage' = stage
    BY <1>1, <2>1, <2>8, <2>9 DEF PlanBoundsTried
  <2>10. CASE plan' = [pending |-> order, strongest |-> Nothing] /\ stage' = "choosing"
    <3>1. IsPlan(plan') /\ plan'.pending = order /\ plan'.strongest = Nothing
      BY <2>10 DEF IsPlan
    <3> QED
      BY <1>1, <2>1, <2>6, <2>7, <2>8, <2>10, <3>1 DEF PlanBoundsTried
  <2> QED
    BY <2>2, <2>8, <2>9, <2>10
<1>3. ASSUME NextCandidate
      PROVE  PlanBoundsTried' /\ NoSilentDowngrade'
  <2> DEFINE candidate == Head(plan.pending)
             rest == [plan EXCEPT !.pending = Tail(@)]
  <2>1. /\ stage = "choosing" /\ plan.pending # <<>> /\ fallbackPolicy' = fallbackPolicy
        /\ \/ /\ plan' = rest /\ carrier' = carrier /\ stage' = stage /\ tried' = tried
           \/ /\ ~ Downgrades(candidate)
              /\ plan' = [rest EXCEPT !.strongest =
                            IF @ = Nothing \/ @ < candidate.security THEN candidate.security ELSE @]
              /\ carrier' = candidate /\ stage' = "trying" /\ tried' = tried \cup {candidate}
    BY <1>3 DEF NextCandidate
  <2>2. /\ IsPlan(plan) /\ plan.pending \in Seq(Transports)
        /\ \A i \in 1 .. Len(plan.pending) :
              plan.pending[i].security >= fallbackPolicy.minimum_security
        /\ plan.strongest = Nothing => tried = {}
        /\ plan.strongest # Nothing =>
              /\ plan.strongest \in SecurityLevels
              /\ \A t \in tried : t.security <= plan.strongest
    BY <1>1, <2>1 DEF PlanBoundsTried
  <2>3. /\ candidate \in Transports /\ candidate.security >= fallbackPolicy.minimum_security
        /\ Tail(plan.pending) \in Seq(Transports)
        /\ \A i \in 1 .. Len(Tail(plan.pending)) :
              Tail(plan.pending)[i].security >= fallbackPolicy.minimum_security
    BY <2>1, <2>2
  <2>4. /\ IsPlan(rest) /\ rest.pending = Tail(plan.pending)
        /\ rest.strongest = plan.strongest
    <3>1. PICK p, s : plan = [pending |-> p, strongest |-> s]
      BY <2>2 DEF IsPlan
    <3>2. plan.pending = p /\ plan.strongest = s
      BY <3>1
    <3>3. PICK t : t = Tail(plan.pending)
      OBVIOUS
    <3>4. rest = [plan EXCEPT !.pending = t]
      BY <3>3, Zenon
    <3> HIDE DEF rest
    <3>5. rest = [pending |-> t, strongest |-> s]
      BY <3>1, <3>4
    <3> QED
      BY <3>2, <3>3, <3>5 DEF IsPlan
  <2>5. candidate.security \in SecurityLevels
    BY <2>3, ResumptionAssumption
  <2> HIDE DEF candidate, rest
  <2>6. CASE plan' = rest /\ carrier' = carrier /\ stage' = stage /\ tried' = tried
    <3>1. NoSilentDowngrade'
      BY <1>1, <2>1, <2>6 DEF NoSilentDowngrade
    <3> QED
      BY <1>1, <2>1, <2>2, <2>3, <2>4, <2>6, <3>1 DEF PlanBoundsTried
  <2>7. CASE /\ ~ Downgrades(candidate)
             /\ plan' = [rest EXCEPT !.strongest =
                            IF @ = Nothing \/ @ < candidate.security THEN candidate.security ELSE @]
             /\ carrier' = candidate /\ stage' = "trying" /\ tried' = tried \cup {candidate}
    <3>1. /\ IsPlan(plan') /\ plan'.pending = Tail(plan.pending)
          /\ plan'.strongest = IF plan.strongest = Nothing \/ plan.strongest < candidate.security
                               THEN candidate.security ELSE plan.strongest
      BY <2>4, <2>7 DEF IsPlan
    <3>2. \A t \in tried : t.security \in SecurityLevels
      BY <1>1, ResumptionAssumption DEF PlanBoundsTried
    <3>3. /\ plan'.strongest # Nothing /\ plan'.strongest \in SecurityLevels
          /\ candidate.security <= plan'.strongest
          /\ \A t \in tried : t.security <= plan'.strongest
      BY <2>2, <2>5, <3>1, <3>2, ResumptionAssumption DEF SecurityLevels
    <3>4. PlanBoundsTried'
      BY <1>1, <2>1, <2>3, <2>7, <3>1, <3>3 DEF PlanBoundsTried
    <3>5. \/ fallbackPolicy.allow_security_downgrade
          \/ \A t \in tried : t.security <= candidate.security
      BY <2>2, <2>5, <2>7, <3>2 DEF Downgrades, SecurityLevels
    <3>6. candidate.security <= candidate.security
      BY <2>5 DEF SecurityLevels
    <3>7. NoSilentDowngrade'
      BY <2>1, <2>3, <2>7, <3>5, <3>6, Zenon DEF NoSilentDowngrade
    <3> QED
      BY <3>4, <3>7
  <2> QED
    BY <2>1, <2>6, <2>7
<1>4. ASSUME \/ RecordAttemptFailure \/ SelectTransport \/ Exhausted
             \/ (\E offer \in ResumeOffers : ValidateOffer(offer)) \/ StartNewSession
             \/ PlanAfterReconnect
      PROVE  PlanBoundsTried' /\ NoSilentDowngrade'
  <2>1. /\ fallbackPolicy' = fallbackPolicy /\ tried' = tried
        /\ carrier' = carrier \/ carrier' = Nothing
        /\ stage' \in {"up", "choosing", "judging", "planning"}
        /\ stage' = "choosing" => plan' = plan /\ stage = "trying"
    BY <1>4 DEF RecordAttemptFailure, SelectTransport, Exhausted, ValidateOffer, StartNewSession,
       PlanAfterReconnect
  <2>2. NoSilentDowngrade'
    BY <1>1, <2>1 DEF NoSilentDowngrade
  <2>3. CASE stage' = "choosing"
    BY <1>1, <2>1, <2>2, <2>3 DEF PlanBoundsTried
  <2>4. CASE stage' # "choosing"
    BY <1>1, <2>1, <2>2, <2>4 DEF PlanBoundsTried
  <2> QED
    BY <2>3, <2>4
<1>5. ASSUME \/ (\E r \in Requests : RecordUnacknowledged(r) \/ Acknowledge(r)) \/ HourPasses
             \/ UNCHANGED resumptionVars
      PROVE  PlanBoundsTried' /\ NoSilentDowngrade'
  <2>1. /\ fallbackPolicy' = fallbackPolicy /\ plan' = plan /\ carrier' = carrier
        /\ stage' = stage /\ tried' = tried
    BY <1>5 DEF RecordUnacknowledged, Acknowledge, HourPasses, hostVars, resumptionVars
  <2> QED
    BY <1>1, <2>1 DEF PlanBoundsTried, NoSilentDowngrade
<1> QED
  BY <1>2, <1>3, <1>4, <1>5 DEF ResumptionNext

\* validate_offer answers Resumed only for an acceptable offer.
LEMMA ContinuityFacts ==
    ASSUME NEW offer \in ResumeOffers, Continuity(offer) = "Resumed", hour \in Nat
    PROVE  Acceptable(offer, hour)
<1>1. offer.expires \in Nat /\ offer # Nothing
  BY ResumptionAssumption
<1>2. offer.peer = "expected"
  BY DEF Continuity
<1>3. hour < offer.expires
  BY <1>1, <1>2 DEF Continuity
<1>4. offer.within
  BY <1>2, <1>3 DEF Continuity
<1>5. offer.genuine
  BY <1>2, <1>3, <1>4 DEF Continuity
<1> QED
  BY <1>1, <1>2, <1>3, <1>4, <1>5, Zenon DEF Acceptable

\* Who resumes was judged by an acceptable offer, after every step.
LEMMA JudgedStep ==
    ASSUME ResumptionInv, [ResumptionNext]_resumptionVars
    PROVE  JudgedFirst'
<1>1. JudgedFirst /\ hour \in Nat
  BY DEF ResumptionInv, PendingOnce
<1>2. ASSUME NEW offer \in ResumeOffers, ValidateOffer(offer)
      PROVE  JudgedFirst'
  <2>1. continuity' = [result |-> Continuity(offer), offer |-> offer, at |-> hour]
    BY <1>2 DEF ValidateOffer
  <2>2. /\ continuity'.result = Continuity(offer) /\ continuity'.offer = offer
        /\ continuity'.at = hour
    BY <2>1
  <2>3. continuity'.result = "Resumed" => Acceptable(offer, hour)
    BY <1>1, <2>2, ContinuityFacts
  <2> QED
    BY <2>2, <2>3, Zenon DEF JudgedFirst, Acceptable
<1>3. ASSUME StartNewSession
      PROVE  JudgedFirst'
  <2>1. continuity'.result # "Resumed"
    BY <1>3 DEF StartNewSession
  <2> QED
    BY <2>1 DEF JudgedFirst
<1>4. ASSUME \/ LoseConnection \/ NextCandidate \/ RecordAttemptFailure \/ SelectTransport
             \/ Exhausted \/ PlanAfterReconnect
      PROVE  JudgedFirst'
  <2>1. stage' # "planning"
    BY <1>4 DEF LoseConnection, NextCandidate, RecordAttemptFailure, SelectTransport, Exhausted,
       PlanAfterReconnect
  <2> QED
    BY <2>1 DEF JudgedFirst
<1>5. ASSUME \/ (\E r \in Requests : RecordUnacknowledged(r) \/ Acknowledge(r)) \/ HourPasses
             \/ UNCHANGED resumptionVars
      PROVE  JudgedFirst'
  <2>1. stage' = stage /\ continuity' = continuity
    BY <1>5 DEF RecordUnacknowledged, Acknowledge, HourPasses, hostVars, resumptionVars
  <2> QED
    BY <1>1, <2>1, Zenon DEF JudgedFirst, Acceptable
<1> QED
  BY <1>2, <1>3, <1>4, <1>5 DEF ResumptionNext

\* Over every number of outages, with every set of transports, policies, offers and requests,
\* no request is lost, named twice or repeated where it may not be, and no transport is
\* silently weaker (FallbackPlan, validate_offer, plan_after_reconnect).
THEOREM LinkComesBackSafely == ResumptionSpec => []ComesBackSafely
<1>1. ResumptionInit => ResumptionInv
  BY ResumptionInitial
<1>2. ResumptionInv /\ [ResumptionNext]_resumptionVars => ResumptionInv'
  BY RequestsStep, PlanStep, JudgedStep DEF ResumptionInv
<1>3. ResumptionInv => ComesBackSafely
  BY DEF ResumptionInv, ComesBackSafely
<1> QED
  BY <1>1, <1>2, <1>3, PTL DEF ResumptionSpec
=============================================================================
