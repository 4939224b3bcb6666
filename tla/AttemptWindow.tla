---------------------------- MODULE AttemptWindow ----------------------------
(***************************************************************************)
(* The sliding window both rate limiters are built on: admit of the        *)
(* pairing limiter and AttemptRateLimiter::allow of discovery are the same *)
(* algorithm over a map from sources to the times of their attempts.       *)
(***************************************************************************)
EXTENDS Naturals, Sequences, SequencesExt, FiniteSets

\* saturating_sub: an attempt stamped later than now has age 0.
Age(entry, now) == IF entry > now THEN 0 ELSE now - entry

\* Fault: the first attempt decides instead of the last.
RecentByFirst(table, window, now) ==
    [s \in {s \in DOMAIN table : table[s] # <<>> /\ Age(Head(table[s]), now) < window} |-> table[s]]

\* retain: a source stays in the map while its last attempt is inside the window.
Recent(table, window, now) ==
    [s \in {s \in DOMAIN table : table[s] # <<>> /\ Age(Last(table[s]), now) < window} |-> table[s]]

\* The attempts of one source once those that left the window are popped from the front.
InWindow(entries, window, now) ==
    LET fresh == {i \in DOMAIN entries : Age(entries[i], now) < window}
        first == CHOOSE i \in fresh : \A j \in fresh : i <= j
    IN  IF fresh = {} THEN <<>> ELSE SubSeq(entries, first, Len(entries))

EntriesOf(table, source) == IF source \in DOMAIN table THEN table[source] ELSE <<>>

\* One attempt: the map after the call, and whether the attempt was admitted.
AttemptOutcome(table, source, maximum, maxSources, window, now) ==
    LET recent  == Recent(table, window, now)
        entries == InWindow(EntriesOf(recent, source), window, now)
        With(value) == [s \in DOMAIN recent \cup {source} |->
                          IF s = source THEN value ELSE recent[s]]
    IN  CASE source \notin DOMAIN recent /\ Cardinality(DOMAIN recent) >= maxSources ->
               [admitted |-> FALSE, table |-> recent]
          [] Len(entries) >= maximum -> [admitted |-> FALSE, table |-> With(entries)]
          [] OTHER -> [admitted |-> TRUE, table |-> With(Append(entries, now))]
=============================================================================
