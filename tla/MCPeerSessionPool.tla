------------------------- MODULE MCPeerSessionPool -------------------------
(***************************************************************************)
(* Three connections, two of which the listener may have let in, and       *)
(* three peers of which the pool holds at most two.                        *)
(***************************************************************************)
EXTENDS PeerSessionPool, TLC

Intervals == [p \in {"Idle"} |-> 1]

Immediate ==
    { [ kind |-> "Immediate", initial |-> 1, maximum |-> 1, multiplier |-> 1000, jitter |-> 0,
        max_attempts |-> 1, max_elapsed |-> 2 ] }

Symmetry == Permutations(Peers) \cup Permutations(Conns)
=============================================================================
