----------------------------- MODULE MCSession -----------------------------
(***************************************************************************)
(* Small instances of Session: two channels of one protocol, of which two  *)
(* descriptors claim the same protocol channel, and one or two subscribers *)
(* with queues shorter than the events of a close.                         *)
(***************************************************************************)
EXTENDS Session

Channel(id, channel) ==
    [ key |-> <<"p", channel>>, id |-> id, generation |-> 1, mode |-> "Event",
      priority_hint |-> 255, capacity |-> 2, max_frame_bytes |-> 1,
      max_stream_bytes |-> NoLimit, discardable |-> TRUE ]

SmallConfigs ==
    { Channel(1, 1), Channel(2, 1), Channel(2, 2), Channel(1, 0),
      [Channel(1, 1) EXCEPT !.generation = 2], [Channel(2, 1) EXCEPT !.key = <<"q", 1>>] }

SmallValidated ==
    [config : SmallConfigs, bound : {TRUE}]
        \cup {[config |-> Channel(2, 2), bound |-> FALSE]}

SmallEnvelopes ==
    { [session_id |-> "s", channel_id |-> c, generation |-> 1,
       nesting_depth |-> 0, length |-> 1] : c \in {1, 2} }
=============================================================================
