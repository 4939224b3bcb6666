--------------------------- MODULE MCMultiplexer ---------------------------
(***************************************************************************)
(* Small instances of Multiplexer.  A mixed table of channel kinds for the *)
(* bookkeeping, and two persistently refilled channels for the scheduler.  *)
(***************************************************************************)
EXTENDS Multiplexer

CONSTANT MaxMixedFrames   \* bound on the frames of the mixed table

Config(id, mode, hint, capacity, stream, discardable) ==
    [ key |-> <<"p", IF id = 3 THEN 2 ELSE 1>>, id |-> id, generation |-> 1, mode |-> mode,
      priority_hint |-> hint, capacity |-> capacity, max_frame_bytes |-> 2,
      max_stream_bytes |-> stream, discardable |-> discardable ]

Envelope(session, id, generation, depth, length) ==
    [ session_id |-> session, channel_id |-> id, generation |-> generation,
      nesting_depth |-> depth, length |-> length ]

\* A request channel (cost 4 or 2 per byte), a quota-bound stream and a
\* discardable event channel, and one refused config per guard of open_channel.
MixedConfigs ==
    { Config(1, "RequestResponse", 64, 2, NoLimit, FALSE),
      Config(2, "Stream", 255, 2, 2, FALSE),
      Config(3, "Event", 255, 1, NoLimit, TRUE),
      Config(3, "Event", 255, 1, 1, TRUE),
      Config(0, "Event", 0, 1, NoLimit, FALSE),
      Config(1, "Stream", 0, 1, 2, TRUE),
      [Config(1, "Event", 0, 1, NoLimit, FALSE) EXCEPT !.generation = 0],
      [Config(1, "Event", 0, 1, NoLimit, FALSE) EXCEPT !.key = <<"q", 1>>] }

MixedEnvelopes ==
    { Envelope("s", 1, 1, 0, 1), Envelope("s", 2, 1, 0, 2), Envelope("s", 2, 1, 0, 1),
      Envelope("s", 3, 1, 0, 1),
      Envelope("old", 1, 1, 0, 1), Envelope("s", 1, 2, 0, 1),
      Envelope("s", 1, 1, 1, 1), Envelope("s", 1, 1, 0, 3), Envelope("s", 0, 1, 0, 1) }

\* Weights 4 and 8: a frame of the slow channel costs 2, one of the fast channel
\* 1, so CostBound is small enough for the bypass bound to be reached.
FairConfigs ==
    { [Config(1, "RequestResponse", 96, 2, NoLimit, FALSE) EXCEPT !.max_frame_bytes = 1],
      [Config(2, "Event", 255, 2, NoLimit, TRUE) EXCEPT !.max_frame_bytes = 1] }

Configurations == MixedConfigs \cup FairConfigs

\* The host's workload: the mixed table, or the two channels kept busy.
VARIABLE load

Workload ==
    /\ load = "mixed" => /\ \A c \in Open : channels[c].config \in MixedConfigs
                         /\ accepted <= MaxMixedFrames
    /\ load = "busy"  => \A c \in Open : channels[c].config \in FairConfigs

MCInit == Init /\ load \in {"mixed", "busy"}

MCNext == Next /\ UNCHANGED load /\ Workload'

MCSpec ==
    /\ MCInit /\ [][MCNext]_<<muxVars, load>>
    /\ WF_muxVars(NextOutbound)
=============================================================================
