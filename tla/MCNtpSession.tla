---------------------------- MODULE MCNtpSession ----------------------------
(***************************************************************************)
(* Two sessions, one with a second generation; a second session that uses  *)
(* a generation again; an outbox and a stream that both take one message.  *)
(***************************************************************************)
EXTENDS NtpSession

Proposals ==
    { [session |-> "a", generation |-> 1], [session |-> "a", generation |-> 2],
      [session |-> "b", generation |-> 2] }
=============================================================================
