-------------------------- MODULE FramedConnection --------------------------
(***************************************************************************)
(* The framing bridge under the TCP and local transports (crate            *)
(* mutsuki-link-io): a connection is an owner that calls the non-blocking  *)
(* Connection methods, a writer task and a reader task, joined by bounded  *)
(* queues.  Two connections face each other over a byte stream.            *)
(*                                                                         *)
(* Frames are read and written whole here, except where a task is aborted  *)
(* in the middle of one.  The send lane of a frame is the method it was    *)
(* given to; the receive lane is decided by its first bytes, the MLCS      *)
(* prefix.  Byte rates (throttle) only delay and are left out.             *)
(***************************************************************************)
EXTENDS Integers, Sequences, SequencesExt

CONSTANTS
    Ends,             \* the two connections
    Offers,           \* [lane, kind, big]: messages an owner may send
    AcceptsBig,       \* ends whose max_frame_bytes admits the big messages
    ControlCapacity,  \* TransportBudget.control_queue_capacity, both directions
    DataCapacity,     \* TransportBudget.data_queue_capacity
    ReceiveCapacity,  \* TransportBudget.receive_queue_capacity
    StreamCapacity,   \* frames the byte stream buffers in one direction
    IdleTimeout,      \* whether TransportBudget.idle_timeout is set
    Receivers,        \* model bound: ends whose owner calls the receive methods
    Aborters,         \* model bound: ends whose owner calls close_read or abort
    Resets,           \* whether the network may reset the stream
    MaxSent           \* model bound: end -> messages it sends

Lanes == {"control", "data"}

ASSUME FramedAssumption ==
    /\ \E a, b \in Ends : a # b /\ Ends = {a, b}
    /\ \A o \in Offers : o.lane \in Lanes /\ o.kind \in Lanes /\ o.big \in BOOLEAN
    /\ AcceptsBig \subseteq Ends
    /\ {ControlCapacity, DataCapacity, ReceiveCapacity, StreamCapacity} \subseteq Nat \ {0}
    /\ IdleTimeout \in BOOLEAN
    /\ Receivers \subseteq Ends
    /\ Aborters \subseteq Ends
    /\ Resets \in BOOLEAN
    /\ MaxSent \in [Ends -> Nat]

VARIABLES
    sendq,           \* end -> lane -> frames accepted, control_tx and data_tx
    senders,         \* end -> the Sender halves still exist
    writer,          \* end -> writer task: [pc, frame, open]
    wire,            \* end -> frames (or a torn one) it wrote, not yet read
    shut,            \* end -> its writer has shut the stream's write side down
    reader,          \* end -> reader task: [pc, frame]
    recvq,           \* end -> lane -> frames for the owner
    terminal_error,  \* end -> kind of the first fatal error, or "None"
    write_closed,    \* end -> flag of the same name
    read_closed,     \* end -> flag of the same name
    aborted,         \* end -> tasks on which abort() was called
    probing,         \* end -> lane whose try_receive found its queue empty and
                     \*        has not yet asked reader.is_finished()
    broken,          \* the underlying stream was reset
    (* History: *)
    accepted,        \* end -> frames its send methods accepted
    received,        \* end -> frames its receive methods returned
    told,            \* end -> lanes on which a receive reported the end
    delay            \* end -> data frames written while the control frame at
                     \*        the head of its queue waited

queues  == <<sendq, senders, wire, shut, recvq>>
tasks   == <<writer, reader, aborted>>
flags   == <<terminal_error, write_closed, read_closed, probing, broken>>
history == <<accepted, received, told, delay>>
vars    == <<queues, tasks, flags, history>>

Peer(e) == CHOOSE p \in Ends : p # e

Done(task) == task.pc = "done"

\* Both halves of the split stream have been dropped.
Gone(e) == Done(writer[e]) /\ Done(reader[e])

Init ==
    /\ sendq = [e \in Ends |-> [l \in Lanes |-> <<>>]]
    /\ senders = [e \in Ends |-> TRUE]
    /\ writer = [e \in Ends |-> [pc |-> "select", frame |-> <<>>, open |-> Lanes]]
    /\ wire = [e \in Ends |-> <<>>]
    /\ shut = [e \in Ends |-> FALSE]
    /\ reader = [e \in Ends |-> [pc |-> "read", frame |-> <<>>]]
    /\ recvq = [e \in Ends |-> [l \in Lanes |-> <<>>]]
    /\ terminal_error = [e \in Ends |-> "None"]
    /\ write_closed = [e \in Ends |-> FALSE]
    /\ read_closed = [e \in Ends |-> FALSE]
    /\ aborted = [e \in Ends |-> {}]
    /\ probing = [e \in Ends |-> "None"]
    /\ broken = FALSE
    /\ accepted = [e \in Ends |-> <<>>]
    /\ received = [e \in Ends |-> <<>>]
    /\ told = [e \in Ends |-> {}]
    /\ delay = [e \in Ends |-> 0]

-----------------------------------------------------------------------------
(* The owner's calls.  They take &mut self: none starts inside a receive.   *)

SendCapacity(lane) == IF lane = "control" THEN ControlCapacity ELSE DataCapacity

\* try_send and try_send_control.  WouldBlock (queue full) and Closed (flag
\* set, or the writer task is gone) change nothing.
TrySend(e, offer) ==
    /\ Len(accepted[e]) < MaxSent[e]
    /\ probing[e] = "None"
    /\ ~ write_closed[e]
    /\ offer.big => e \in AcceptsBig
    /\ ~ Done(writer[e])
    /\ Len(sendq[e][offer.lane]) < SendCapacity(offer.lane)
    /\ LET frame == [lane |-> offer.lane, kind |-> offer.kind, big |-> offer.big,
                     part |-> "whole", n |-> Len(accepted[e]) + 1]
       IN  /\ sendq' = [sendq EXCEPT ![e][offer.lane] = Append(@, frame)]
           /\ accepted' = [accepted EXCEPT ![e] = Append(@, frame)]
    /\ UNCHANGED <<senders, wire, shut, recvq, tasks, flags, received, told, delay>>

\* try_recv of try_receive and try_receive_control: a frame, the end of a lane
\* whose sender (the reader task) is gone, or nothing yet.
TryReceive(e, lane) ==
    /\ e \in Receivers
    /\ probing[e] = "None"
    /\ ~ read_closed[e]
    /\ \/ /\ recvq[e][lane] # <<>>
          /\ received' = [received EXCEPT ![e] = Append(@, Head(recvq[e][lane]))]
          /\ recvq' = [recvq EXCEPT ![e][lane] = Tail(@)]
          /\ UNCHANGED <<probing, told>>
       \/ /\ recvq[e][lane] = <<>>
          /\ Done(reader[e])
          /\ told' = [told EXCEPT ![e] = @ \cup {lane}]
          /\ UNCHANGED <<probing, recvq, received>>
       \/ /\ recvq[e][lane] = <<>>
          /\ ~ Done(reader[e])
          /\ probing' = [probing EXCEPT ![e] = lane]
          /\ UNCHANGED <<recvq, received, told>>
    /\ UNCHANGED <<sendq, senders, wire, shut, tasks, accepted, delay,
                   terminal_error, write_closed, read_closed, broken>>

\* The is_finished() that follows an empty try_recv: WouldBlock, or the end.
IsFinished(e) ==
    /\ probing[e] # "None"
    /\ told' = [told EXCEPT ![e] = IF Done(reader[e]) THEN @ \cup {probing[e]} ELSE @]
    /\ probing' = [probing EXCEPT ![e] = "None"]
    /\ UNCHANGED <<queues, tasks, accepted, received, delay,
                   terminal_error, write_closed, read_closed, broken>>

CloseWrite(e) ==
    /\ probing[e] = "None"
    /\ ~ write_closed[e]
    /\ write_closed' = [write_closed EXCEPT ![e] = TRUE]
    /\ senders' = [senders EXCEPT ![e] = FALSE]
    /\ UNCHANGED <<sendq, wire, shut, recvq, tasks, history,
                   terminal_error, read_closed, probing, broken>>

CloseRead(e) ==
    /\ e \in Aborters
    /\ probing[e] = "None"
    /\ read_closed' = [read_closed EXCEPT ![e] = TRUE]
    /\ aborted' = [aborted EXCEPT ![e] = @ \cup {"reader"}]
    /\ UNCHANGED <<queues, writer, reader, history,
                   terminal_error, write_closed, probing, broken>>

\* abort, and Drop, which then also drops the Senders.
Abort(e) ==
    /\ e \in Aborters
    /\ probing[e] = "None"
    /\ write_closed' = [write_closed EXCEPT ![e] = TRUE]
    /\ read_closed' = [read_closed EXCEPT ![e] = TRUE]
    /\ aborted' = [aborted EXCEPT ![e] = {"reader", "writer"}]
    /\ \E dropped \in BOOLEAN : senders' = [senders EXCEPT ![e] = @ /\ ~ dropped]
    /\ UNCHANGED <<sendq, wire, shut, recvq, writer, reader, history,
                   terminal_error, probing, broken>>

-----------------------------------------------------------------------------
(* Terminal errors *)

\* set_terminal_error: the first error is kept.
SetTerminalError(e, kind) ==
    terminal_error' = [terminal_error EXCEPT ![e] = IF @ = "None" THEN kind ELSE @]

-----------------------------------------------------------------------------
(* write_loop *)

\* Fault: the select is not biased, data may go first.
LaneToWriteAny(e) == {l \in writer[e].open : sendq[e][l] # <<>>}

\* recv() of a lane is ready with a frame; data is polled only when the control
\* lane is shut or has neither a frame nor its end to report.
LaneToWrite(e) ==
    {l \in writer[e].open :
        /\ sendq[e][l] # <<>>
        /\ l = "data" => \/ "control" \notin writer[e].open
                         \/ sendq[e]["control"] = <<>> /\ senders[e]}

TakeFrame(e) ==
    /\ writer[e].pc = "select"
    /\ \E lane \in LaneToWrite(e) :
         /\ writer' = [writer EXCEPT ![e].pc = "write", ![e].frame = <<Head(sendq[e][lane])>>]
         /\ sendq' = [sendq EXCEPT ![e][lane] = Tail(@)]
         /\ delay' = [delay EXCEPT ![e] = IF lane = "control" THEN 0 ELSE @]
    /\ UNCHANGED <<senders, wire, shut, recvq, reader, aborted, flags,
                   accepted, received, told>>

\* recv() returned None: every Sender is dropped and the queue is empty.
LaneEnded(e, lane) ==
    /\ writer[e].pc = "select"
    /\ lane \in writer[e].open
    /\ ~ senders[e]
    /\ sendq[e][lane] = <<>>
    /\ lane = "data" => "control" \notin writer[e].open
    /\ writer' = [writer EXCEPT ![e].open = @ \ {lane}]
    /\ UNCHANGED <<queues, reader, aborted, flags, history>>

\* Fault: the loop returns without shutting the stream down.
ShutdownSilently(e) ==
    /\ writer[e].pc = "select"
    /\ writer[e].open = {}
    /\ writer' = [writer EXCEPT ![e].pc = "done"]
    /\ UNCHANGED <<queues, reader, aborted, flags, history>>

Shutdown(e) ==
    /\ writer[e].pc = "select"
    /\ writer[e].open = {}
    /\ shut' = [shut EXCEPT ![e] = TRUE]
    /\ writer' = [writer EXCEPT ![e].pc = "done"]
    /\ UNCHANGED <<sendq, senders, wire, recvq, reader, aborted, flags, history>>

WriteFrame(e) ==
    /\ writer[e].pc = "write"
    /\ \/ /\ ~ broken
          /\ ~ Gone(Peer(e))
          /\ Len(wire[e]) < StreamCapacity
          /\ wire' = [wire EXCEPT ![e] = @ \o writer[e].frame]
          /\ writer' = [writer EXCEPT ![e].pc = "select", ![e].frame = <<>>]
          /\ delay' = [delay EXCEPT ![e] =
                         IF writer[e].frame[1].lane = "data" /\ sendq[e]["control"] # <<>>
                         THEN @ + 1 ELSE @]
          /\ UNCHANGED terminal_error
       \/ /\ broken \/ Gone(Peer(e))
          /\ writer' = [writer EXCEPT ![e].pc = "done", ![e].frame = <<>>]
          /\ \E kind \in {"Aborted", "Closed"} : SetTerminalError(e, kind)
          /\ UNCHANGED <<wire, delay>>
    /\ UNCHANGED <<sendq, senders, shut, recvq, reader, aborted, accepted, received, told,
                   write_closed, read_closed, probing, broken>>

\* Fault: an aborted writer half-closes as if it had flushed.
CancelWriterCleanly(e) ==
    /\ "writer" \in aborted[e]
    /\ ~ Done(writer[e])
    /\ writer' = [writer EXCEPT ![e].pc = "done", ![e].frame = <<>>]
    /\ shut' = [shut EXCEPT ![e] = TRUE]
    /\ UNCHANGED <<sendq, senders, wire, recvq, reader, aborted, flags, history>>

\* An aborted task ends at an await: in the middle of a frame it may leave
\* part of the length or part of the body on the stream.
CancelWriter(e) ==
    /\ "writer" \in aborted[e]
    /\ ~ Done(writer[e])
    /\ writer' = [writer EXCEPT ![e].pc = "done", ![e].frame = <<>>]
    /\ \/ UNCHANGED wire
       \/ /\ writer[e].pc = "write"
          /\ Len(wire[e]) < StreamCapacity
          /\ \E part \in {"length", "body"} :
                wire' = [wire EXCEPT ![e] = Append(@, [writer[e].frame[1] EXCEPT !.part = part])]
    /\ UNCHANGED <<sendq, senders, shut, recvq, reader, aborted, flags, history>>

-----------------------------------------------------------------------------
(* read_loop *)

ReaderEnds(e) == reader' = [reader EXCEPT ![e].pc = "done", ![e].frame = <<>>]

\* A torn length is a clean end of stream, a torn body an error, a frame over
\* max_frame_bytes an error before its body is read.
ReadFrame(e) ==
    /\ reader[e].pc = "read"
    /\ wire[Peer(e)] # <<>>
    /\ LET next == Head(wire[Peer(e)])
       IN  \/ /\ next.part = "length"
              /\ ReaderEnds(e)
              /\ UNCHANGED <<wire, terminal_error>>
           \/ /\ next.part = "body"
              /\ ReaderEnds(e)
              /\ SetTerminalError(e, "Closed")
              /\ UNCHANGED wire
           \/ /\ next.part = "whole"
              /\ next.big /\ e \notin AcceptsBig
              /\ ReaderEnds(e)
              /\ SetTerminalError(e, "MessageTooLarge")
              /\ UNCHANGED wire
           \/ /\ next.part = "whole"
              /\ next.big => e \in AcceptsBig
              /\ reader' = [reader EXCEPT ![e].pc = "deliver", ![e].frame = <<next>>]
              /\ wire' = [wire EXCEPT ![Peer(e)] = Tail(@)]
              /\ UNCHANGED terminal_error
    /\ UNCHANGED <<sendq, senders, shut, recvq, writer, aborted, history,
                   write_closed, read_closed, probing, broken>>

ReadEnd(e) ==
    /\ reader[e].pc = "read"
    /\ wire[Peer(e)] = <<>>
    /\ shut[Peer(e)] \/ Gone(Peer(e))
    /\ ReaderEnds(e)
    /\ UNCHANGED <<queues, writer, aborted, flags, history>>

\* A reset (a peer that went away may cause one, unread frames or not), or
\* idle_timeout without a frame.
ReadError(e) ==
    /\ reader[e].pc = "read"
    /\ \/ (broken \/ Gone(Peer(e))) /\ SetTerminalError(e, "Aborted")
       \/ IdleTimeout /\ wire[Peer(e)] = <<>> /\ SetTerminalError(e, "TimedOut")
    /\ ReaderEnds(e)
    /\ UNCHANGED <<queues, writer, aborted, history,
                   write_closed, read_closed, probing, broken>>

ReceiveQueueCapacity(lane) == IF lane = "control" THEN ControlCapacity ELSE ReceiveCapacity

\* Fault: a full queue drops the frame instead of waiting.
DeliverDropping(e) ==
    /\ reader[e].pc = "deliver"
    /\ LET lane == reader[e].frame[1].kind
       IN  recvq' = [recvq EXCEPT ![e][lane] =
                       IF Len(@) < ReceiveQueueCapacity(lane)
                       THEN @ \o reader[e].frame ELSE @]
    /\ reader' = [reader EXCEPT ![e].pc = "read", ![e].frame = <<>>]
    /\ UNCHANGED <<sendq, senders, wire, shut, writer, aborted, flags, history>>

\* target.send(message).await: the one reader waits for room in either queue.
Deliver(e) ==
    /\ reader[e].pc = "deliver"
    /\ LET lane == reader[e].frame[1].kind
       IN  /\ Len(recvq[e][lane]) < ReceiveQueueCapacity(lane)
           /\ recvq' = [recvq EXCEPT ![e][lane] = @ \o reader[e].frame]
    /\ reader' = [reader EXCEPT ![e].pc = "read", ![e].frame = <<>>]
    /\ UNCHANGED <<sendq, senders, wire, shut, writer, aborted, flags, history>>

CancelReader(e) ==
    /\ "reader" \in aborted[e]
    /\ ~ Done(reader[e])
    /\ ReaderEnds(e)
    /\ UNCHANGED <<queues, writer, aborted, flags, history>>

\* The network resets the stream.
Break ==
    /\ Resets
    /\ ~ broken
    /\ broken' = TRUE
    /\ UNCHANGED <<queues, tasks, terminal_error, write_closed, read_closed, probing, history>>

-----------------------------------------------------------------------------
WriterStep(e) ==
    \/ TakeFrame(e)
    \/ \E lane \in Lanes : LaneEnded(e, lane)
    \/ Shutdown(e)
    \/ WriteFrame(e)
    \/ CancelWriter(e)

ReaderStep(e) ==
    \/ ReadFrame(e)
    \/ ReadEnd(e)
    \/ Deliver(e)
    \/ CancelReader(e)

Next ==
    \/ \E e \in Ends, offer \in Offers : TrySend(e, offer)
    \/ \E e \in Ends, lane \in Lanes : TryReceive(e, lane)
    \/ \E e \in Ends : IsFinished(e)
    \/ \E e \in Ends : CloseWrite(e)
    \/ \E e \in Ends : CloseRead(e)
    \/ \E e \in Ends : Abort(e)
    \/ \E e \in Ends : WriterStep(e)
    \/ \E e \in Ends : ReaderStep(e)
    \/ \E e \in Ends : ReadError(e)
    \/ Break

Spec == Init /\ [][Next]_vars

\* The executor keeps running both tasks and a call that started returns.
TasksRun ==
    \A e \in Ends : WF_vars(WriterStep(e)) /\ WF_vars(ReaderStep(e)) /\ WF_vars(IsFinished(e))

\* Owners poll the lane again and again.
Polled(lane) == \A e \in Ends : SF_vars(TryReceive(e, lane))

FairSpec == Spec /\ TasksRun /\ Polled("control") /\ Polled("data")

\* Owners watch for control traffic and leave the data queue alone.
ControlPolledSpec == Spec /\ TasksRun /\ Polled("control")

-----------------------------------------------------------------------------
(* Properties *)

Passes(f, lane, kind) == f.part = "whole" /\ f.lane = lane /\ f.kind = kind

\* The frames that pass, in order.  (A function of the position and not
\* SelectSeq, so that the proofs can unfold it.)
Through(frames, lane, kind) ==
    LET kept[i \in 0 .. Len(frames)] ==
            IF i = 0 THEN <<>>
            ELSE IF Passes(frames[i], lane, kind) THEN Append(kept[i - 1], frames[i])
            ELSE kept[i - 1]
    IN  kept[Len(frames)]

\* What e sent on one lane with one kind, from the peer's owner back to e's.
Pipeline(e, lane, kind) ==
    Through(received[Peer(e)] \o recvq[Peer(e)][kind] \o reader[Peer(e)].frame \o wire[e]
                \o writer[e].frame \o sendq[e][lane],
            lane, kind)

Intact(e) ==
    /\ ~ Done(writer[e]) \/ shut[e]
    /\ ~ Done(reader[Peer(e)])

\* The reliable-message contract across both tasks and five queues: what the
\* peer's owner has received is a prefix of what was accepted for that lane
\* and kind, whatever was aborted, and while the two tasks between the owners
\* live no frame is lost, doubled or overtaken by one of its own lane.
LanesReliable ==
    \A e \in Ends, lane \in Lanes, kind \in Lanes :
        /\ IsPrefix(Through(received[Peer(e)], lane, kind), Through(accepted[e], lane, kind))
        /\ Intact(e) => Pipeline(e, lane, kind) = Through(accepted[e], lane, kind)

\* The biased select: an accepted control frame waits for the data frame
\* already being written and for no other.
ControlNotDelayed == \A e \in Ends : delay[e] <= 1

\* graceful_half_close_flushes_every_accepted_frame: when a receive call
\* reports the end of a lane after a clean end of stream, every frame of that
\* lane has been received.
EndMeansReceived ==
    \A e \in Ends, lane \in Lanes :
        lane \in told[e] /\ shut[Peer(e)] /\ terminal_error[e] = "None" =>
            recvq[e][lane] = <<>>

\* The stream from e has not been disturbed by an abort, a reset, a timeout or
\* an oversized frame.
Undisturbed(e) ==
    /\ ~ broken
    /\ aborted = [x \in Ends |-> {}]
    /\ terminal_error = [x \in Ends |-> "None"]

ControlNumbers(frames) == {f.n : f \in {g \in ToSet(frames) : g.kind = "control"}}

\* An accepted control message arrives: a full data queue cannot prevent
\* receiving ping, cancel, drain or close.
ControlArrives ==
    \A e \in Ends : \A n \in 1 .. MaxSent[e] :
        n \in ControlNumbers(accepted[e])
            ~> (n \in ControlNumbers(received[Peer(e)]) \/ ~ Undisturbed(e))

\* A half-close reaches the peer's owner, after all frames, on both lanes.
HalfCloseIsSeen ==
    \A e \in {x \in Ends : Peer(x) \in Receivers} :
        write_closed[e] ~> ((told[Peer(e)] = Lanes /\ \A l \in Lanes : recvq[Peer(e)][l] = <<>>)
                            \/ ~ Undisturbed(e))

=============================================================================
