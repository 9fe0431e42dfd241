---------------------------- MODULE RustChannelSend ----------------------------
(***************************************************************************)
(* The send side of a channel of the Rust implementation                   *)
(* (crates/ssh3-core/src/channel.rs): write_data, send_message,            *)
(* send_request and send_datagram called by several tasks, and close.  The *)
(* header of a channel that this side opened is sent with the first.       *)
(*                                                                         *)
(* maybe_send_header takes the header out of its mutex, and only then      *)
(* acquires the lock of the stream; the messages of the write are sent     *)
(* under a second acquisition of that lock.                                *)
(*                                                                         *)
(* Main is the task that opened the channel and sends the first requests.  *)
(* The tasks in Eager exist by then, as the signal forwarders of           *)
(* run_capture_on_client do; the others are spawned once the first write   *)
(* of Main has returned, as all of them are in run_stdio_on_client.        *)
(***************************************************************************)
EXTENDS Naturals, Sequences

CONSTANTS
    Writers,     \* the tasks that write on the channel
    Main,        \* the task that opened the channel
    Eager,       \* the tasks that may write before Main has
    NoOne,       \* not a writer: marks the units of the header
    HeaderLen,   \* length of the header
    MaxMessages, \* bound on the messages of one write
    MaxWrites    \* bound on the writes of a task

VARIABLES
    header,  \* 1 while Channel.header is Some, 0 once it has been taken
    send,    \* the holder of the stream's lock, or NoOne
    pc,      \* pc[w]: "idle", "take", "header", "body" or "writing"
    left,    \* left[w]: messages the current write has still to send
    count,   \* count[w]: writes that w has begun
    wire,    \* what the stream has accepted
    stream   \* "open" or "shut": closed, or failed

vars == <<header, send, pc, left, count, wire, stream>>

HeaderUnit == [by |-> NoOne, write |-> 0]
Unit(w) == [by |-> w, write |-> count[w]]

\* Channel::new with send_header.
Init ==
    /\ header = 1
    /\ send = NoOne
    /\ pc = [w \in Writers |-> "idle"]
    /\ left = [w \in Writers |-> 0]
    /\ count = [w \in Writers |-> 0]
    /\ wire = <<>>
    /\ stream = "open"

-----------------------------------------------------------------------------

\* The first write of Main has returned.
Spawned == count[Main] > 1 \/ (count[Main] = 1 /\ pc[Main] = "idle")

\* A task calls write_data (n messages), send_message (1) or send_datagram (0).
Begin(w) ==
    /\ pc[w] = "idle"
    /\ w \in Eager \/ Spawned
    /\ count[w] < MaxWrites
    /\ pc' = [pc EXCEPT ![w] = "take"]
    /\ count' = [count EXCEPT ![w] = @ + 1]
    /\ \E n \in 0 .. MaxMessages : left' = [left EXCEPT ![w] = n]
    /\ UNCHANGED <<header, send, wire, stream>>

\* self.header.lock().take()
TakeHeader(w) ==
    /\ pc[w] = "take"
    /\ pc' = [pc EXCEPT ![w] = IF header = 1 THEN "header" ELSE "body"]
    /\ header' = 0
    /\ UNCHANGED <<send, left, count, wire, stream>>

\* self.send.lock().await, write_all(&header), and the guard is dropped.
WriteHeader(w) ==
    /\ pc[w] = "header"
    /\ send = NoOne
    /\ stream = "open"
    /\ wire' = wire \o [i \in 1 .. HeaderLen |-> HeaderUnit]
    /\ pc' = [pc EXCEPT ![w] = "body"]
    /\ UNCHANGED <<header, send, left, count, stream>>

\* self.send.lock().await of the write itself.
LockSend(w) ==
    /\ pc[w] = "body"
    /\ send = NoOne
    /\ pc' = [pc EXCEPT ![w] = "writing"]
    /\ send' = w
    /\ UNCHANGED <<header, left, count, wire, stream>>

\* write_all of one encoded message.
WriteMessage(w) ==
    /\ pc[w] = "writing"
    /\ left[w] > 0
    /\ stream = "open"
    /\ wire' = Append(wire, Unit(w))
    /\ left' = [left EXCEPT ![w] = @ - 1]
    /\ UNCHANGED <<header, send, pc, count, stream>>

\* The write returns and the guard is dropped.
Return(w) ==
    /\ pc[w] = "writing"
    /\ left[w] = 0
    /\ pc' = [pc EXCEPT ![w] = "idle"]
    /\ send' = NoOne
    /\ UNCHANGED <<header, left, count, wire, stream>>

\* send_datagram goes on to the connection, without the lock.
SendDatagram(w) ==
    /\ pc[w] = "body"
    /\ left[w] = 0
    /\ pc' = [pc EXCEPT ![w] = "idle"]
    /\ UNCHANGED <<header, send, left, count, wire, stream>>

\* write_all fails and the write returns its error; the stream is lost.
WriteFails(w) ==
    /\ \/ pc[w] = "header" /\ send = NoOne /\ UNCHANGED send
       \/ pc[w] = "writing" /\ left[w] > 0 /\ send' = NoOne
    /\ pc' = [pc EXCEPT ![w] = "idle"]
    /\ stream' = "shut"
    /\ UNCHANGED <<header, left, count, wire>>

\* Channel::close, by Main or by the task that forwards stdin.
Close ==
    /\ Spawned
    /\ send = NoOne
    /\ stream' = "shut"
    /\ UNCHANGED <<header, send, pc, left, count, wire>>

Advance(w) ==
    \/ TakeHeader(w)
    \/ WriteHeader(w)
    \/ LockSend(w)
    \/ WriteMessage(w)
    \/ Return(w)
    \/ SendDatagram(w)
    \/ WriteFails(w)

Next == Close \/ \E w \in Writers : Begin(w) \/ Advance(w)

\* Tasks are polled, write_all returns because the peer reads or resets the
\* stream, and the lock's queue is first come, first served.
Fairness == \A w \in Writers : SF_vars(Advance(w))

Spec == Init /\ [][Next]_vars /\ Fairness

-----------------------------------------------------------------------------

TypeOK ==
    /\ header \in {0, 1}
    /\ send \in Writers \cup {NoOne}
    /\ pc \in [Writers -> {"idle", "take", "header", "body", "writing"}]
    /\ \A w \in Writers : (send = w) <=> (pc[w] = "writing")
    /\ left \in [Writers -> Nat]
    /\ count \in [Writers -> Nat]
    /\ wire \in Seq([by : Writers \cup {NoOne}, write : Nat])
    /\ stream \in {"open", "shut"}

\* The test write_data_sends_header_once_and_chunks_payload, for several tasks:
\* the header comes before every message.
HeaderFirst ==
    \A i \in 1 .. Len(wire) : (wire[i].by = NoOne) <=> (i <= HeaderLen)
=============================================================================
