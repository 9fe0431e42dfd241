---------------------------- MODULE GoChannelSend ----------------------------
(***************************************************************************)
(* The send side of a channel of the Go implementation (channel.go):       *)
(* WriteData, sendMessage, SendRequest, SendDatagram and confirmChannel    *)
(* called by several goroutines, and Close.  The header of a channel that  *)
(* this side opened is sent with the first of them.                        *)
(*                                                                         *)
(* A write holds sendMutex from its start to its return.  It sends what is *)
(* left of the header and then its messages: none for SendDatagram, one    *)
(* for sendMessage, any number for WriteData.  Close takes no mutex.       *)
(***************************************************************************)
EXTENDS Naturals, Sequences

CONSTANTS
    Writers,     \* the goroutines that write on the channel
    NoOne,       \* not a writer: marks the units of the header
    HeaderLen,   \* length of the header, in units that a short write can split
    MaxMessages, \* bound on the messages of one write
    MaxWrites    \* bound on the writes of a goroutine

ASSUME SendAssumption ==
    /\ NoOne \notin Writers
    /\ HeaderLen \in Nat
    /\ MaxMessages \in Nat
    /\ MaxWrites \in Nat

VARIABLES
    mutex,   \* the holder of sendMutex, or NoOne
    header,  \* length of what is left of c.header
    pc,      \* pc[w]: "idle", "header" or "body"
    left,    \* left[w]: messages the current write has still to send
    count,   \* count[w]: writes that w has begun
    wire,    \* what the stream has accepted
    stream   \* "open" or "shut": closed, or failed

vars == <<mutex, header, pc, left, count, wire, stream>>

\* What a write puts on the stream is marked with the writer and its write.
HeaderUnit == [by |-> NoOne, write |-> 0]
Unit(w) == [by |-> w, write |-> count[w]]

\* NewChannel with sendHeader (or HeaderLen = 0 without it).
Init ==
    /\ mutex = NoOne
    /\ header = HeaderLen
    /\ pc = [w \in Writers |-> "idle"]
    /\ left = [w \in Writers |-> 0]
    /\ count = [w \in Writers |-> 0]
    /\ wire = <<>>
    /\ stream = "open"

-----------------------------------------------------------------------------

\* Mutant of Lock: the write does not look at the header.
LockWithoutHeader(w) ==
    /\ pc[w] = "idle"
    /\ mutex = NoOne
    /\ count[w] < MaxWrites
    /\ mutex' = w
    /\ pc' = [pc EXCEPT ![w] = "body"]
    /\ count' = [count EXCEPT ![w] = @ + 1]
    /\ \E n \in 0 .. MaxMessages : left' = [left EXCEPT ![w] = n]
    /\ UNCHANGED <<header, wire, stream>>

\* sendMutex.Lock() of a write of n messages.
Lock(w) ==
    /\ pc[w] = "idle"
    /\ mutex = NoOne
    /\ count[w] < MaxWrites
    /\ mutex' = w
    /\ pc' = [pc EXCEPT ![w] = "header"]
    /\ count' = [count EXCEPT ![w] = @ + 1]
    /\ \E n \in 0 .. MaxMessages : left' = [left EXCEPT ![w] = n]
    /\ UNCHANGED <<header, wire, stream>>

\* maybeSendHeaderLocked: a unit of the header is accepted.
SendHeader(w) ==
    /\ pc[w] = "header"
    /\ header > 0
    /\ stream = "open"
    /\ wire' = Append(wire, HeaderUnit)
    /\ header' = header - 1
    /\ UNCHANGED <<mutex, pc, left, count, stream>>

\* maybeSendHeaderLocked returns nil: nothing is left of the header.
HeaderSent(w) ==
    /\ pc[w] = "header"
    /\ header = 0
    /\ pc' = [pc EXCEPT ![w] = "body"]
    /\ UNCHANGED <<mutex, header, left, count, wire, stream>>

\* Mutant of SendMessage: the mutex is released between two messages.
SendMessageUnlocking(w) ==
    /\ pc[w] = "body"
    /\ left[w] > 0
    /\ stream = "open"
    /\ wire' = Append(wire, Unit(w))
    /\ left' = [left EXCEPT ![w] = @ - 1]
    /\ mutex' = NoOne
    /\ UNCHANGED <<header, pc, count, stream>>

\* c.send.Write accepts one message.
SendMessage(w) ==
    /\ pc[w] = "body"
    /\ left[w] > 0
    /\ stream = "open"
    /\ wire' = Append(wire, Unit(w))
    /\ left' = [left EXCEPT ![w] = @ - 1]
    /\ UNCHANGED <<mutex, header, pc, count, stream>>

\* maybeSendHeaderLocked fails: after a short write what is left of the header
\* waits for the next write; after an error the stream takes nothing more.
HeaderFails(w) ==
    /\ pc[w] = "header"
    /\ header > 0
    /\ pc' = [pc EXCEPT ![w] = "idle"]
    /\ mutex' = NoOne
    /\ stream' \in {stream, "shut"}
    /\ UNCHANGED <<header, left, count, wire>>

\* Mutant of MessageFails: returns without unlocking.
MessageFailsLocked(w) ==
    /\ pc[w] = "body"
    /\ left[w] > 0
    /\ pc' = [pc EXCEPT ![w] = "idle"]
    /\ stream' = "shut"
    /\ UNCHANGED <<mutex, header, left, count, wire>>

\* The write of a message fails, with an error or as a short write that leaves
\* the beginning of the message on the stream.
MessageFails(w) ==
    /\ pc[w] = "body"
    /\ left[w] > 0
    /\ pc' = [pc EXCEPT ![w] = "idle"]
    /\ mutex' = NoOne
    /\ \/ stream' = "shut" /\ UNCHANGED wire
       \/ /\ stream = "open"
          /\ wire' = Append(wire, Unit(w))
          /\ UNCHANGED stream
    /\ UNCHANGED <<header, left, count>>

\* The write returns and the deferred Unlock runs.
Return(w) ==
    /\ pc[w] = "body"
    /\ left[w] = 0
    /\ pc' = [pc EXCEPT ![w] = "idle"]
    /\ mutex' = NoOne
    /\ UNCHANGED <<header, left, count, wire, stream>>

\* channelImpl.Close, at any time.
Close ==
    /\ stream = "open"
    /\ stream' = "shut"
    /\ UNCHANGED <<mutex, header, pc, left, count, wire>>

Next ==
    \/ Close
    \/ \E w \in Writers :
          \/ Lock(w)
          \/ SendHeader(w)
          \/ HeaderSent(w)
          \/ SendMessage(w)
          \/ HeaderFails(w)
          \/ MessageFails(w)
          \/ Return(w)

\* A goroutine that holds the mutex runs: a Write of the stream returns, because
\* the peer reads the stream or resets it.
Fairness ==
    \A w \in Writers :
        WF_vars(\/ SendHeader(w) \/ HeaderSent(w) \/ HeaderFails(w)
                \/ SendMessage(w) \/ MessageFails(w) \/ Return(w))

Spec == Init /\ [][Next]_vars /\ Fairness

-----------------------------------------------------------------------------

TypeOK ==
    /\ mutex \in Writers \cup {NoOne}
    /\ header \in 0 .. HeaderLen
    /\ pc \in [Writers -> {"idle", "header", "body"}]
    /\ left \in [Writers -> Nat]
    /\ count \in [Writers -> Nat]
    /\ wire \in Seq([by : Writers \cup {NoOne}, write : Nat])
    /\ stream \in {"open", "shut"}

\* TestConcurrentChannelWritersSendOneHeader, for every interleaving and with
\* short writes: the stream starts with the whole header, which is sent once, and
\* no message of any writer comes before its end.
HeaderFirst ==
    \A i \in 1 .. Len(wire) : (wire[i].by = NoOne) <=> (i <= HeaderLen)

\* GO_VALIDATION.md: "Channel writes are serialized".  The messages of one write
\* are contiguous on the stream: nothing of another writer comes between them.
Serialized ==
    \A i, j \in 1 .. Len(wire) :
        (i < j /\ wire[i] = wire[j]) =>
            \A k \in i .. j : wire[k] = wire[i]
=============================================================================
