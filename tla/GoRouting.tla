------------------------------- MODULE GoRouting -------------------------------
(***************************************************************************)
(* Datagram routing of the Go implementation: the receiver goroutine of a  *)
(* connection (transport.go, conversation.go), the channelsManager         *)
(* (resources_manager.go), the registration of channels and the handlers   *)
(* that take datagrams out of a channel.                                   *)
(*                                                                         *)
(* Steps are the critical sections of channelsManager.lock and the         *)
(* operations of the buffered Go channels (BoundedFifo).  The datagrams of *)
(* a channel are numbered in the order in which the receiver meets them.   *)
(***************************************************************************)
EXTENDS Naturals, Sequences, FiniteSets

CONSTANTS
    Channels,      \* channel ids
    None,          \* no channel
    QueueSize,     \* datagramsQueueSize of a new channel
    DanglingSize,  \* length of a dangling queue (10 in the code)
    MaxDangling,   \* maxDanglingDatagramChannels (128 in the code)
    MaxDatagrams   \* bound on the datagrams per channel

ASSUME SizesAssumption ==
    /\ QueueSize \in Nat \ {0}
    /\ DanglingSize \in Nat \ {0}
    /\ MaxDangling \in Nat
    /\ MaxDatagrams \in Nat
ASSUME NoneAssumption == None \notin Channels

VARIABLES
    routed,    \* routed[c]: datagrams of channel c the receiver has met
    hand,      \* the channel of the datagram being routed, or None
    rpc,       \* where the receiver is in AddDatagram
    channels,  \* keys of channelsManager.channels
    dangling,  \* danglingDgramQueues; a queue is entered with its first
               \* datagram in it, so <<>> stands for no entry
    queue,     \* queue[c]: contents of the channel's datagramsQueue
    size,      \* size[c]: capacity of the channel's datagramsQueue
    stopped,   \* channels whose handler goroutine has returned
    recvd      \* recvd[c]: what ReceiveDatagram has returned to the handler

vars == <<routed, hand, rpc, channels, dangling, queue, size, stopped, recvd>>

Init ==
    /\ routed = [c \in Channels |-> 0]
    /\ hand = None
    /\ rpc = "idle"
    /\ channels = {}
    /\ dangling = [c \in Channels |-> <<>>]
    /\ queue = [c \in Channels |-> <<>>]
    /\ size = [c \in Channels |-> QueueSize]
    /\ stopped = {}
    /\ recvd = [c \in Channels |-> <<>>]

-----------------------------------------------------------------------------
(* The receiver goroutine *)

\* conn.ReceiveDatagram returns a datagram for channel c and AddDatagram starts.
ReceiveFromConn(c) ==
    /\ rpc = "idle"
    /\ routed[c] < MaxDatagrams
    /\ routed' = [routed EXCEPT ![c] = @ + 1]
    /\ hand' = c
    /\ rpc' = "lookup"
    /\ UNCHANGED <<channels, dangling, queue, size, stopped, recvd>>

\* channelsManager.getChannel
GetChannel ==
    /\ rpc = "lookup"
    /\ rpc' = IF hand \in channels THEN "found" ELSE "missing"
    /\ UNCHANGED <<routed, hand, channels, dangling, queue, size, stopped, recvd>>

\* AddDatagram returns to the receive loop.
Done ==
    /\ hand' = None
    /\ rpc' = "idle"

\* Mutant of WaitAddDatagram: the last place of the queue is never used.
WaitAddDatagramOffByOne ==
    /\ rpc = "found"
    /\ Len(queue[hand]) < size[hand] - 1
    /\ queue' = [queue EXCEPT ![hand] = Append(@, routed[hand])]
    /\ Done
    /\ UNCHANGED <<routed, channels, dangling, size, stopped, recvd>>

\* channel.waitAddDatagram, which blocks while the queue is full.
WaitAddDatagram ==
    /\ rpc = "found"
    /\ Len(queue[hand]) < size[hand]
    /\ queue' = [queue EXCEPT ![hand] = Append(@, routed[hand])]
    /\ Done
    /\ UNCHANGED <<routed, channels, dangling, size, stopped, recvd>>

\* The channels that have an entry in danglingDgramQueues.
DanglingEntries == {c \in Channels : dangling[c] # <<>>}

\* Mutant of AddDanglingDatagramsQueue: an entry is replaced by the new queue.
AddDanglingDatagramsQueueReplacing ==
    /\ rpc = "missing"
    /\ \/ /\ hand \in channels
          /\ queue' = [queue EXCEPT ![hand] =
                          IF Len(@) < size[hand] THEN Append(@, routed[hand]) ELSE @]
          /\ UNCHANGED dangling
       \/ /\ hand \notin channels
          /\ dangling' = [dangling EXCEPT ![hand] = <<routed[hand]>>]
          /\ UNCHANGED queue
    /\ Done
    /\ UNCHANGED <<routed, channels, size, stopped, recvd>>

\* Mutant of AddDanglingDatagramsQueue: the channel is not looked up again.
AddDanglingDatagramsQueueUnchecked ==
    /\ rpc = "missing"
    /\ dangling' = [dangling EXCEPT ![hand] =
                       IF Len(@) < DanglingSize THEN Append(@, routed[hand]) ELSE @]
    /\ Done
    /\ UNCHANGED <<routed, channels, queue, size, stopped, recvd>>

\* channelsManager.addDanglingDatagramsQueue: the channel may have been added
\* since getChannel; otherwise the datagram joins the dangling queue, or starts
\* one if there are not too many.  Full queues drop it.
AddDanglingDatagramsQueue ==
    /\ rpc = "missing"
    /\ \/ /\ hand \in channels
          /\ queue' = [queue EXCEPT ![hand] =
                          IF Len(@) < size[hand] THEN Append(@, routed[hand]) ELSE @]
          /\ UNCHANGED dangling
       \/ /\ hand \notin channels
          /\ dangling[hand] # <<>>
          /\ dangling' = [dangling EXCEPT ![hand] =
                             IF Len(@) < DanglingSize THEN Append(@, routed[hand]) ELSE @]
          /\ UNCHANGED queue
       \/ /\ hand \notin channels
          /\ dangling[hand] = <<>>
          /\ dangling' = IF Cardinality(DanglingEntries) < MaxDangling
                         THEN [dangling EXCEPT ![hand] = <<routed[hand]>>]
                         ELSE dangling
          /\ UNCHANGED queue
    /\ Done
    /\ UNCHANGED <<routed, channels, size, stopped, recvd>>

-----------------------------------------------------------------------------
(* Channels and their handlers *)

\* channelsManager.addChannel, one critical section.
AddChannel(c) ==
    /\ c \notin channels
    /\ channels' = channels \cup {c}
    /\ \/ /\ dangling[c] = <<>>
          /\ UNCHANGED <<dangling, queue, size>>
       \/ /\ dangling[c] # <<>>
          /\ queue' = [queue EXCEPT ![c] = dangling[c]]
          /\ size' = [size EXCEPT ![c] = DanglingSize]
          /\ dangling' = [dangling EXCEPT ![c] = <<>>]
    /\ UNCHANGED <<routed, hand, rpc, stopped, recvd>>

\* The forwarding goroutine of the channel takes the next datagram.
ReceiveDatagram(c) ==
    /\ c \in channels \ stopped
    /\ queue[c] # <<>>
    /\ recvd' = [recvd EXCEPT ![c] = Append(@, Head(queue[c]))]
    /\ queue' = [queue EXCEPT ![c] = Tail(@)]
    /\ UNCHANGED <<routed, hand, rpc, channels, dangling, size, stopped>>

\* The forwarding goroutine returns (a write on its socket failed), or the
\* channel is of a type for which nobody receives datagrams.  Either way the
\* channel stays in channelsManager.
HandlerReturns(c) ==
    /\ c \in channels \ stopped
    /\ stopped' = stopped \cup {c}
    /\ UNCHANGED <<routed, hand, rpc, channels, dangling, queue, size, recvd>>

-----------------------------------------------------------------------------

RouterRuns == GetChannel \/ WaitAddDatagram \/ AddDanglingDatagramsQueue

Next ==
    \/ RouterRuns
    \/ \E c \in Channels :
          \/ ReceiveFromConn(c)
          \/ AddChannel(c)
          \/ ReceiveDatagram(c)
          \/ HandlerReturns(c)

\* Goroutines that can run are scheduled; nothing forces a datagram to arrive,
\* a channel to be opened or a handler to fail.
Fairness ==
    /\ WF_vars(RouterRuns)
    /\ \A c \in Channels : WF_vars(ReceiveDatagram(c))

Spec == Init /\ [][Next]_vars /\ Fairness

-----------------------------------------------------------------------------

TypeOK ==
    /\ routed \in [Channels -> Nat]
    /\ hand \in Channels \cup {None}
    /\ rpc \in {"idle", "lookup", "found", "missing"}
    /\ (rpc = "idle") <=> (hand = None)
    /\ channels \subseteq Channels
    /\ dangling \in [Channels -> Seq(Nat)]
    /\ queue \in [Channels -> Seq(Nat)]
    /\ size \in [Channels -> {QueueSize, DanglingSize}]
    /\ stopped \subseteq channels
    /\ recvd \in [Channels -> Seq(Nat)]

\* A channel is either registered or has a dangling queue: a datagram is never
\* parked where the registered channel will not look for it, although the
\* receiver looks the channel up and parks the datagram in separate critical
\* sections; and the queue of an unregistered channel is untouched.
OneHome ==
    /\ \A c \in channels : dangling[c] = <<>>
    /\ \A c \in Channels \ channels : queue[c] = <<>>
    /\ rpc = "found" => hand \in channels

\* The receiver returns to its loop unless a handler has ended and left its
\* queue to fill up.
RouterProgress == (rpc # "idle") ~> (rpc = "idle" \/ stopped # {})

MailRoom == IF QueueSize < DanglingSize THEN QueueSize ELSE DanglingSize

\* Where the datagrams of channel c wait.
Box == [c \in Channels |-> IF c \in channels THEN queue[c] ELSE dangling[c]]

\* The Go conversation keeps the promise of DatagramDelivery, liveness included:
\* datagrams reach the handler in order, and are dropped only by a full buffer.
Delivery == INSTANCE DatagramDelivery WITH
    box <- Box,
    opened <- channels,
    Room <- MailRoom
ImplementsDelivery == Delivery!Spec
=============================================================================
