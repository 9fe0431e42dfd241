------------------------------ MODULE RustRouting ------------------------------
(***************************************************************************)
(* Datagram routing of the Rust implementation: route_datagrams of the     *)
(* server and the dispatch loop of the client, Conversation::add_datagram, *)
(* ChannelsManager and the registration of channels                        *)
(* (crates/ssh3-core/src/conversation.rs, channel.rs).                     *)
(*                                                                         *)
(* Steps are the critical sections of the ChannelsManager's mutex and of   *)
(* the channel's datagrams_queue lock, and the operations of the queues    *)
(* (DatagramQueue, here as the atomic queue it implements).  A channel is  *)
(* made with a queue of its own; add_channel may replace it, in a step of  *)
(* its own, by the dangling queue that collected earlier datagrams.        *)
(***************************************************************************)
EXTENDS Naturals, Sequences, FiniteSets

CONSTANTS
    Channels,      \* channel ids
    None,          \* no channel
    QueueSize,     \* datagrams_queue_size of a new channel
    DanglingSize,  \* DANGLING_DATAGRAM_QUEUE_SIZE (10 in the code)
    MaxDatagrams   \* bound on the datagrams per channel

VARIABLES
    routed,    \* routed[c]: datagrams of channel c the router has met
    hand,      \* the channel of the datagram being routed, or None
    rpc,       \* where the router is in add_datagram
    target,    \* the queue the router cloned: "own", "adopted" or "none"
    channels,  \* keys of ChannelsState.channels
    dangling,  \* dangling_datagram_queues; a queue is entered with its datagram
               \* in it, so <<>> stands for no entry
    pending,   \* pending[c]: the pending_queue add_channel holds between its
               \* critical section and set_datagram_queue
    current,   \* current[c]: which queue the channel's datagrams_queue points to
    own,       \* own[c]: contents of the queue the channel was made with
    adopted,   \* adopted[c]: contents of the queue set by set_datagram_queue
    ready,     \* channels whose add_channel has returned; their handlers run
    stopped,   \* channels whose handler has ended
    recvd      \* recvd[c]: what receive_datagram has returned

vars == <<routed, hand, rpc, target, channels, dangling, pending, current, own,
          adopted, ready, stopped, recvd>>

Empty == [c \in Channels |-> <<>>]

Init ==
    /\ routed = [c \in Channels |-> 0]
    /\ hand = None
    /\ rpc = "idle"
    /\ target = "none"
    /\ channels = {}
    /\ dangling = Empty
    /\ pending = Empty
    /\ current = [c \in Channels |-> "own"]
    /\ own = Empty
    /\ adopted = Empty
    /\ ready = {}
    /\ stopped = {}
    /\ recvd = Empty

-----------------------------------------------------------------------------
(* The router task *)

\* read_datagram returns a datagram for channel c and add_datagram starts.
ReadDatagram(c) ==
    /\ rpc = "idle"
    /\ routed[c] < MaxDatagrams
    /\ routed' = [routed EXCEPT ![c] = @ + 1]
    /\ hand' = c
    /\ rpc' = "lookup"
    /\ UNCHANGED <<target, channels, dangling, pending, current, own, adopted,
                   ready, stopped, recvd>>

\* ChannelsManager::get_channel
GetChannel ==
    /\ rpc = "lookup"
    /\ rpc' = IF hand \in channels THEN "found" ELSE "missing"
    /\ UNCHANGED <<routed, hand, target, channels, dangling, pending, current,
                   own, adopted, ready, stopped, recvd>>

\* wait_add_datagram clones the Arc of the channel's queue ...
CloneQueue ==
    /\ rpc = "found"
    /\ rpc' = "adding"
    /\ target' = current[hand]
    /\ UNCHANGED <<routed, hand, channels, dangling, pending, current, own,
                   adopted, ready, stopped, recvd>>

\* add_datagram returns to the loop, which ignores ChannelNotFound.
Done ==
    /\ hand' = None
    /\ rpc' = "idle"
    /\ target' = "none"

\* Push the datagram onto queue q of channel c.
Push(c, q) ==
    \/ /\ q = "own"
       /\ own' = [own EXCEPT ![c] = Append(@, routed[c])]
       /\ UNCHANGED adopted
    \/ /\ q = "adopted"
       /\ adopted' = [adopted EXCEPT ![c] = Append(@, routed[c])]
       /\ UNCHANGED own

\* Mutant of HasRoom: always looks at the queue the channel was made with.
HasRoomInOwn(c, q) == Len(own[c]) < QueueSize

\* len < capacity of queue q.
HasRoom(c, q) ==
    \/ q = "own" /\ Len(own[c]) < QueueSize
    \/ q = "adopted" /\ Len(adopted[c]) < DanglingSize

\* ... and then waits for room in the queue it cloned, which need no longer be
\* the queue the channel reads from.
WaitAdd ==
    /\ rpc = "adding"
    /\ HasRoom(hand, target)
    /\ Push(hand, target)
    /\ Done
    /\ UNCHANGED <<routed, channels, dangling, pending, current, ready, stopped,
                   recvd>>

\* add_dangling_datagrams_queue, the critical section: if the channel has been
\* added meanwhile the datagram goes to it, otherwise a new queue with this one
\* datagram becomes the map's entry, replacing any earlier entry.
AddDanglingDatagramsQueue ==
    /\ rpc = "missing"
    /\ \/ /\ hand \in channels
          /\ rpc' = "drain"
          /\ UNCHANGED <<hand, target, dangling>>
       \/ /\ hand \notin channels
          /\ dangling' = [dangling EXCEPT ![hand] = <<routed[hand]>>]
          /\ Done
    /\ UNCHANGED <<routed, channels, pending, current, own, adopted, ready,
                   stopped, recvd>>

\* The datagram is moved to the channel with add_datagram, which holds the
\* channel's queue lock and drops the datagram when that queue is full.
Drain ==
    /\ rpc = "drain"
    /\ \/ HasRoom(hand, current[hand]) /\ Push(hand, current[hand])
       \/ ~HasRoom(hand, current[hand]) /\ UNCHANGED <<own, adopted>>
    /\ Done
    /\ UNCHANGED <<routed, channels, dangling, pending, current, ready, stopped,
                   recvd>>

-----------------------------------------------------------------------------
(* Channels and their handlers *)

\* add_channel, the critical section.
AddChannel(c) ==
    /\ c \notin channels
    /\ channels' = channels \cup {c}
    /\ pending' = [pending EXCEPT ![c] = dangling[c]]
    /\ dangling' = [dangling EXCEPT ![c] = <<>>]
    /\ UNCHANGED <<routed, hand, rpc, target, current, own, adopted, ready,
                   stopped, recvd>>

\* Mutant of SetDatagramQueue: the queue is appended behind the channel's own.
SetDatagramQueueBehind(c) ==
    /\ c \in channels \ ready
    /\ ready' = ready \cup {c}
    /\ own' = [own EXCEPT ![c] = own[c] \o pending[c]]
    /\ pending' = [pending EXCEPT ![c] = <<>>]
    /\ UNCHANGED <<routed, hand, rpc, target, channels, dangling, current,
                   adopted, stopped, recvd>>

\* The rest of add_channel, after the mutex is released: a pending queue
\* replaces the channel's own.  Then add_channel returns and the handler starts.
SetDatagramQueue(c) ==
    /\ c \in channels \ ready
    /\ ready' = ready \cup {c}
    /\ \/ /\ pending[c] = <<>>
          /\ UNCHANGED <<pending, current, adopted>>
       \/ /\ pending[c] # <<>>
          /\ current' = [current EXCEPT ![c] = "adopted"]
          /\ adopted' = [adopted EXCEPT ![c] = pending[c]]
          /\ pending' = [pending EXCEPT ![c] = <<>>]
    /\ UNCHANGED <<routed, hand, rpc, target, channels, dangling, own, stopped,
                   recvd>>

\* The contents of the queue the channel reads from.
Inbox(c) == IF current[c] = "own" THEN own[c] ELSE adopted[c]

\* receive_datagram of the channel's handler.
ReceiveDatagram(c) ==
    /\ c \in ready \ stopped
    /\ Inbox(c) # <<>>
    /\ recvd' = [recvd EXCEPT ![c] = Append(@, Head(Inbox(c)))]
    /\ \/ /\ current[c] = "own"
          /\ own' = [own EXCEPT ![c] = Tail(@)]
          /\ UNCHANGED adopted
       \/ /\ current[c] = "adopted"
          /\ adopted' = [adopted EXCEPT ![c] = Tail(@)]
          /\ UNCHANGED own
    /\ UNCHANGED <<routed, hand, rpc, target, channels, dangling, pending,
                   current, ready, stopped>>

\* The handler ends (an error on its socket), or the channel is of a type for
\* which nobody receives datagrams.  Either way the channel stays registered.
HandlerEnds(c) ==
    /\ c \in ready \ stopped
    /\ stopped' = stopped \cup {c}
    /\ UNCHANGED <<routed, hand, rpc, target, channels, dangling, pending,
                   current, own, adopted, ready, recvd>>

-----------------------------------------------------------------------------

RouterRuns ==
    GetChannel \/ CloneQueue \/ WaitAdd \/ AddDanglingDatagramsQueue \/ Drain

Next ==
    \/ RouterRuns
    \/ \E c \in Channels :
          \/ ReadDatagram(c)
          \/ AddChannel(c)
          \/ SetDatagramQueue(c)
          \/ ReceiveDatagram(c)
          \/ HandlerEnds(c)

\* The runtime polls a task that can run.
Fairness ==
    /\ WF_vars(RouterRuns)
    /\ \A c \in Channels : WF_vars(SetDatagramQueue(c)) /\ WF_vars(ReceiveDatagram(c))

Spec == Init /\ [][Next]_vars /\ Fairness

-----------------------------------------------------------------------------

TypeOK ==
    /\ routed \in [Channels -> Nat]
    /\ hand \in Channels \cup {None}
    /\ rpc \in {"idle", "lookup", "found", "adding", "missing", "drain"}
    /\ (rpc = "idle") <=> (hand = None)
    /\ target \in {"own", "adopted", "none"}
    /\ (rpc = "adding") <=> (target # "none")
    /\ channels \subseteq Channels
    /\ dangling \in [Channels -> Seq(Nat)]
    /\ pending \in [Channels -> Seq(Nat)]
    /\ current \in [Channels -> {"own", "adopted"}]
    /\ own \in [Channels -> Seq(Nat)]
    /\ adopted \in [Channels -> Seq(Nat)]
    /\ ready \subseteq channels
    /\ stopped \subseteq ready
    /\ recvd \in [Channels -> Seq(Nat)]

Increasing(s) == \A i, j \in 1 .. Len(s) : i < j => s[i] < s[j]

\* What the handler of c has received, will receive from its queue, and from the
\* queue that is about to be adopted.
Stream(c) == recvd[c] \o (IF pending[c] = <<>> THEN Inbox(c) ELSE pending[c])

\* A handler gets the datagrams of its channel in the order in which the router
\* met them and none twice, whichever of the three queues each went through and
\* although the queue is replaced in a step of its own.
InOrder == \A c \in Channels : Increasing(Stream(c))

\* A channel is either registered or has a dangling queue, although the router
\* looks the channel up and parks the datagram in separate critical sections.
OneHome ==
    /\ \A c \in channels : dangling[c] = <<>>
    /\ \A c \in ready : pending[c] = <<>>
    /\ rpc \in {"found", "adding", "drain"} => hand \in channels

\* The datagrams of c that the router has finished with.
Placed(c) == 1 .. (IF hand = c THEN routed[c] - 1 ELSE routed[c])

Elements(s) == {s[i] : i \in 1 .. Len(s)}

\* The test dangling_datagrams_are_delivered_when_channel_is_added, for more than
\* one datagram: what arrives before the channel is registered waits in its
\* dangling queue, which has room for DanglingSize datagrams.
DanglingDatagramsAreKept ==
    \A c \in Channels \ channels :
        routed[c] <= DanglingSize => Placed(c) \subseteq Elements(dangling[c])

\* The router waits on a queue that the channel no longer reads from.
OnReplacedQueue == rpc = "adding" /\ target # current[hand]
=============================================================================
