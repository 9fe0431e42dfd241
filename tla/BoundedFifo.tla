----------------------------- MODULE BoundedFifo -----------------------------
(***************************************************************************)
(* The datagram queue of the Go implementation (util.DatagramsQueue): a    *)
(* buffered Go channel.  Adding or taking is one atomic step of the        *)
(* channel, and a blocked call proceeds as soon as the channel lets it.    *)
(* The module is also the abstract specification of the Rust queue, which  *)
(* builds the same promise from a mutex, a deque and two Notify objects.   *)
(*                                                                         *)
(* One task adds (the datagram router of a connection) and one task takes  *)
(* (the forwarding handler of the channel).  Datagrams are numbered in the *)
(* order in which the router adds them.                                    *)
(***************************************************************************)
EXTENDS Naturals, Sequences

CONSTANTS
    Capacity,     \* the length given to NewDatagramsQueue
    MaxDatagrams  \* bound on the datagrams the router adds

VARIABLES
    queue,   \* the datagrams in the channel's buffer, oldest first
    sent,    \* how many datagrams the router has handed to Add or WaitAdd
    adding,  \* the datagram of the WaitAdd in progress, 0 when there is none
    taking,  \* 1 while a WaitNext is in progress, 0 otherwise
    taken    \* the datagrams returned to the consumer, in order

vars == <<queue, sent, adding, taking, taken>>

Init ==
    /\ queue = <<>>
    /\ sent = 0
    /\ adding = 0
    /\ taking = 0
    /\ taken = <<>>

\* Add: a send that gives up when the buffer is full.
Add ==
    /\ adding = 0
    /\ sent < MaxDatagrams
    /\ sent' = sent + 1
    /\ queue' = IF Len(queue) < Capacity THEN Append(queue, sent + 1) ELSE queue
    /\ UNCHANGED <<adding, taking, taken>>

\* WaitAdd is called: the router now holds a datagram it must place.
WaitAddBegin ==
    /\ adding = 0
    /\ sent < MaxDatagrams
    /\ sent' = sent + 1
    /\ adding' = sent + 1
    /\ UNCHANGED <<queue, taking, taken>>

\* The send of WaitAdd succeeds: there is room in the buffer.
WaitAddEnd ==
    /\ adding # 0
    /\ Len(queue) < Capacity
    /\ queue' = Append(queue, adding)
    /\ adding' = 0
    /\ UNCHANGED <<sent, taking, taken>>

\* Next: a receive that gives up when the buffer is empty.
NextDatagram ==
    /\ taking = 0
    /\ queue # <<>>
    /\ taken' = Append(taken, Head(queue))
    /\ queue' = Tail(queue)
    /\ UNCHANGED <<sent, adding, taking>>

\* WaitNext is called.
WaitNextBegin ==
    /\ taking = 0
    /\ taking' = 1
    /\ UNCHANGED <<queue, sent, adding, taken>>

\* The receive of WaitNext succeeds.
WaitNextEnd ==
    /\ taking = 1
    /\ queue # <<>>
    /\ taken' = Append(taken, Head(queue))
    /\ queue' = Tail(queue)
    /\ taking' = 0
    /\ UNCHANGED <<sent, adding>>

Next ==
    \/ Add
    \/ WaitAddBegin
    \/ WaitAddEnd
    \/ NextDatagram
    \/ WaitNextBegin
    \/ WaitNextEnd

\* What the queue promises of a single step.
SafeSpec == Init /\ [][Next]_vars

\* A call that is in progress and can complete does complete.
Spec == SafeSpec /\ WF_vars(WaitAddEnd) /\ WF_vars(WaitNextEnd)
=============================================================================
