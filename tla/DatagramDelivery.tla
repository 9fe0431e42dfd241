--------------------------- MODULE DatagramDelivery ---------------------------
(***************************************************************************)
(* What a conversation promises about the datagrams of its channels.       *)
(*                                                                         *)
(* The router of a connection hands the datagrams to the conversation one  *)
(* at a time.  Each goes to the mailbox of its channel, whether or not the *)
(* channel has been registered yet; the handler of a registered channel    *)
(* takes them out in order.  A datagram is dropped only when its mailbox   *)
(* already holds Room datagrams, or when the channel is not registered and *)
(* MaxDangling other unregistered channels have mail.                      *)
(*                                                                         *)
(* The datagrams of a channel are numbered 1, 2, ... in the order in which *)
(* the router meets them.                                                  *)
(***************************************************************************)
EXTENDS Naturals, Sequences, FiniteSets

CONSTANTS
    Channels,     \* the channels of the conversation
    None,         \* the router holds no datagram
    Room,         \* datagrams a mailbox always has room for
    MaxDangling   \* unregistered channels that may have mail

VARIABLES
    routed,   \* routed[c]: datagrams of channel c the router has met
    hand,     \* the channel of the datagram the router is placing, or None
    box,      \* box[c]: the mailbox of channel c
    opened,   \* the registered channels
    stopped,  \* the channels whose handler has ended
    recvd     \* recvd[c]: the datagrams the handler of c has taken

vars == <<routed, hand, box, opened, stopped, recvd>>

Init ==
    /\ routed = [c \in Channels |-> 0]
    /\ hand = None
    /\ box = [c \in Channels |-> <<>>]
    /\ opened = {}
    /\ stopped = {}
    /\ recvd = [c \in Channels |-> <<>>]

Meet(c) ==
    /\ hand = None
    /\ hand' = c
    /\ routed' = [routed EXCEPT ![c] = @ + 1]
    /\ UNCHANGED <<box, opened, stopped, recvd>>

Put ==
    /\ hand # None
    /\ box' = [box EXCEPT ![hand] = Append(@, routed[hand])]
    /\ hand' = None
    /\ UNCHANGED <<routed, opened, stopped, recvd>>

\* The unregistered channels that have mail.
Dangling == {c \in Channels \ opened : box[c] # <<>>}

Drop ==
    /\ hand # None
    /\ \/ Len(box[hand]) >= Room
       \/ hand \notin opened /\ ~(Cardinality(Dangling) < MaxDangling)
    /\ hand' = None
    /\ UNCHANGED <<routed, box, opened, stopped, recvd>>

Open(c) ==
    /\ c \notin opened
    /\ opened' = opened \cup {c}
    /\ UNCHANGED <<routed, hand, box, stopped, recvd>>

Receive(c) ==
    /\ c \in opened \ stopped
    /\ box[c] # <<>>
    /\ recvd' = [recvd EXCEPT ![c] = Append(@, Head(box[c]))]
    /\ box' = [box EXCEPT ![c] = Tail(@)]
    /\ UNCHANGED <<routed, hand, opened, stopped>>

Stop(c) ==
    /\ c \in opened \ stopped
    /\ stopped' = stopped \cup {c}
    /\ UNCHANGED <<routed, hand, box, opened, recvd>>

Next ==
    \/ Put
    \/ Drop
    \/ \E c \in Channels : Meet(c) \/ Open(c) \/ Receive(c) \/ Stop(c)

SafeSpec == Init /\ [][Next]_vars

\* The router is never stuck on a mailbox with room, and a handler that runs
\* empties its mailbox.
PutWithRoom == hand # None /\ Len(box[hand]) < Room /\ (Put \/ Drop)

Spec ==
    /\ SafeSpec
    /\ WF_vars(PutWithRoom)
    /\ \A c \in Channels : WF_vars(Receive(c))
=============================================================================
