---------------------------- MODULE DatagramQueue ----------------------------
(***************************************************************************)
(* DatagramQueue of crates/ssh3-core/src/queue.rs: a deque behind a mutex, *)
(* a Notify that tells the consumer the queue is not empty and a Notify    *)
(* that tells the producer it is not full.                                 *)
(*                                                                         *)
(* The code checks the deque and waits in separate steps, and changes the  *)
(* deque and notifies in separate steps; the model interleaves all of      *)
(* them.  Notify (tokio) is modelled from its use here: notify_one wakes   *)
(* the registered waiter, or stores ONE permit when nobody is registered;  *)
(* a waiter registers at the first poll of notified(), and takes the       *)
(* stored permit instead if there is one.                                  *)
(*                                                                         *)
(* One router task adds and one handler task takes, as in the servers and  *)
(* clients of the repository.                                              *)
(***************************************************************************)
EXTENDS Naturals, Sequences

CONSTANTS
    Capacity,     \* DatagramQueue::new(capacity)
    MaxDatagrams  \* bound on the datagrams the router adds

ASSUME CapacityAssumption == Capacity \in Nat \ {0}
ASSUME MaxDatagramsAssumption == MaxDatagrams \in Nat

VARIABLES
    queue,     \* the deque
    notEmpty,  \* the permits stored in not_empty, 0 or 1
    notFull,   \* the permits stored in not_full, 0 or 1
    ppc,       \* where the producer is in add or wait_add
    cpc,       \* where the consumer is in next or wait_next
    holding,   \* the datagram a wait_add still has to push, 0 when none
    sent,      \* how many datagrams the producer has handed to the queue
    taken      \* the datagrams returned to the consumer, in order

vars == <<queue, notEmpty, notFull, ppc, cpc, holding, sent, taken>>

(***************************************************************************)
(* idle    no call in progress                                             *)
(* try     about to lock the deque                                         *)
(* poll    the deque was full (empty); notified() not polled yet           *)
(* parked  registered as the waiter of the Notify                          *)
(* woken   notified, not run yet                                           *)
(* signal  the deque has changed; notify_one not called yet                *)
(***************************************************************************)
Steps == {"idle", "try", "poll", "parked", "woken", "signal"}

Init ==
    /\ queue = <<>>
    /\ notEmpty = 0
    /\ notFull = 0
    /\ ppc = "idle"
    /\ cpc = "idle"
    /\ holding = 0
    /\ sent = 0
    /\ taken = <<>>

-----------------------------------------------------------------------------
(* The producer *)

\* The test that add and wait_add make under the lock.
HasRoom == Len(queue) < Capacity

\* add: refuses the datagram when the deque is full, pushes it otherwise.
Add ==
    /\ ppc = "idle"
    /\ sent < MaxDatagrams
    /\ sent' = sent + 1
    /\ \/ /\ ~HasRoom
          /\ UNCHANGED <<queue, ppc>>
       \/ /\ HasRoom
          /\ queue' = Append(queue, sent + 1)
          /\ ppc' = "signal"
    /\ UNCHANGED <<notEmpty, notFull, cpc, holding, taken>>

WaitAdd ==
    /\ ppc = "idle"
    /\ sent < MaxDatagrams
    /\ sent' = sent + 1
    /\ holding' = sent + 1
    /\ ppc' = "try"
    /\ UNCHANGED <<queue, notEmpty, notFull, cpc, taken>>

\* One pass of wait_add's loop, under the lock.
WaitAddTry ==
    /\ ppc = "try"
    /\ \/ /\ HasRoom
          /\ queue' = Append(queue, holding)
          /\ holding' = 0
          /\ ppc' = "signal"
       \/ /\ ~HasRoom
          /\ ppc' = "poll"
          /\ UNCHANGED <<queue, holding>>
    /\ UNCHANGED <<notEmpty, notFull, cpc, sent, taken>>

\* not_full.notified().await, first poll.
WaitAddPoll ==
    /\ ppc = "poll"
    /\ ppc' = IF notFull = 1 THEN "try" ELSE "parked"
    /\ notFull' = 0
    /\ UNCHANGED <<queue, notEmpty, cpc, holding, sent, taken>>

WaitAddWoken ==
    /\ ppc = "woken"
    /\ ppc' = "try"
    /\ UNCHANGED <<queue, notEmpty, notFull, cpc, holding, sent, taken>>

\* Mutant of AddSignal: only a registered waiter is woken and no permit is
\* stored, as with notify_waiters.
AddSignalWaitersOnly ==
    /\ ppc = "signal"
    /\ ppc' = "idle"
    /\ cpc' = IF cpc = "parked" THEN "woken" ELSE cpc
    /\ UNCHANGED <<queue, notEmpty, notFull, holding, sent, taken>>

\* not_empty.notify_one(), after the lock was released.
AddSignal ==
    /\ ppc = "signal"
    /\ ppc' = "idle"
    /\ \/ /\ cpc = "parked"
          /\ cpc' = "woken"
          /\ UNCHANGED notEmpty
       \/ /\ cpc # "parked"
          /\ notEmpty' = 1
          /\ UNCHANGED cpc
    /\ UNCHANGED <<queue, notFull, holding, sent, taken>>

-----------------------------------------------------------------------------
(* The consumer *)

\* Mutant of Pop: takes the newest datagram.
PopBack ==
    /\ queue # <<>>
    /\ taken' = Append(taken, queue[Len(queue)])
    /\ queue' = SubSeq(queue, 1, Len(queue) - 1)
    /\ cpc' = "signal"

\* pop_front under the lock.
Pop ==
    /\ queue # <<>>
    /\ taken' = Append(taken, Head(queue))
    /\ queue' = Tail(queue)
    /\ cpc' = "signal"

\* next: returns None when the deque is empty.
NextDatagram ==
    /\ cpc = "idle"
    /\ Pop
    /\ UNCHANGED <<notEmpty, notFull, ppc, holding, sent>>

WaitNext ==
    /\ cpc = "idle"
    /\ cpc' = "try"
    /\ UNCHANGED <<queue, notEmpty, notFull, ppc, holding, sent, taken>>

\* One pass of wait_next's loop.
WaitNextTry ==
    /\ cpc = "try"
    /\ \/ Pop
       \/ /\ queue = <<>>
          /\ cpc' = "poll"
          /\ UNCHANGED <<queue, taken>>
    /\ UNCHANGED <<notEmpty, notFull, ppc, holding, sent>>

\* not_empty.notified().await, first poll.
WaitNextPoll ==
    /\ cpc = "poll"
    /\ cpc' = IF notEmpty = 1 THEN "try" ELSE "parked"
    /\ notEmpty' = 0
    /\ UNCHANGED <<queue, notFull, ppc, holding, sent, taken>>

WaitNextWoken ==
    /\ cpc = "woken"
    /\ cpc' = "try"
    /\ UNCHANGED <<queue, notEmpty, notFull, ppc, holding, sent, taken>>

\* Mutant of NextSignal: next forgets to notify the producer.
NextSignalDropped ==
    /\ cpc = "signal"
    /\ cpc' = "idle"
    /\ UNCHANGED <<queue, notEmpty, notFull, ppc, holding, sent, taken>>

\* not_full.notify_one() at the end of next.
NextSignal ==
    /\ cpc = "signal"
    /\ cpc' = "idle"
    /\ \/ /\ ppc = "parked"
          /\ ppc' = "woken"
          /\ UNCHANGED notFull
       \/ /\ ppc # "parked"
          /\ notFull' = 1
          /\ UNCHANGED ppc
    /\ UNCHANGED <<queue, notEmpty, holding, sent, taken>>

-----------------------------------------------------------------------------

\* The steps a task takes by itself once it is inside a call.
ProducerRuns == WaitAddTry \/ WaitAddPoll \/ WaitAddWoken \/ AddSignal
ConsumerRuns == WaitNextTry \/ WaitNextPoll \/ WaitNextWoken \/ NextSignal

Next ==
    \/ Add \/ WaitAdd \/ ProducerRuns
    \/ NextDatagram \/ WaitNext \/ ConsumerRuns

\* The runtime polls a task that can run; a parked task can not.
Spec == Init /\ [][Next]_vars /\ WF_vars(ProducerRuns) /\ WF_vars(ConsumerRuns)

-----------------------------------------------------------------------------

\* A task between the call and the push (pop) of wait_add (wait_next).
InWait == {"try", "poll", "parked", "woken"}

TypeOK ==
    /\ queue \in Seq(Nat)
    /\ Len(queue) <= Capacity
    /\ notEmpty \in {0, 1}
    /\ notFull \in {0, 1}
    /\ ppc \in Steps
    /\ cpc \in Steps
    /\ holding \in Nat
    /\ (holding # 0) <=> (ppc \in InWait)
    /\ sent \in Nat
    /\ taken \in Seq(Nat)

\* A task that sleeps on the queue, or is about to, while it could proceed has
\* a notification on its way: a stored permit or a peer that is about to call
\* notify_one.  This is what makes the check-then-wait loops of wait_add and
\* wait_next correct although the check and the wait are separate steps.
NoLostWakeup ==
    /\ (cpc = "parked" /\ queue # <<>>) => ppc = "signal"
    /\ (cpc = "poll" /\ queue # <<>>) => (notEmpty = 1 \/ ppc = "signal")
    /\ (ppc = "parked" /\ Len(queue) < Capacity) => cpc = "signal"
    /\ (ppc = "poll" /\ Len(queue) < Capacity) => (notFull = 1 \/ cpc = "signal")

\* The two tasks never sleep at the same time: a queue cannot be both full and
\* empty, and the wake-ups never leave both waiting for the other.
NeverBothParked == ~(ppc = "parked" /\ cpc = "parked")

\* The Rust queue keeps the promise of the Go channel it replaces, liveness
\* included: the same datagrams come out in the same order, none is invented or
\* lost, and a blocked wait_add or wait_next returns once the queue has room or
\* a datagram.
Fifo == INSTANCE BoundedFifo WITH
            adding <- holding,
            taking <- IF cpc \in InWait THEN 1 ELSE 0
ImplementsFifo == Fifo!Spec
=============================================================================
