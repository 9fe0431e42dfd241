------------------------- MODULE DatagramQueue_proof -------------------------
(***************************************************************************)
(* Proofs about DatagramQueue for every capacity and every number of       *)
(* datagrams: the type invariant, that no wake-up is lost, and that every  *)
(* step is a step of the abstract queue.                                   *)
(***************************************************************************)
EXTENDS DatagramQueue, SequenceTheorems, TLAPS

LEMMA PushFits ==
  ASSUME NEW q \in Seq(Nat), NEW d \in Nat, Len(q) < Capacity
  PROVE  /\ Append(q, d) \in Seq(Nat)
         /\ Len(Append(q, d)) <= Capacity
  BY CapacityAssumption DEF CapacityAssumption

LEMMA TypeInit == Init => TypeOK
  BY CapacityAssumption DEF CapacityAssumption, Init, TypeOK, Steps, InWait

\* TypeOK is inductive on its own: the capacity is checked under the lock that
\* protects the push, so no interleaving can overfill the deque.
LEMMA TypeStep == TypeOK /\ [Next]_vars => TypeOK'
<1> SUFFICES ASSUME TypeOK, [Next]_vars PROVE TypeOK'
  OBVIOUS
<1> USE CapacityAssumption DEF CapacityAssumption, TypeOK, Steps, InWait, HasRoom
<1>1. CASE Add
  <2>1. sent + 1 \in Nat
    OBVIOUS
  <2>2. queue' = queue \/ (Len(queue) < Capacity /\ queue' = Append(queue, sent + 1))
    BY <1>1 DEF Add
  <2>3. queue' \in Seq(Nat) /\ Len(queue') <= Capacity
    BY <2>1, <2>2, PushFits
  <2> QED
    BY <1>1, <2>3 DEF Add
<1>2. CASE WaitAdd
  BY <1>2 DEF WaitAdd
<1>3. CASE WaitAddTry
  <2>1. queue' \in Seq(Nat) /\ Len(queue') <= Capacity
    BY <1>3, PushFits DEF WaitAddTry
  <2> QED
    BY <1>3, <2>1 DEF WaitAddTry
<1>4. CASE WaitAddPoll
  BY <1>4 DEF WaitAddPoll
<1>5. CASE WaitAddWoken
  BY <1>5 DEF WaitAddWoken
<1>6. CASE AddSignal
  BY <1>6 DEF AddSignal
<1>7. CASE NextDatagram
  BY <1>7 DEF NextDatagram, Pop
<1>8. CASE WaitNext
  BY <1>8 DEF WaitNext
<1>9. CASE WaitNextTry
  <2>1. CASE Pop
    BY <1>9, <2>1 DEF WaitNextTry, Pop
  <2>2. CASE ~Pop
    BY <1>9, <2>2 DEF WaitNextTry
  <2> QED
    BY <2>1, <2>2
<1>10. CASE WaitNextPoll
  BY <1>10 DEF WaitNextPoll
<1>11. CASE WaitNextWoken
  BY <1>11 DEF WaitNextWoken
<1>12. CASE NextSignal
  BY <1>12 DEF NextSignal
<1>13. CASE UNCHANGED vars
  BY <1>13 DEF vars
<1> QED
  BY <1>1, <1>2, <1>3, <1>4, <1>5, <1>6, <1>7, <1>8, <1>9, <1>10, <1>11,
     <1>12, <1>13 DEF Next, ProducerRuns, ConsumerRuns

\* The Rust datagram queue never holds more than its capacity, whatever the
\* interleaving of add, wait_add, next and wait_next.
THEOREM TypeCorrect == Spec => []TypeOK
  BY TypeInit, TypeStep, PTL DEF Spec

-----------------------------------------------------------------------------

LEMMA WakeupInit == Init => NoLostWakeup
  BY DEF Init, NoLostWakeup

\* Together with TypeOK, NoLostWakeup is inductive: a task reaches "poll" only
\* by seeing the deque full (empty) under the lock, and whoever changes that
\* afterwards is at "signal" until it has stored a permit or woken the task.
LEMMA WakeupStep == TypeOK /\ NoLostWakeup /\ [Next]_vars => NoLostWakeup'
<1> SUFFICES ASSUME TypeOK, NoLostWakeup, [Next]_vars PROVE NoLostWakeup'
  OBVIOUS
<1> USE CapacityAssumption DEF CapacityAssumption, TypeOK, NoLostWakeup, HasRoom
<1>1. CASE Add
  BY <1>1 DEF Add
<1>2. CASE WaitAdd
  BY <1>2 DEF WaitAdd
<1>3. CASE WaitAddTry
  BY <1>3 DEF WaitAddTry
<1>4. CASE WaitAddPoll
  BY <1>4 DEF WaitAddPoll
<1>5. CASE WaitAddWoken
  BY <1>5 DEF WaitAddWoken
<1>6. CASE AddSignal
  BY <1>6 DEF AddSignal
<1>7. CASE NextDatagram
  BY <1>7 DEF NextDatagram, Pop
<1>8. CASE WaitNext
  BY <1>8 DEF WaitNext
<1>9. CASE WaitNextTry
  BY <1>9 DEF WaitNextTry, Pop
<1>10. CASE WaitNextPoll
  BY <1>10 DEF WaitNextPoll
<1>11. CASE WaitNextWoken
  BY <1>11 DEF WaitNextWoken
<1>12. CASE NextSignal
  BY <1>12 DEF NextSignal
<1>13. CASE UNCHANGED vars
  BY <1>13 DEF vars
<1> QED
  BY <1>1, <1>2, <1>3, <1>4, <1>5, <1>6, <1>7, <1>8, <1>9, <1>10, <1>11,
     <1>12, <1>13 DEF Next, ProducerRuns, ConsumerRuns

\* A task never sleeps on a queue it could use without a notification on its
\* way, for every capacity.
THEOREM WakeupsNotLost == Spec => []NoLostWakeup
  BY TypeInit, TypeStep, WakeupInit, WakeupStep, PTL DEF Spec

\* The router and the handler of a channel never wait for each other.
THEOREM NoMutualWait == Spec => []NeverBothParked
<1>1. TypeOK /\ NoLostWakeup => NeverBothParked
  BY CapacityAssumption
     DEF CapacityAssumption, TypeOK, NoLostWakeup, NeverBothParked
<1> QED
  BY <1>1, TypeCorrect, WakeupsNotLost, PTL

-----------------------------------------------------------------------------

\* Every step of the Rust queue is a step of the Go channel or leaves it alone:
\* same datagrams, same order, same refusals.
THEOREM ImplementsFifoSteps == Spec => Fifo!SafeSpec
<1>1. Init => Fifo!Init
  BY DEF Init, Fifo!Init, InWait
<1>2. TypeOK /\ [Next]_vars => [Fifo!Next]_(Fifo!vars)
  <2> SUFFICES ASSUME TypeOK, [Next]_vars PROVE [Fifo!Next]_(Fifo!vars)
    OBVIOUS
  <2> USE DEF TypeOK, Steps, InWait, HasRoom, Fifo!vars, Fifo!Next
  <2>1. CASE Add
    BY <2>1, CapacityAssumption DEF CapacityAssumption, Add, Fifo!Add
  <2>2. CASE WaitAdd
    BY <2>2 DEF WaitAdd, Fifo!WaitAddBegin
  <2>3. CASE WaitAddTry
    BY <2>3 DEF WaitAddTry, Fifo!WaitAddEnd
  <2>4. CASE WaitAddPoll \/ WaitAddWoken
    BY <2>4 DEF WaitAddPoll, WaitAddWoken
  <2>5. CASE AddSignal
    BY <2>5 DEF AddSignal
  <2>6. CASE NextDatagram
    BY <2>6 DEF NextDatagram, Pop, Fifo!NextDatagram
  <2>7. CASE WaitNext
    BY <2>7 DEF WaitNext, Fifo!WaitNextBegin
  <2>8. CASE WaitNextTry
    <3>1. CASE Pop
      BY <2>8, <3>1 DEF WaitNextTry, Pop, Fifo!WaitNextEnd
    <3>2. CASE ~Pop
      BY <2>8, <3>2 DEF WaitNextTry
    <3> QED
      BY <3>1, <3>2
  <2>9. CASE WaitNextPoll \/ WaitNextWoken
    BY <2>9 DEF WaitNextPoll, WaitNextWoken
  <2>10. CASE NextSignal
    BY <2>10 DEF NextSignal
  <2>11. CASE UNCHANGED vars
    BY <2>11 DEF vars
  <2> QED
    BY <2>1, <2>2, <2>3, <2>4, <2>5, <2>6, <2>7, <2>8, <2>9, <2>10, <2>11
       DEF Next, ProducerRuns, ConsumerRuns
<1> QED
  BY <1>1, <1>2, TypeCorrect, PTL DEF Spec, Fifo!SafeSpec
=============================================================================
