--------------------------- MODULE MCRouting_proof ---------------------------
(***************************************************************************)
(* Proofs about the routing of datagrams for any set of channels and any   *)
(* queue sizes.  Of the Go router: the type invariant, that every datagram *)
(* waits where its channel will look for it, and that every step is one    *)
(* DatagramDelivery allows.  Of the Rust router: that a handler gets its   *)
(* datagrams in order, although add_channel replaces the channel's queue   *)
(* while the router may hold on to the old one.                            *)
(***************************************************************************)
EXTENDS MCRouting, TLAPS

\* What the queues are built from.
LEMMA QueueFacts ==
  /\ <<>> \in Seq(Nat)
  /\ \A n \in Nat : <<n>> \in Seq(Nat)
  /\ \A n \in Nat, q \in Seq(Nat) : Append(q, n) \in Seq(Nat)
  OBVIOUS

LEMMA QueueUpdate ==
  ASSUME NEW f \in [Channels -> Seq(Nat)], NEW c \in Channels, NEW q \in Seq(Nat)
  PROVE  [f EXCEPT ![c] = q] \in [Channels -> Seq(Nat)]
  OBVIOUS

LEMMA TypeInit == Init => TypeOK
  BY SizesAssumption, NoneAssumption
     DEF SizesAssumption, NoneAssumption, Init, TypeOK

LEMMA TypeStep == TypeOK /\ [Next]_vars => TypeOK'
<1> SUFFICES ASSUME TypeOK, [Next]_vars PROVE TypeOK'
  OBVIOUS
<1> USE SizesAssumption, NoneAssumption
    DEF SizesAssumption, NoneAssumption, TypeOK, Done
<1>1. CASE GetChannel
  BY <1>1 DEF GetChannel
<1>2. CASE WaitAddDatagram
  BY <1>2 DEF WaitAddDatagram
<1>3. CASE AddDanglingDatagramsQueue
  <2>1. hand \in Channels /\ routed[hand] \in Nat
    BY <1>3 DEF AddDanglingDatagramsQueue
  <2> DEFINE q == routed[hand]
  <2>2. PICK d \in {dangling[hand], Append(dangling[hand], q), <<q>>} :
           dangling' = [dangling EXCEPT ![hand] = d]
    BY <1>3, <2>1 DEF AddDanglingDatagramsQueue
  <2>3. PICK e \in {queue[hand], Append(queue[hand], q)} :
           queue' = [queue EXCEPT ![hand] = e]
    BY <1>3, <2>1 DEF AddDanglingDatagramsQueue
  <2>4. d \in Seq(Nat) /\ e \in Seq(Nat)
    <3>1. dangling[hand] \in Seq(Nat) /\ queue[hand] \in Seq(Nat) /\ q \in Nat
      BY <2>1
    <3>2. /\ Append(dangling[hand], q) \in Seq(Nat)
          /\ Append(queue[hand], q) \in Seq(Nat)
          /\ <<q>> \in Seq(Nat)
      BY <3>1, QueueFacts
    <3> HIDE DEF q
    <3> QED
      BY <3>1, <3>2, Zenon
  <2>5. dangling' \in [Channels -> Seq(Nat)]
    BY <2>1, <2>2, <2>4, QueueUpdate
  <2>6. queue' \in [Channels -> Seq(Nat)]
    BY <2>1, <2>3, <2>4, QueueUpdate
  <2> QED
    BY <1>3, <2>5, <2>6 DEF AddDanglingDatagramsQueue
<1>4. ASSUME NEW c \in Channels, ReceiveFromConn(c) PROVE TypeOK'
  BY <1>4 DEF ReceiveFromConn
<1>5. ASSUME NEW c \in Channels, AddChannel(c) PROVE TypeOK'
  <2>1. CASE dangling[c] = <<>>
    BY <1>5, <2>1 DEF AddChannel
  <2>2. CASE dangling[c] # <<>>
    <3>1. dangling' \in [Channels -> Seq(Nat)]
      BY <1>5, <2>2, QueueFacts, QueueUpdate DEF AddChannel
    <3>2. queue' \in [Channels -> Seq(Nat)]
      BY <1>5, <2>2, QueueUpdate DEF AddChannel
    <3>3. size' \in [Channels -> {QueueSize, DanglingSize}]
      BY <1>5 DEF AddChannel
    <3> QED
      BY <1>5, <3>1, <3>2, <3>3 DEF AddChannel
  <2> QED
    BY <2>1, <2>2
<1>6. ASSUME NEW c \in Channels, ReceiveDatagram(c) PROVE TypeOK'
  <2>1. queue[c] \in Seq(Nat) /\ recvd[c] \in Seq(Nat) /\ queue[c] # <<>>
    BY <1>6 DEF ReceiveDatagram
  <2>2. Head(queue[c]) \in Nat /\ Tail(queue[c]) \in Seq(Nat)
    BY <2>1
  <2>3. Append(recvd[c], Head(queue[c])) \in Seq(Nat)
    BY <2>1, <2>2
  <2>4. recvd' \in [Channels -> Seq(Nat)]
    BY <1>6, <2>3 DEF ReceiveDatagram
  <2>5. queue' \in [Channels -> Seq(Nat)]
    BY <1>6, <2>2 DEF ReceiveDatagram
  <2> QED
    BY <1>6, <2>4, <2>5 DEF ReceiveDatagram
<1>7. ASSUME NEW c \in Channels, HandlerReturns(c) PROVE TypeOK'
  BY <1>7 DEF HandlerReturns
<1>8. CASE UNCHANGED vars
  BY <1>8 DEF vars
<1> QED
  BY <1>1, <1>2, <1>3, <1>4, <1>5, <1>6, <1>7, <1>8 DEF Next, RouterRuns

\* The bookkeeping of the Go router is well formed in every reachable state.
THEOREM TypeCorrect == Spec => []TypeOK
  BY TypeInit, TypeStep, PTL DEF Spec

-----------------------------------------------------------------------------

LEMMA OneHomeInit == Init => OneHome
  BY DEF Init, OneHome

\* OneHome is inductive relative to TypeOK: addDanglingDatagramsQueue looks the
\* channel up again in the critical section that enters the queue, and addChannel
\* removes the entry in the critical section that adds the channel.
LEMMA OneHomeStep == TypeOK /\ OneHome /\ [Next]_vars => OneHome'
<1> SUFFICES ASSUME TypeOK, OneHome, [Next]_vars PROVE OneHome'
  OBVIOUS
<1> USE DEF TypeOK, OneHome, Done
<1>1. CASE GetChannel
  BY <1>1 DEF GetChannel
<1>2. CASE WaitAddDatagram
  BY <1>2 DEF WaitAddDatagram
<1>3. CASE AddDanglingDatagramsQueue
  BY <1>3 DEF AddDanglingDatagramsQueue
<1>4. ASSUME NEW c \in Channels, ReceiveFromConn(c) PROVE OneHome'
  BY <1>4 DEF ReceiveFromConn
<1>5. ASSUME NEW c \in Channels, AddChannel(c) PROVE OneHome'
  BY <1>5 DEF AddChannel
<1>6. ASSUME NEW c \in Channels, ReceiveDatagram(c) PROVE OneHome'
  BY <1>6 DEF ReceiveDatagram
<1>7. ASSUME NEW c \in Channels, HandlerReturns(c) PROVE OneHome'
  BY <1>7 DEF HandlerReturns
<1>8. CASE UNCHANGED vars
  BY <1>8 DEF vars
<1> QED
  BY <1>1, <1>2, <1>3, <1>4, <1>5, <1>6, <1>7, <1>8 DEF Next, RouterRuns

\* No datagram is parked in a dangling queue of a channel that is registered, so
\* none is stranded by a channel that is added between the router's lookup and
\* its second critical section.
THEOREM DatagramsHaveOneHome == Spec => []OneHome
  BY TypeInit, TypeStep, OneHomeInit, OneHomeStep, PTL DEF Spec
-----------------------------------------------------------------------------

\* Every step of the Go router, of addChannel and of the handlers is a step that
\* DatagramDelivery allows: the datagrams of a channel stay in order from the
\* wire to the handler, and one is dropped only by a full buffer.
THEOREM ImplementsDeliverySteps == Spec => Delivery!SafeSpec
<1>1. Init => Delivery!Init
  BY DEF Init, Delivery!Init, Box
<1>2. TypeOK /\ OneHome /\ [Next]_vars => [Delivery!Next]_(Delivery!vars)
  <2> SUFFICES ASSUME TypeOK, OneHome, [Next]_vars
               PROVE  [Delivery!Next]_(Delivery!vars)
    OBVIOUS
  <2> USE NoneAssumption DEF NoneAssumption, TypeOK, OneHome
  <2>1. CASE GetChannel
    BY <2>1 DEF GetChannel, Delivery!vars, Box
  <2>2. CASE WaitAddDatagram
    <3>1. Box' = [Box EXCEPT ![hand] = Append(@, routed[hand])]
      BY <2>2 DEF WaitAddDatagram, Done, Box
    <3>2. Delivery!Put
      BY <2>2, <3>1 DEF WaitAddDatagram, Done, Delivery!Put
    <3> QED
      BY <3>2 DEF Delivery!Next
  <2>3. CASE AddDanglingDatagramsQueue
    <3>1. hand \in Channels
      BY <2>3 DEF AddDanglingDatagramsQueue
    <3>2. \/ Box' = [Box EXCEPT ![hand] = Append(@, routed[hand])]
          \/ Box' = Box /\ Len(Box[hand]) >= MailRoom
          \/ Box' = Box /\ hand \notin channels /\ ~(Cardinality(DanglingEntries) < MaxDangling)
      <4>1. CASE hand \in channels
        <5>1. Box[hand] = queue[hand] /\ size[hand] \in {QueueSize, DanglingSize}
          BY <3>1, <4>1 DEF Box
        <5>2. CASE Len(queue[hand]) < size[hand]
          <6>1. /\ queue' = [queue EXCEPT ![hand] = Append(@, routed[hand])]
                /\ UNCHANGED <<dangling, channels>>
            BY <2>3, <4>1, <5>2 DEF AddDanglingDatagramsQueue
          <6> QED
            BY <3>1, <4>1, <6>1 DEF Box
        <5>3. CASE ~(Len(queue[hand]) < size[hand])
          <6>1. Box' = Box
            BY <2>3, <3>1, <4>1, <5>3 DEF AddDanglingDatagramsQueue, Box
          <6>2. size[hand] >= MailRoom /\ size[hand] \in Nat /\ MailRoom \in Nat
            BY <5>1, SizesAssumption DEF SizesAssumption, MailRoom
          <6>3. Len(Box[hand]) \in Nat
            BY <3>1, <5>1
          <6>4. Len(Box[hand]) >= MailRoom
            BY <5>1, <5>3, <6>2, <6>3
          <6> QED
            BY <6>1, <6>4
        <5> QED
          BY <5>2, <5>3
      <4>2. CASE hand \notin channels /\ dangling[hand] # <<>>
        <5>1. Box[hand] = dangling[hand]
          BY <3>1, <4>2 DEF Box
        <5>2. CASE Len(dangling[hand]) < DanglingSize
          <6>1. /\ dangling' = [dangling EXCEPT ![hand] = Append(@, routed[hand])]
                /\ UNCHANGED <<queue, channels>>
            BY <2>3, <4>2, <5>2 DEF AddDanglingDatagramsQueue
          <6> QED
            BY <3>1, <4>2, <6>1 DEF Box
        <5>3. CASE ~(Len(dangling[hand]) < DanglingSize)
          <6>1. Box' = Box
            BY <2>3, <3>1, <4>2, <5>3 DEF AddDanglingDatagramsQueue, Box
          <6>2. Len(Box[hand]) >= MailRoom
            BY <3>1, <5>1, <5>3, SizesAssumption DEF SizesAssumption, MailRoom
          <6> QED
            BY <6>1, <6>2
        <5> QED
          BY <5>2, <5>3
      <4>3. CASE hand \notin channels /\ dangling[hand] = <<>>
        <5>1. Box[hand] = <<>> /\ <<routed[hand]>> = Append(<<>>, routed[hand])
          BY <3>1, <4>3 DEF Box
        <5>2. CASE Cardinality(DanglingEntries) < MaxDangling
          <6>1. /\ dangling' = [dangling EXCEPT ![hand] = <<routed[hand]>>]
                /\ UNCHANGED <<queue, channels>>
            BY <2>3, <4>3, <5>2 DEF AddDanglingDatagramsQueue
          <6>2. Box' = [Box EXCEPT ![hand] = <<routed[hand]>>]
            BY <3>1, <4>3, <6>1 DEF Box
          <6>3. [Box EXCEPT ![hand] = <<routed[hand]>>]
                  = [Box EXCEPT ![hand] = Append(@, routed[hand])]
            BY <5>1
          <6> QED
            BY <6>2, <6>3
        <5>3. CASE ~(Cardinality(DanglingEntries) < MaxDangling)
          <6>1. Box' = Box
            BY <2>3, <3>1, <4>3, <5>3 DEF AddDanglingDatagramsQueue, Box
          <6> QED
            BY <6>1, <5>3, <4>3
        <5> QED
          BY <5>2, <5>3
      <4> QED
        BY <4>1, <4>2, <4>3
    <3>3. DanglingEntries = {c \in Channels \ channels : Box[c] # <<>>}
      BY DEF DanglingEntries, Box
    <3>4. /\ hand # None /\ hand' = None
          /\ UNCHANGED <<routed, channels, stopped, recvd>>
      BY <2>3, <3>1 DEF AddDanglingDatagramsQueue, Done
    <3>5. CASE Box' = [Box EXCEPT ![hand] = Append(@, routed[hand])]
      BY <3>4, <3>5 DEF Delivery!Put, Delivery!Next
    <3>6. CASE Box' = Box /\ Len(Box[hand]) >= MailRoom
      BY <3>4, <3>6 DEF Delivery!Drop, Delivery!Next
    <3>7. CASE Box' = Box /\ hand \notin channels /\ ~(Cardinality(DanglingEntries) < MaxDangling)
      <4>1. Delivery!Dangling = DanglingEntries
        BY <3>3 DEF Delivery!Dangling
      <4>2. Delivery!Cardinality(DanglingEntries) = Cardinality(DanglingEntries)
        BY Zenon DEF Cardinality, Delivery!Cardinality
      <4> HIDE DEF TypeOK, OneHome
      <4>3. Delivery!Drop
        BY <3>4, <3>7, <4>1, <4>2 DEF Delivery!Drop
      <4> QED
        BY <4>3 DEF Delivery!Next
    <3> QED
      BY <3>2, <3>5, <3>6, <3>7
  <2>4. ASSUME NEW c \in Channels, ReceiveFromConn(c) PROVE Delivery!Meet(c)
    BY <2>4 DEF ReceiveFromConn, Delivery!Meet, Box
  <2>5. ASSUME NEW c \in Channels, AddChannel(c) PROVE Delivery!Open(c)
    <3>1. Box' = Box
      BY <2>5 DEF AddChannel, Box
    <3> QED
      BY <2>5, <3>1 DEF AddChannel, Delivery!Open
  <2>6. ASSUME NEW c \in Channels, ReceiveDatagram(c) PROVE Delivery!Receive(c)
    <3>1. Box' = [Box EXCEPT ![c] = Tail(@)] /\ Box[c] = queue[c]
      BY <2>6 DEF ReceiveDatagram, Box
    <3> QED
      BY <2>6, <3>1 DEF ReceiveDatagram, Delivery!Receive
  <2>7. ASSUME NEW c \in Channels, HandlerReturns(c) PROVE Delivery!Stop(c)
    BY <2>7 DEF HandlerReturns, Delivery!Stop, Box
  <2>8. CASE UNCHANGED vars
    BY <2>8 DEF vars, Delivery!vars, Box
  <2> QED
    BY <2>1, <2>2, <2>3, <2>4, <2>5, <2>6, <2>7, <2>8
       DEF Next, RouterRuns, Delivery!Next
<1> QED
  BY <1>1, <1>2, TypeCorrect, DatagramsHaveOneHome, PTL DEF Spec, Delivery!SafeSpec

-----------------------------------------------------------------------------
(* The Rust router *)

\* The number of the latest datagram of c that the router has finished with.
Latest(c) == IF held = c THEN met[c] - 1 ELSE met[c]

Below(s, n) == \A i \in 1 .. Len(s) : s[i] <= n

\* No queue is read before add_channel has returned, and none is adopted; a channel that
\* is not registered has nothing in its own queue.
NotReady(c) ==
    /\ c \notin ready => got[c] = <<>> /\ adopted[c] = <<>> /\ current[c] = "own"
    /\ c \notin known => own[c] = <<>> /\ pending[c] = <<>>

\* What is parked and what the handler will have got is in order and older than the
\* datagram the router holds.
StreamInv(c) ==
    /\ Rust!Increasing(parked[c]) /\ Below(parked[c], Latest(c))
    /\ Rust!Increasing(Rust!Stream(c)) /\ Below(Rust!Stream(c), Latest(c))

RustOrderInv ==
    /\ \A c \in Channels : NotReady(c) /\ StreamInv(c)
    /\ held # None => met[held] > 0
    /\ target = "adopted" => current[held] = "adopted"

\* Queues as sequences of datagram numbers.
LEMMA ConcatFacts ==
    ASSUME NEW g \in Seq(Nat), NEW q \in Seq(Nat)
    PROVE  /\ g \o q \in Seq(Nat)
           /\ <<>> \o q = q
           /\ q # <<>> => Append(g, Head(q)) \o Tail(q) = g \o q
<1>1. g \o q \in Seq(Nat) /\ <<>> \o q = q
  OBVIOUS
<1>2. ASSUME q # <<>> PROVE Append(g, Head(q)) \o Tail(q) = g \o q
  <2>1. Head(q) \in Nat /\ Tail(q) \in Seq(Nat) /\ q = <<Head(q)>> \o Tail(q)
    BY <1>2
  <2>2. ASSUME NEW h \in Nat, NEW t \in Seq(Nat)
        PROVE  Append(g, h) \o t = g \o (<<h>> \o t)
    OBVIOUS
  <2>. QED
    BY <2>1, <2>2
<1>. QED
  BY <1>1, <1>2

LEMMA ConcatAppend ==
    ASSUME NEW g \in Seq(Nat), NEW q \in Seq(Nat), NEW m \in Nat
    PROVE  g \o Append(q, m) = Append(g \o q, m)
OBVIOUS

LEMMA EmptyInOrder == Rust!Increasing(<<>>) /\ \A n \in Nat : Below(<<>>, n)
BY DEF Rust!Increasing, Below

LEMMA SingleInOrder ==
    ASSUME NEW m \in Nat
    PROVE  Rust!Increasing(<<m>>) /\ Below(<<m>>, m) /\ <<m>> \in Seq(Nat)
BY DEF Rust!Increasing, Below

\* A datagram younger than all that is there goes to the end.
LEMMA AppendInOrder ==
    ASSUME NEW s \in Seq(Nat), NEW n \in Nat, Rust!Increasing(s), Below(s, n)
    PROVE  Rust!Increasing(Append(s, n + 1)) /\ Below(Append(s, n + 1), n + 1)
<1>1. /\ Len(Append(s, n + 1)) = Len(s) + 1 /\ Len(s) \in Nat
      /\ \A i \in 1 .. Len(s) : Append(s, n + 1)[i] = s[i] /\ s[i] \in Nat
      /\ Append(s, n + 1)[Len(s) + 1] = n + 1
  OBVIOUS
<1>. QED
  BY <1>1 DEF Rust!Increasing, Below

LEMMA BelowGrows ==
    ASSUME NEW s \in Seq(Nat), NEW n \in Nat, NEW m \in Nat, n <= m, Below(s, n)
    PROVE  Below(s, m)
<1>1. \A i \in 1 .. Len(s) : s[i] \in Nat
  OBVIOUS
<1>. QED
  BY <1>1 DEF Below

-----------------------------------------------------------------------------

LEMMA RustTypeInit == Rust!Init => Rust!TypeOK
BY NoneAssumption DEF NoneAssumption, Rust!Init, Rust!TypeOK, Rust!Empty

\* The datagram in the router's hand goes to the end of queue q.
LEMMA PushType ==
    ASSUME Rust!TypeOK, held \in Channels, NEW q, Rust!Push(held, q)
    PROVE  own' \in [Channels -> Seq(Nat)] /\ adopted' \in [Channels -> Seq(Nat)]
<1>1. /\ Append(own[held], met[held]) \in Seq(Nat)
      /\ Append(adopted[held], met[held]) \in Seq(Nat)
  <2>1. met[held] \in Nat /\ own[held] \in Seq(Nat) /\ adopted[held] \in Seq(Nat)
    BY DEF Rust!TypeOK
  <2>. QED
    BY <2>1, QueueFacts
<1>2. CASE own' = [own EXCEPT ![held] = Append(@, met[held])] /\ UNCHANGED adopted
  BY <1>1, <1>2, QueueUpdate DEF Rust!TypeOK
<1>3. CASE adopted' = [adopted EXCEPT ![held] = Append(@, met[held])] /\ UNCHANGED own
  BY <1>1, <1>3, QueueUpdate DEF Rust!TypeOK
<1>. QED
  BY <1>2, <1>3 DEF Rust!Push

LEMMA RustTypeStep == Rust!TypeOK /\ [Rust!Next]_(Rust!vars) => Rust!TypeOK'
<1>. SUFFICES ASSUME Rust!TypeOK, [Rust!Next]_(Rust!vars) PROVE Rust!TypeOK'
  OBVIOUS
<1>0. None \notin Channels
  BY NoneAssumption DEF NoneAssumption
<1>1. CASE Rust!GetChannel \/ Rust!CloneQueue
  BY <1>0, <1>1 DEF Rust!GetChannel, Rust!CloneQueue, Rust!TypeOK
<1>2. CASE Rust!WaitAdd
  <2>1. held \in Channels /\ Rust!Push(held, target)
    BY <1>2 DEF Rust!WaitAdd, Rust!TypeOK
  <2>2. own' \in [Channels -> Seq(Nat)] /\ adopted' \in [Channels -> Seq(Nat)]
    BY <2>1, PushType
  <2>. QED
    BY <1>0, <1>2, <2>2 DEF Rust!WaitAdd, Rust!Done, Rust!TypeOK
<1>3. CASE Rust!AddDanglingDatagramsQueue
  <2>1. held \in Channels /\ <<met[held]>> \in Seq(Nat)
    BY <1>3 DEF Rust!AddDanglingDatagramsQueue, Rust!TypeOK
  <2>2. parked' \in [Channels -> Seq(Nat)]
    BY <1>3, <2>1, QueueUpdate DEF Rust!AddDanglingDatagramsQueue, Rust!TypeOK
  <2>. QED
    BY <1>0, <1>3, <2>2 DEF Rust!AddDanglingDatagramsQueue, Rust!Done, Rust!TypeOK
<1>4. CASE Rust!Drain
  <2>1. held \in Channels
    BY <1>4 DEF Rust!Drain, Rust!TypeOK
  <2>2. own' \in [Channels -> Seq(Nat)] /\ adopted' \in [Channels -> Seq(Nat)]
    <3>1. CASE Rust!Push(held, current[held])
      BY <2>1, <3>1, PushType
    <3>2. CASE UNCHANGED <<own, adopted>>
      BY <3>2 DEF Rust!TypeOK
    <3>. QED
      BY <1>4, <3>1, <3>2 DEF Rust!Drain
  <2>. QED
    BY <1>0, <1>4, <2>2 DEF Rust!Drain, Rust!Done, Rust!TypeOK
<1>5. ASSUME NEW c \in Channels, Rust!ReadDatagram(c) PROVE Rust!TypeOK'
  BY <1>0, <1>5 DEF Rust!ReadDatagram, Rust!TypeOK
<1>6. ASSUME NEW c \in Channels, Rust!AddChannel(c) PROVE Rust!TypeOK'
  <2>1. parked[c] \in Seq(Nat) /\ <<>> \in Seq(Nat)
    BY QueueFacts DEF Rust!TypeOK
  <2>2. parked' \in [Channels -> Seq(Nat)] /\ pending' \in [Channels -> Seq(Nat)]
    BY <1>6, <2>1, QueueUpdate DEF Rust!AddChannel, Rust!TypeOK
  <2>. QED
    BY <1>6, <2>2 DEF Rust!AddChannel, Rust!TypeOK
<1>7. ASSUME NEW c \in Channels, Rust!SetDatagramQueue(c) PROVE Rust!TypeOK'
  <2>1. pending[c] \in Seq(Nat) /\ <<>> \in Seq(Nat)
    BY QueueFacts DEF Rust!TypeOK
  <2>2. CASE UNCHANGED <<pending, current, adopted>>
    BY <1>7, <2>2 DEF Rust!SetDatagramQueue, Rust!TypeOK
  <2>3. CASE /\ current' = [current EXCEPT ![c] = "adopted"]
             /\ adopted' = [adopted EXCEPT ![c] = pending[c]]
             /\ pending' = [pending EXCEPT ![c] = <<>>]
    <3>1. adopted' \in [Channels -> Seq(Nat)] /\ pending' \in [Channels -> Seq(Nat)]
      BY <2>1, <2>3, QueueUpdate DEF Rust!TypeOK
    <3>. QED
      BY <1>7, <2>3, <3>1 DEF Rust!SetDatagramQueue, Rust!TypeOK
  <2>. QED
    BY <1>7, <2>2, <2>3 DEF Rust!SetDatagramQueue
<1>8. ASSUME NEW c \in Channels, Rust!ReceiveDatagram(c) PROVE Rust!TypeOK'
  <2>1. /\ Rust!Inbox(c) \in Seq(Nat) \ {<<>>} /\ got[c] \in Seq(Nat)
        /\ own[c] \in Seq(Nat) /\ adopted[c] \in Seq(Nat)
    BY <1>8 DEF Rust!ReceiveDatagram, Rust!Inbox, Rust!TypeOK
  <2>2. got' \in [Channels -> Seq(Nat)]
    <3>1. Append(got[c], Head(Rust!Inbox(c))) \in Seq(Nat)
      BY <2>1
    <3>. QED
      BY <1>8, <3>1, QueueUpdate DEF Rust!ReceiveDatagram, Rust!TypeOK
  <2>3. own' \in [Channels -> Seq(Nat)] /\ adopted' \in [Channels -> Seq(Nat)]
    <3>1. CASE current[c] = "own"
      <4>1. Tail(own[c]) \in Seq(Nat)
        BY <2>1, <3>1, <1>8 DEF Rust!Inbox, Rust!ReceiveDatagram
      <4>2. own' = [own EXCEPT ![c] = Tail(own[c])] /\ UNCHANGED adopted
        BY <1>8, <3>1 DEF Rust!ReceiveDatagram
      <4>. QED
        BY <4>1, <4>2, QueueUpdate DEF Rust!TypeOK
    <3>2. CASE current[c] = "adopted"
      <4>1. Tail(adopted[c]) \in Seq(Nat)
        BY <2>1, <3>2, <1>8 DEF Rust!Inbox, Rust!ReceiveDatagram
      <4>2. adopted' = [adopted EXCEPT ![c] = Tail(adopted[c])] /\ UNCHANGED own
        BY <1>8, <3>2 DEF Rust!ReceiveDatagram
      <4>. QED
        BY <4>1, <4>2, QueueUpdate DEF Rust!TypeOK
    <3>. QED
      BY <3>1, <3>2 DEF Rust!TypeOK
  <2>. QED
    BY <1>8, <2>2, <2>3 DEF Rust!ReceiveDatagram, Rust!TypeOK
<1>9. ASSUME NEW c \in Channels, Rust!HandlerEnds(c) PROVE Rust!TypeOK'
  BY <1>9 DEF Rust!HandlerEnds, Rust!TypeOK
<1>10. CASE UNCHANGED Rust!vars
  BY <1>10 DEF Rust!vars, Rust!TypeOK
<1>. QED
  BY <1>1, <1>2, <1>3, <1>4, <1>5, <1>6, <1>7, <1>8, <1>9, <1>10
     DEF Rust!Next, Rust!RouterRuns

-----------------------------------------------------------------------------

LEMMA RustOneHomeInit == Rust!Init => Rust!OneHome
BY DEF Rust!Init, Rust!OneHome

\* add_dangling_datagrams_queue looks the channel up in the critical section that enters
\* the queue, and add_channel takes the queue in the one that adds the channel.
LEMMA RustOneHomeStep ==
    Rust!TypeOK /\ Rust!OneHome /\ [Rust!Next]_(Rust!vars) => Rust!OneHome'
<1>. SUFFICES ASSUME Rust!TypeOK, Rust!OneHome, [Rust!Next]_(Rust!vars) PROVE Rust!OneHome'
  OBVIOUS
<1>. USE DEF Rust!TypeOK, Rust!OneHome
<1>1. CASE Rust!GetChannel \/ Rust!CloneQueue
  BY <1>1 DEF Rust!GetChannel, Rust!CloneQueue
<1>2. CASE Rust!WaitAdd \/ Rust!Drain
  BY <1>2 DEF Rust!WaitAdd, Rust!Drain, Rust!Done
<1>3. CASE Rust!AddDanglingDatagramsQueue
  BY <1>3 DEF Rust!AddDanglingDatagramsQueue, Rust!Done
<1>4. ASSUME NEW c \in Channels,
             Rust!ReadDatagram(c) \/ Rust!ReceiveDatagram(c) \/ Rust!HandlerEnds(c)
      PROVE  Rust!OneHome'
  BY <1>4 DEF Rust!ReadDatagram, Rust!ReceiveDatagram, Rust!HandlerEnds
<1>5. ASSUME NEW c \in Channels, Rust!AddChannel(c) PROVE Rust!OneHome'
  BY <1>5 DEF Rust!AddChannel
<1>6. ASSUME NEW c \in Channels, Rust!SetDatagramQueue(c) PROVE Rust!OneHome'
  BY <1>6 DEF Rust!SetDatagramQueue
<1>7. CASE UNCHANGED Rust!vars
  BY <1>7 DEF Rust!vars
<1>. QED
  BY <1>1, <1>2, <1>3, <1>4, <1>5, <1>6, <1>7 DEF Rust!Next, Rust!RouterRuns

-----------------------------------------------------------------------------

LEMMA LatestIsNat ==
    ASSUME Rust!TypeOK, NEW c \in Channels, held = c => met[c] > 0
    PROVE  Latest(c) \in Nat /\ (held = c => met[c] = Latest(c) + 1)
BY DEF Rust!TypeOK, Latest

LEMMA RustOrderInit == Rust!Init => RustOrderInv
BY EmptyInOrder, NoneAssumption
   DEF NoneAssumption, Rust!Init, Rust!Empty, RustOrderInv, NotReady, StreamInv, Latest,
       Rust!Stream, Rust!Inbox

LEMMA StreamType ==
    ASSUME Rust!TypeOK, NEW c \in Channels
    PROVE  Rust!Stream(c) \in Seq(Nat) /\ parked[c] \in Seq(Nat)
<1>1. /\ got[c] \in Seq(Nat) /\ pending[c] \in Seq(Nat) /\ Rust!Inbox(c) \in Seq(Nat)
      /\ parked[c] \in Seq(Nat)
  BY DEF Rust!TypeOK, Rust!Inbox
<1>. QED
  BY <1>1, ConcatFacts DEF Rust!Stream

\* Nothing happens to the queues of c, and the router's hand gets no older.
LEMMA StreamKept ==
    ASSUME Rust!TypeOK, RustOrderInv, NEW c \in Channels,
           /\ got'[c] = got[c] /\ pending'[c] = pending[c] /\ current'[c] = current[c]
           /\ own'[c] = own[c] /\ adopted'[c] = adopted[c] /\ parked'[c] = parked[c],
           Latest(c)' \in Nat, Latest(c)' >= Latest(c)
    PROVE  StreamInv(c)'
<1>1. held = c => met[c] > 0
  BY NoneAssumption DEF NoneAssumption, RustOrderInv
<1>2. Latest(c) \in Nat
  BY <1>1, LatestIsNat
<1>3. Rust!Stream(c)' = Rust!Stream(c)
  BY DEF Rust!Stream, Rust!Inbox
<1>4. /\ Rust!Stream(c) \in Seq(Nat) /\ parked[c] \in Seq(Nat)
      /\ StreamInv(c)
  BY StreamType DEF RustOrderInv
<1>5. Below(Rust!Stream(c), Latest(c)') /\ Below(parked[c], Latest(c)')
  BY <1>2, <1>4, BelowGrows DEF StreamInv
<1>. QED
  BY <1>3, <1>4, <1>5 DEF StreamInv, Rust!Increasing, Below

\* Steps that leave the queues and the router's hand alone.
LEMMA OrderQuiet ==
    ASSUME Rust!TypeOK, RustOrderInv,
           UNCHANGED <<met, held, known, parked, pending, current, own, adopted, ready, got>>,
           target' = "adopted" => current[held] = "adopted"
    PROVE  RustOrderInv'
<1>1. ASSUME NEW c \in Channels PROVE NotReady(c)' /\ StreamInv(c)'
  <2>1. Latest(c)' = Latest(c)
    BY DEF Latest
  <2>2. held = c => met[c] > 0
    BY NoneAssumption DEF NoneAssumption, RustOrderInv
  <2>3. StreamInv(c)'
    BY <2>1, <2>2, LatestIsNat, StreamKept
  <2>. QED
    BY <2>3 DEF RustOrderInv, NotReady
<1>. QED
  BY <1>1 DEF RustOrderInv

LEMMA OrderReadDatagram ==
    ASSUME Rust!TypeOK, RustOrderInv, NEW d \in Channels, Rust!ReadDatagram(d)
    PROVE  RustOrderInv'
<1>1. /\ held = None /\ target = "none" /\ held' = d
      /\ met' = [met EXCEPT ![d] = @ + 1]
      /\ UNCHANGED <<target, known, parked, pending, current, own, adopted, ready, got>>
  BY DEF Rust!ReadDatagram, Rust!TypeOK
<1>2. ASSUME NEW c \in Channels PROVE NotReady(c)' /\ StreamInv(c)'
  <2>1. Latest(c)' = Latest(c) /\ Latest(c) \in Nat
    BY <1>1, NoneAssumption DEF NoneAssumption, Latest, Rust!TypeOK
  <2>2. StreamInv(c)'
    BY <1>1, <2>1, StreamKept
  <2>. QED
    BY <1>1, <2>2 DEF RustOrderInv, NotReady
<1>3. met'[held'] > 0
  BY <1>1 DEF Rust!TypeOK
<1>. QED
  BY <1>1, <1>2, <1>3 DEF RustOrderInv

\* The router lets go of its datagram: it has become the latest of its channel.
LEMMA DoneLatest ==
    ASSUME Rust!TypeOK, RustOrderInv, held \in Channels, Rust!Done, UNCHANGED met
    PROVE  /\ Latest(held) \in Nat /\ met[held] = Latest(held) + 1
           /\ \A c \in Channels : Latest(c)' = met[c] /\ met[c] \in Nat
           /\ \A c \in Channels \ {held} : Latest(c)' = Latest(c)
           /\ \A c \in Channels : Latest(c)' >= Latest(c)
<1>1. met[held] > 0 /\ held # None /\ None \notin Channels
  BY NoneAssumption DEF NoneAssumption, RustOrderInv
<1>2. held' = None
  BY DEF Rust!Done
<1>. QED
  BY <1>1, <1>2 DEF Latest, Rust!TypeOK

LEMMA OrderPush ==
    ASSUME Rust!TypeOK, Rust!OneHome, RustOrderInv, NEW h \in known, h = held,
           NEW q, q = "adopted" => current[h] = "adopted", Rust!Push(h, q),
           Rust!Done, UNCHANGED <<met, known, parked, pending, current, ready, got>>
    PROVE  RustOrderInv'
<1>0. h \in Channels /\ met[h] \in Nat /\ held' = None /\ target' = "none"
  BY DEF Rust!TypeOK, Rust!Done
<1>1. /\ Latest(h) \in Nat /\ met[h] = Latest(h) + 1
      /\ \A c \in Channels : Latest(c)' = met[c] /\ met[c] \in Nat
      /\ \A c \in Channels : Latest(c)' >= Latest(c)
  BY <1>0, DoneLatest
<1>2. ASSUME NEW c \in Channels, c # h PROVE NotReady(c)' /\ StreamInv(c)'
  <2>1. own'[c] = own[c] /\ adopted'[c] = adopted[c]
    BY <1>0, <1>2 DEF Rust!Push, Rust!TypeOK
  <2>2. StreamInv(c)'
    BY <1>1, <2>1, StreamKept
  <2>. QED
    BY <2>1, <2>2 DEF RustOrderInv, NotReady
<1>3. /\ own[h] \in Seq(Nat) /\ adopted[h] \in Seq(Nat) /\ got[h] \in Seq(Nat)
      /\ Rust!Stream(h) \in Seq(Nat) /\ parked[h] \in Seq(Nat)
      /\ StreamInv(h) /\ NotReady(h)
  BY <1>0, StreamType DEF Rust!TypeOK, RustOrderInv
<1>4. StreamInv(h)' /\ NotReady(h)'
  <2>1. Below(parked[h], met[h])
    BY <1>1, <1>3, BelowGrows DEF StreamInv
  <2>2. \/ Rust!Stream(h)' = Rust!Stream(h)
        \/ Rust!Stream(h)' = Append(Rust!Stream(h), met[h])
    <3>1. CASE q = "own" /\ current[h] = "own" /\ pending[h] = <<>>
      <4>1. own'[h] = Append(own[h], met[h])
        BY <1>0, <3>1 DEF Rust!Push, Rust!TypeOK
      <4>2. /\ Rust!Stream(h) = got[h] \o own[h]
            /\ Rust!Stream(h)' = got[h] \o own'[h]
        BY <1>0, <3>1 DEF Rust!Stream, Rust!Inbox
      <4>3. got[h] \o Append(own[h], met[h]) = Append(got[h] \o own[h], met[h])
        BY <1>0, <1>3, ConcatAppend
      <4>. QED
        BY <4>1, <4>2, <4>3
    <3>2. CASE q = "own" /\ ~(current[h] = "own" /\ pending[h] = <<>>)
      BY <1>0, <3>2 DEF Rust!Stream, Rust!Inbox, Rust!Push
    <3>3. CASE q = "adopted"
      <4>1. current[h] = "adopted" /\ pending[h] = <<>>
        BY <1>3, <3>3 DEF NotReady, Rust!OneHome
      <4>2. adopted'[h] = Append(adopted[h], met[h])
        BY <1>0, <3>3 DEF Rust!Push, Rust!TypeOK
      <4>3. /\ Rust!Stream(h) = got[h] \o adopted[h]
            /\ Rust!Stream(h)' = got[h] \o adopted'[h]
        BY <1>0, <4>1 DEF Rust!Stream, Rust!Inbox
      <4>4. got[h] \o Append(adopted[h], met[h]) = Append(got[h] \o adopted[h], met[h])
        BY <1>0, <1>3, ConcatAppend
      <4>. QED
        BY <4>2, <4>3, <4>4
    <3>. QED
      BY <3>1, <3>2, <3>3 DEF Rust!Push
  <2>3. StreamInv(h)'
    <3>1. Rust!Increasing(Rust!Stream(h)') /\ Below(Rust!Stream(h)', met[h])
      <4>1. CASE Rust!Stream(h)' = Rust!Stream(h)
        BY <1>0, <1>1, <1>3, <4>1, BelowGrows DEF StreamInv
      <4>2. CASE Rust!Stream(h)' = Append(Rust!Stream(h), met[h])
        <5>1. /\ Rust!Increasing(Append(Rust!Stream(h), Latest(h) + 1))
              /\ Below(Append(Rust!Stream(h), Latest(h) + 1), Latest(h) + 1)
          BY <1>1, <1>3, AppendInOrder DEF StreamInv
        <5>. QED
          BY <1>1, <4>2, <5>1
      <4>. QED
        BY <2>2, <4>1, <4>2
    <3>2. Rust!Increasing(parked[h]) /\ parked'[h] = parked[h] /\ Latest(h)' = met[h]
      BY <1>0, <1>1, <1>3 DEF StreamInv
    <3>. QED
      BY <2>1, <3>1, <3>2 DEF StreamInv, Rust!Increasing, Below
  <2>4. NotReady(h)'
    BY <1>0, <1>3 DEF NotReady, Rust!Push, Rust!TypeOK
  <2>. QED
    BY <2>3, <2>4
<1>5. \A c \in Channels : NotReady(c)' /\ StreamInv(c)'
  BY <1>2, <1>4
<1>. QED
  BY <1>0, <1>5 DEF RustOrderInv

LEMMA OrderPark ==
    ASSUME Rust!TypeOK, RustOrderInv, NEW h \in Channels, h = held, h \notin known,
           parked' = [parked EXCEPT ![h] = <<met[h]>>], Rust!Done,
           UNCHANGED <<met, known, pending, current, own, adopted, ready, got>>
    PROVE  RustOrderInv'
<1>0. held' = None /\ target' = "none"
  BY DEF Rust!Done
<1>1. /\ Latest(h) \in Nat /\ met[h] = Latest(h) + 1
      /\ \A c \in Channels : Latest(c)' = met[c] /\ met[c] \in Nat
      /\ \A c \in Channels : Latest(c)' >= Latest(c)
  BY DoneLatest
<1>2. ASSUME NEW c \in Channels PROVE NotReady(c)' /\ StreamInv(c)'
  <2>1. NotReady(c)'
    BY DEF RustOrderInv, NotReady
  <2>2. CASE c # h
    <3>1. parked'[c] = parked[c]
      BY <2>2 DEF Rust!TypeOK
    <3>. QED
      BY <1>1, <2>1, <3>1, StreamKept
  <2>3. CASE c = h
    <3>1. parked'[h] = <<met[h]>>
      BY DEF Rust!TypeOK
    <3>2. Rust!Increasing(parked'[h]) /\ Below(parked'[h], met[h])
      BY <1>1, <3>1, SingleInOrder
    <3>3. Rust!Stream(h)' = Rust!Stream(h)
      BY DEF Rust!Stream, Rust!Inbox
    <3>4. Rust!Increasing(Rust!Stream(h)) /\ Below(Rust!Stream(h), met[h])
      BY <1>1, StreamType, BelowGrows DEF RustOrderInv, StreamInv
    <3>. QED
      BY <1>1, <2>1, <2>3, <3>2, <3>3, <3>4 DEF StreamInv, Rust!Increasing, Below
  <2>. QED
    BY <2>2, <2>3
<1>. QED
  BY <1>0, <1>2 DEF RustOrderInv

\* The datagram is dropped.
LEMMA OrderDrop ==
    ASSUME Rust!TypeOK, RustOrderInv, held \in Channels, Rust!Done,
           UNCHANGED <<met, known, parked, pending, current, own, adopted, ready, got>>
    PROVE  RustOrderInv'
<1>1. ASSUME NEW c \in Channels PROVE NotReady(c)' /\ StreamInv(c)'
  <2>1. Latest(c)' \in Nat /\ Latest(c)' >= Latest(c)
    BY DoneLatest
  <2>. QED
    BY <2>1, StreamKept DEF RustOrderInv, NotReady
<1>. QED
  BY <1>1 DEF RustOrderInv, Rust!Done

\* add_channel takes the parked datagrams: they become the handler's stream.
LEMMA OrderAddChannel ==
    ASSUME Rust!TypeOK, RustOrderInv, NEW d \in Channels, Rust!AddChannel(d)
    PROVE  RustOrderInv'
<1>1. /\ d \notin known /\ known' = known \cup {d}
      /\ pending' = [pending EXCEPT ![d] = parked[d]]
      /\ parked' = [parked EXCEPT ![d] = <<>>]
      /\ UNCHANGED <<met, held, target, current, own, adopted, ready, got>>
  BY DEF Rust!AddChannel
<1>2. ASSUME NEW c \in Channels PROVE NotReady(c)' /\ StreamInv(c)'
  <2>0. /\ Latest(c)' = Latest(c) /\ Latest(c) \in Nat
    <3>1. held = c => met[c] > 0
      BY NoneAssumption DEF NoneAssumption, RustOrderInv
    <3>. QED
      BY <1>1, <3>1, LatestIsNat DEF Latest
  <2>1. CASE c # d
    <3>1. parked'[c] = parked[c] /\ pending'[c] = pending[c]
      BY <1>1, <2>1 DEF Rust!TypeOK
    <3>2. StreamInv(c)'
      BY <1>1, <2>0, <3>1, StreamKept
    <3>. QED
      BY <1>1, <2>1, <3>1, <3>2 DEF RustOrderInv, NotReady
  <2>2. CASE c = d
    <3>1. /\ parked'[d] = <<>> /\ pending'[d] = parked[d] /\ parked[d] \in Seq(Nat)
          /\ got[d] = <<>> /\ adopted[d] = <<>> /\ current[d] = "own" /\ own[d] = <<>>
      BY <1>1 DEF Rust!TypeOK, RustOrderInv, NotReady
    <3>2. Rust!Stream(d)' = parked[d]
      <4>1. Rust!Stream(d)' = <<>> \o parked[d]
        BY <1>1, <3>1 DEF Rust!Stream, Rust!Inbox
      <4>. QED
        BY <3>1, <4>1, ConcatFacts
    <3>3. Rust!Increasing(parked[d]) /\ Below(parked[d], Latest(d))
      BY DEF RustOrderInv, StreamInv
    <3>4. StreamInv(d)'
      BY <2>0, <2>2, <3>1, <3>2, <3>3, EmptyInOrder DEF StreamInv, Rust!Increasing, Below
    <3>5. NotReady(d)'
      BY <1>1, <3>1 DEF NotReady
    <3>. QED
      BY <2>2, <3>4, <3>5
  <2>. QED
    BY <2>1, <2>2
<1>. QED
  BY <1>1, <1>2 DEF RustOrderInv

\* set_datagram_queue: the handler's stream is the same, in another queue.
LEMMA OrderSetDatagramQueue ==
    ASSUME Rust!TypeOK, RustOrderInv, NEW d \in Channels, Rust!SetDatagramQueue(d)
    PROVE  RustOrderInv'
<1>1. /\ d \in known /\ d \notin ready /\ ready' = ready \cup {d}
      /\ UNCHANGED <<met, held, target, known, parked, own, got>>
  BY DEF Rust!SetDatagramQueue
<1>2. ASSUME NEW c \in Channels PROVE /\ Latest(c)' = Latest(c) /\ Latest(c) \in Nat
  <2>1. held = c => met[c] > 0
    BY NoneAssumption DEF NoneAssumption, RustOrderInv
  <2>. QED
    BY <1>1, <2>1, LatestIsNat DEF Latest
<1>3. CASE UNCHANGED <<pending, current, adopted>>
  <2>1. ASSUME NEW c \in Channels PROVE NotReady(c)' /\ StreamInv(c)'
    BY <1>1, <1>2, <1>3, StreamKept DEF RustOrderInv, NotReady
  <2>. QED
    BY <1>1, <1>3, <2>1 DEF RustOrderInv
<1>4. CASE /\ pending[d] # <<>>
           /\ current' = [current EXCEPT ![d] = "adopted"]
           /\ adopted' = [adopted EXCEPT ![d] = pending[d]]
           /\ pending' = [pending EXCEPT ![d] = <<>>]
  <2>1. ASSUME NEW c \in Channels, c # d PROVE NotReady(c)' /\ StreamInv(c)'
    <3>1. pending'[c] = pending[c] /\ current'[c] = current[c] /\ adopted'[c] = adopted[c]
      BY <1>4, <2>1 DEF Rust!TypeOK
    <3>2. StreamInv(c)'
      BY <1>1, <1>2, <3>1, StreamKept
    <3>. QED
      BY <1>1, <2>1, <3>1, <3>2 DEF RustOrderInv, NotReady
  <2>2. pending'[d] = <<>> /\ current'[d] = "adopted" /\ adopted'[d] = pending[d]
    BY <1>4 DEF Rust!TypeOK
  <2>3. Rust!Stream(d)' = Rust!Stream(d)
    BY <1>1, <1>4, <2>2 DEF Rust!Stream, Rust!Inbox
  <2>4. StreamInv(d)'
    BY <1>1, <1>2, <2>3 DEF RustOrderInv, StreamInv, Rust!Increasing, Below
  <2>5. NotReady(d)'
    BY <1>1 DEF NotReady
  <2>6. target' = "adopted" => current'[held'] = "adopted"
    <3>1. target = "adopted" => held \in Channels
      BY DEF Rust!TypeOK
    <3>. QED
      BY <1>1, <1>4, <3>1 DEF RustOrderInv, Rust!TypeOK
  <2>. QED
    BY <1>1, <2>1, <2>4, <2>5, <2>6 DEF RustOrderInv
<1>. QED
  BY <1>3, <1>4 DEF Rust!SetDatagramQueue

\* receive_datagram moves the head of the queue to what was received.
LEMMA OrderReceiveDatagram ==
    ASSUME Rust!TypeOK, Rust!OneHome, RustOrderInv, NEW d \in Channels,
           Rust!ReceiveDatagram(d)
    PROVE  RustOrderInv'
<1>1. /\ d \in ready /\ pending[d] = <<>> /\ Rust!Inbox(d) # <<>>
      /\ got' = [got EXCEPT ![d] = Append(@, Head(Rust!Inbox(d)))]
      /\ UNCHANGED <<met, held, target, known, parked, pending, current, ready>>
      /\ d \in known
  BY DEF Rust!ReceiveDatagram, Rust!OneHome, Rust!TypeOK
<1>2. ASSUME NEW c \in Channels PROVE /\ Latest(c)' = Latest(c) /\ Latest(c) \in Nat
  <2>1. held = c => met[c] > 0
    BY NoneAssumption DEF NoneAssumption, RustOrderInv
  <2>. QED
    BY <1>1, <2>1, LatestIsNat DEF Latest
<1>3. ASSUME NEW c \in Channels, c # d PROVE NotReady(c)' /\ StreamInv(c)'
  <2>1. got'[c] = got[c]
    BY <1>1, <1>3 DEF Rust!TypeOK
  <2>2. own'[c] = own[c] /\ adopted'[c] = adopted[c]
    BY <1>3 DEF Rust!ReceiveDatagram, Rust!TypeOK
  <2>3. StreamInv(c)'
    BY <1>1, <1>2, <2>1, <2>2, StreamKept
  <2>. QED
    BY <1>1, <2>1, <2>2, <2>3 DEF RustOrderInv, NotReady
<1>4. Rust!Stream(d)' = Rust!Stream(d)
  <2>1. got[d] \in Seq(Nat) /\ Rust!Inbox(d) \in Seq(Nat)
    BY DEF Rust!TypeOK, Rust!Inbox
  <2>2. got'[d] = Append(got[d], Head(Rust!Inbox(d)))
    BY <1>1 DEF Rust!TypeOK
  <2>3. Rust!Inbox(d)' = Tail(Rust!Inbox(d))
    <3>1. CASE current[d] = "own"
      BY <1>1, <3>1 DEF Rust!ReceiveDatagram, Rust!Inbox, Rust!TypeOK
    <3>2. CASE current[d] = "adopted"
      BY <1>1, <3>2 DEF Rust!ReceiveDatagram, Rust!Inbox, Rust!TypeOK
    <3>. QED
      BY <3>1, <3>2 DEF Rust!TypeOK
  <2>4. Append(got[d], Head(Rust!Inbox(d))) \o Tail(Rust!Inbox(d)) = got[d] \o Rust!Inbox(d)
    BY <1>1, <2>1, ConcatFacts
  <2>5. /\ Rust!Stream(d) = got[d] \o Rust!Inbox(d)
        /\ Rust!Stream(d)' = got'[d] \o Rust!Inbox(d)'
    BY <1>1 DEF Rust!Stream
  <2>. QED
    BY <2>2, <2>3, <2>4, <2>5
<1>5. StreamInv(d)'
  BY <1>1, <1>2, <1>4 DEF RustOrderInv, StreamInv, Rust!Increasing, Below
<1>6. NotReady(d)'
  BY <1>1 DEF NotReady
<1>. QED
  BY <1>1, <1>3, <1>5, <1>6 DEF RustOrderInv

LEMMA RustOrderStep ==
    Rust!TypeOK /\ Rust!OneHome /\ RustOrderInv /\ [Rust!Next]_(Rust!vars) => RustOrderInv'
<1>. SUFFICES ASSUME Rust!TypeOK, Rust!OneHome, RustOrderInv, [Rust!Next]_(Rust!vars)
              PROVE  RustOrderInv'
  OBVIOUS
<1>1. CASE Rust!GetChannel \/ Rust!CloneQueue
  BY <1>1, OrderQuiet DEF Rust!GetChannel, Rust!CloneQueue, RustOrderInv
<1>2. CASE Rust!WaitAdd
  <2>1. held \in known /\ (target = "adopted" => current[held] = "adopted")
    BY <1>2 DEF Rust!WaitAdd, Rust!OneHome, RustOrderInv
  <2>. QED
    BY <1>2, <2>1, OrderPush DEF Rust!WaitAdd
<1>3. CASE Rust!AddDanglingDatagramsQueue
  <2>1. held \in Channels
    BY <1>3 DEF Rust!AddDanglingDatagramsQueue, Rust!TypeOK
  <2>2. CASE held \in known
    BY <1>3, <2>2, OrderQuiet DEF Rust!AddDanglingDatagramsQueue, RustOrderInv
  <2>3. CASE held \notin known
    BY <1>3, <2>1, <2>3, OrderPark DEF Rust!AddDanglingDatagramsQueue
  <2>. QED
    BY <2>2, <2>3
<1>4. CASE Rust!Drain
  <2>1. held \in known /\ held \in Channels
    BY <1>4 DEF Rust!Drain, Rust!OneHome, Rust!TypeOK
  <2>2. CASE Rust!Push(held, current[held])
    BY <1>4, <2>1, <2>2, OrderPush DEF Rust!Drain
  <2>3. CASE UNCHANGED <<own, adopted>>
    BY <1>4, <2>1, <2>3, OrderDrop DEF Rust!Drain
  <2>. QED
    BY <1>4, <2>2, <2>3 DEF Rust!Drain
<1>5. ASSUME NEW c \in Channels, Rust!HandlerEnds(c) PROVE RustOrderInv'
  BY <1>5, OrderQuiet DEF Rust!HandlerEnds, RustOrderInv
<1>6. CASE UNCHANGED Rust!vars
  BY <1>6, OrderQuiet DEF Rust!vars, RustOrderInv
<1>. QED
  BY <1>1, <1>2, <1>3, <1>4, <1>5, <1>6, OrderReadDatagram, OrderAddChannel,
     OrderSetDatagramQueue, OrderReceiveDatagram DEF Rust!Next, Rust!RouterRuns

\* The order of the datagrams and the place where each waits, for any number of channels
\* and datagrams and any queue sizes, in every interleaving of the router (get_channel,
\* wait_add_datagram, add_dangling_datagrams_queue), add_channel and the handlers.
THEOREM RustDatagramsInOrder == BothSpec => []RustInOrder
<1>. DEFINE Inv == Rust!TypeOK /\ Rust!OneHome /\ RustOrderInv
<1>1. BothInit => Inv
  BY RustTypeInit, RustOneHomeInit, RustOrderInit DEF BothInit
<1>2. Inv /\ [BothNext]_bothVars => Inv'
  <2>. SUFFICES ASSUME Inv, [BothNext]_bothVars PROVE Inv'
    OBVIOUS
  <2>1. [Rust!Next]_(Rust!vars)
    BY DEF BothNext, bothVars, rustVars, Rust!vars
  <2>. QED
    BY <2>1, RustTypeStep, RustOneHomeStep, RustOrderStep
<1>3. Inv => RustInOrder
  BY DEF RustInOrder, Rust!InOrder, RustOrderInv, StreamInv
<1>. QED
  BY <1>1, <1>2, <1>3, PTL DEF BothSpec
=============================================================================
