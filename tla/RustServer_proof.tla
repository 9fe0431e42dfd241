------------------------------ MODULE RustServer_proof ------------------------------
(***************************************************************************)
(* Safety of RustServer for any streams and bounds: the end of a forwarded *)
(* TCP connection, what a client gets before it is admitted and after its  *)
(* conversation, the accept queue, the one task of each channel, and the   *)
(* datagram queues of channels.                                            *)
(***************************************************************************)
EXTENDS RustServer, TLAPS

TcpState == [sent : Nat, end : {"open", "eof", "bad"}, delivered : Nat,
             to : {"none", "run", "writing", "fin", "broken"},
             from : {"none", "run", "done"}, remote : {"open", "eof", "gone"}]

\* What the pump to the remote end has written is a prefix of what the client sent,
\* a write in progress is of the next message, and the end came after the last.
PumpInv(s) ==
    /\ tcp[s].delivered <= tcp[s].sent
    /\ tcp[s].to = "writing" => tcp[s].delivered < tcp[s].sent
    /\ tcp[s].to = "fin" =>
          \/ tcp[s].end # "open" /\ tcp[s].delivered = tcp[s].sent
          \/ link = "closed"
          \/ s \in stopped

TcpInv ==
    /\ kind \in Assignments
    /\ tcp \in [Streams -> TcpState]
    /\ link \in {"open", "closed"}
    /\ \A s \in Streams : PumpInv(s)

TaskState == {"none", "run", "writing", "done"}

\* What is in a queue, and that nothing is in it twice.
In(q) == {q[i] : i \in 1 .. Len(q)}
Once(q) == \A i, j \in 1 .. Len(q) : q[i] = q[j] => i = j

\* A stream is in one place of the way from accept_bi to its task: it waits to be
\* accepted, its header is read, it is in the accept queue, it is being confirmed, or it
\* has its task.
PlaceInv ==
    /\ kind \in Assignments
    /\ task \in [Streams -> TaskState]
    /\ arrived \in Seq(Streams) /\ Once(arrived)
    /\ queue \in Seq(Streams) /\ Once(queue)
    /\ reading \in Streams \cup {None} /\ (router = "reading" <=> reading # None)
    /\ confirming \in Streams \cup {None}
    /\ acceptor \in {"confirm", "adopt"} <=> confirming # None
    /\ In(arrived) \cap In(queue) = {}
    /\ {reading, confirming} \cap (In(arrived) \cup In(queue)) = {}
    /\ reading = confirming => reading = None
    /\ \A s \in Streams : task[s] # "none" =>
          s \notin In(arrived) \cup In(queue) \cup {reading, confirming}

\* The task of a channel is started once: what has been started is not to be started
\* again, and what is done stays done.
KeepsTasks ==
    \A s \in Streams : /\ task[s] # "none" => task'[s] # "none"
                       /\ task[s] = "done" => task'[s] = "done"
TaskStartsOnce == [][KeepsTasks]_vars

\* While the accept loop sleeps in wait_next beside a channel in its queue, a
\* notification has been given or is about to be.
NoChannelForgotten == (acceptor = "parked" /\ queue # <<>>) => permit \/ router = "notify"

\* Where handle_conversation is says what is left of the conversation.
EndInv ==
    /\ task \in [Streams -> TaskState]
    /\ handler \in {"authorizing", "serving", "failed", "draining", "ended"}
    /\ handler # "serving" => acceptor = "none"
    /\ handler = "draining" => link = "closed"
    /\ handler = "ended" => ~registered /\ link = "closed"

\* When handle_conversation has returned, on whichever path, the conversation is out of
\* the router's map and the connection is closed.
EndedMeansGone == handler = "ended" => ~registered /\ link = "closed" /\ acceptor = "none"

\* Only the accept loop of a conversation that is served starts a task.
TasksStartWhileServed ==
    [][handler # "serving" => \A s \in Streams : task[s] = "none" => task'[s] = "none"]_vars

\* Nothing of a client is read, queued, routed or served: the state before admission.
Untouched ==
    /\ reading = None /\ queue = <<>> /\ acceptor = "none" /\ datagrams = "none"
    /\ \A s \in Streams : task[s] = "none" /\ tcp[s].to = "none" /\ tcp[s].from = "none"
                          /\ inbox[s].reader = "none" /\ inbox[s].queued = 0
                          /\ inbox[s].parked = 0

\* Until the client is admitted, and for ever if it is not, the routers and the accept
\* loop do not exist.
AdmissionInv ==
    /\ handler = "authorizing" => router = "none"
    /\ router = "none" => Untouched /\ handler \in {"authorizing", "ended"}

\* Before handle_conversation has answered 200 it touches no stream and no datagram of
\* the client.
NothingBeforeAdmission == handler = "authorizing" => Untouched

-----------------------------------------------------------------------------
(* TCP forwarding *)

LEMMA TcpInitially == Init => TcpInv
BY DEF Init, TcpInv, TcpState, PumpInv

\* The conditions under which a pump may have ended do not go away.
LEMMA TcpUnchanged ==
    ASSUME TcpInv, UNCHANGED <<kind, tcp>>, link' \in {link, "closed"},
           stopped \subseteq stopped'
    PROVE  TcpInv'
BY DEF TcpInv, PumpInv

LEMMA SendDataStep ==
    ASSUME TcpInv, NEW s \in Streams, SendData(s)
    PROVE  TcpInv'
<1>1. UNCHANGED <<kind, link, stopped>> /\ tcp[s].end = "open"
  BY DEF SendData
<1>2. CASE tcp' = [tcp EXCEPT ![s].sent = @ + 1]
  BY <1>1, <1>2 DEF TcpInv, TcpState, PumpInv
<1>3. ASSUME NEW end \in {"eof", "bad"}, tcp' = [tcp EXCEPT ![s].end = end]
      PROVE  TcpInv'
  BY <1>1, <1>3 DEF TcpInv, TcpState, PumpInv
<1>. QED
  BY <1>2, <1>3 DEF SendData

LEMMA TcpConnectStep ==
    ASSUME TcpInv, NEW s \in Streams, TcpConnect(s)
    PROVE  TcpInv'
<1>1. UNCHANGED <<kind, link, stopped>>
  BY DEF TcpConnect
<1>2. CASE UNCHANGED tcp
  BY <1>1, <1>2, TcpUnchanged
<1>3. CASE tcp' = [tcp EXCEPT ![s].to = "run", ![s].from = "run"]
  BY <1>1, <1>3 DEF TcpInv, TcpState, PumpInv
<1>. QED
  BY <1>2, <1>3 DEF TcpConnect

LEMMA TcpToStep ==
    ASSUME TcpInv, NEW s \in Streams, TcpTo(s)
    PROVE  TcpInv'
<1>1. UNCHANGED <<kind, link, stopped>>
  BY DEF TcpTo
<1>2. CASE tcp[s].delivered < tcp[s].sent /\ tcp' = [tcp EXCEPT ![s].to = "writing"]
  BY <1>1, <1>2 DEF TcpInv, TcpState, PumpInv
<1>3. CASE /\ \/ tcp[s].end # "open" /\ tcp[s].delivered = tcp[s].sent
              \/ s \in stopped
              \/ link = "closed"
           /\ tcp' = [tcp EXCEPT ![s].to = "fin"]
  BY <1>1, <1>3 DEF TcpInv, TcpState, PumpInv
<1>. QED
  BY <1>2, <1>3 DEF TcpTo

LEMMA TcpWriteStep ==
    ASSUME TcpInv, NEW s \in Streams, TcpWrite(s)
    PROVE  TcpInv'
<1>1. UNCHANGED <<kind, link, stopped>> /\ tcp[s].to = "writing"
  BY DEF TcpWrite
<1>2. CASE tcp' = [tcp EXCEPT ![s].to = "broken"]
  BY <1>1, <1>2 DEF TcpInv, TcpState, PumpInv
<1>3. CASE tcp' = [tcp EXCEPT ![s].to = "run", ![s].delivered = @ + 1]
  BY <1>1, <1>3 DEF TcpInv, TcpState, PumpInv
<1>. QED
  BY <1>2, <1>3 DEF TcpWrite

LEMMA TcpOtherStep ==
    ASSUME TcpInv, NEW s \in Streams, TcpFrom(s) \/ TcpRemote(s)
    PROVE  TcpInv'
<1>1. UNCHANGED <<kind, link, stopped>>
  BY DEF TcpFrom, TcpRemote
<1>2. CASE TcpFrom(s)
  BY <1>1, <1>2 DEF TcpFrom, TcpInv, TcpState, PumpInv
<1>3. CASE TcpRemote(s)
  BY <1>1, <1>3 DEF TcpRemote, TcpInv, TcpState, PumpInv
<1>. QED
  BY <1>2, <1>3

\* The streams of an assignment are streams.
LEMMA StreamsOfKind ==
    ASSUME kind \in Assignments
    PROVE  DOMAIN kind \subseteq Streams
<1>1. kind \in UNION {[some -> Kinds] : some \in SUBSET Streams}
  BY RustServerAssumption DEF RustServerAssumption
<1>. QED
  BY <1>1

\* The steps of a stream.
StreamStep(s) ==
    ClientStep(s) \/ OutsideStep(s) \/ DatagramFits(s) \/ PlainTask(s) \/ ForwardStep(s)

LEMMA TcpStep == TcpInv /\ [Next]_vars => TcpInv'
<1>. SUFFICES ASSUME TcpInv, [Next]_vars PROVE TcpInv'
  OBVIOUS
<1>1. CASE Admit \/ HandlerStep \/ RouterStep \/ DatagramsEnd \/ CloseConnection
  <2>1. UNCHANGED <<kind, tcp, stopped>> /\ link' \in {link, "closed"}
    BY <1>1 DEF Admit, HandlerStep, Leave, BreakLoop, Drain, AcceptNext, AcceptWake, Confirm,
       Adopt, RouterStep, RouterAccept, RouterRoute, RouterNotify, DatagramsEnd,
       CloseConnection, forwardVars
  <2>. QED
    BY <2>1, TcpUnchanged
<1>2. ASSUME NEW s \in DOMAIN kind, StreamStep(s)
      PROVE  TcpInv'
  <2>1. s \in Streams
    BY StreamsOfKind DEF TcpInv
  <2>2. CASE SendData(s)
    BY <2>1, <2>2, SendDataStep
  <2>3. CASE TcpTo(s)
    BY <2>1, <2>3, TcpToStep
  <2>4. CASE TcpWrite(s)
    BY <2>1, <2>4, TcpWriteStep
  <2>5. CASE TcpFrom(s) \/ TcpRemote(s)
    BY <2>1, <2>5, TcpOtherStep
  <2>6. CASE TcpConnect(s)
    BY <2>1, <2>6, TcpConnectStep
  <2>7. CASE \/ OpenStream(s) \/ StopStream(s) \/ ParkDatagram(s) \/ RouteDatagram(s)
             \/ DatagramFits(s) \/ SessionWrites(s) \/ SessionWritten(s) \/ PlainTask(s)
             \/ TcpDone(s) \/ UdpBind(s) \/ UdpTo(s) \/ UdpDone(s)
    <3>1. UNCHANGED <<kind, link, tcp>> /\ stopped \subseteq stopped'
      BY <2>7 DEF OpenStream, StopStream, ParkDatagram, RouteDatagram, DatagramFits,
         SessionWrites, SessionWritten, PlainTask, TcpDone, UdpBind, UdpTo, UdpDone,
         forwardVars
    <3>. QED
      BY <3>1, TcpUnchanged
  <2>. QED
    BY <1>2, <2>2, <2>3, <2>4, <2>5, <2>6, <2>7
    DEF StreamStep, ClientStep, OutsideStep, ForwardStep
<1>3. CASE UNCHANGED vars
  <2>1. UNCHANGED <<kind, link, stopped, tcp>>
    BY <1>3 DEF vars, forwardVars
  <2>. QED
    BY <2>1, TcpUnchanged
<1>. QED
  BY <1>1, <1>2, <1>3 DEF Next, StreamStep

\* handle_tcp_forwarding: on an unbroken stream the remote end gets an end of file
\* only after all that the client sent and the client's own end, or what was no message.
THEOREM EndOfFileComesLast == Spec => []FinMeansAll
<1>1. TcpInv => FinMeansAll
  BY DEF TcpInv, PumpInv, FinMeansAll
<1>. QED
  BY <1>1, TcpInitially, TcpStep, PTL DEF Spec

-----------------------------------------------------------------------------
(* Before the conversation and after it *)

LEMMA AdmissionInitially == Init => AdmissionInv /\ EndInv
BY DEF Init, AdmissionInv, Untouched, EndInv, TaskState

\* The steps that a client may take, and Leave, while nothing serves it.
LEMMA AdmissionUntouched ==
    ASSUME TcpInv, AdmissionInv, Next, router = "none"
    PROVE  AdmissionInv'
<1>0. /\ Untouched /\ handler \in {"authorizing", "ended"}
      /\ \A s \in Streams : s # "none"
  BY RustServerAssumption DEF AdmissionInv, RustServerAssumption
<1>1. CASE Admit
  BY <1>1 DEF Admit, AdmissionInv
<1>2. CASE Leave \/ CloseConnection
  BY <1>0, <1>2 DEF Leave, CloseConnection, AdmissionInv, Untouched, routerVars, acceptVars,
     forwardVars
<1>3. CASE \/ BreakLoop \/ Drain \/ AcceptNext \/ AcceptWake \/ Confirm \/ Adopt
           \/ DatagramsEnd
  BY <1>0, <1>3 DEF BreakLoop, Drain, AcceptNext, AcceptWake, Confirm, Adopt, DatagramsEnd,
     Untouched
<1>4. CASE RouterStep
  BY <1>4 DEF RouterStep, RouterAccept, RouterRoute, RouterNotify
<1>5. ASSUME NEW s \in Streams, OpenStream(s) \/ StopStream(s)
      PROVE  AdmissionInv'
  BY <1>0, <1>5 DEF OpenStream, StopStream, AdmissionInv, Untouched, routerVars, acceptVars,
     forwardVars
<1>6. ASSUME NEW s \in Streams, SendData(s)
      PROVE  AdmissionInv'
  <2>1. /\ UNCHANGED <<handler, router, reading, queue, acceptor, datagrams, task, inbox>>
        /\ \A x \in Streams : tcp'[x].to = tcp[x].to /\ tcp'[x].from = tcp[x].from
    BY <1>6 DEF SendData, TcpInv, TcpState, routerVars, acceptVars
  <2>. QED
    BY <1>0, <2>1 DEF AdmissionInv, Untouched
<1>7. ASSUME NEW s \in Streams,
             \/ ParkDatagram(s) \/ RouteDatagram(s) \/ DatagramFits(s) \/ OutsideStep(s)
             \/ PlainTask(s) \/ ForwardStep(s)
      PROVE  FALSE
  BY <1>0, <1>7 DEF ParkDatagram, RouteDatagram, DatagramFits, OutsideStep, SessionWrites,
     SessionWritten, TcpWrite, TcpRemote, PlainTask, ForwardStep, TcpConnect, TcpTo, TcpFrom,
     TcpDone, UdpBind, UdpTo, UdpDone, Untouched
<1>8. DOMAIN kind \subseteq Streams
  BY StreamsOfKind DEF TcpInv
<1>. QED
  BY <1>1, <1>2, <1>3, <1>4, <1>5, <1>6, <1>7, <1>8 DEF Next, HandlerStep, ClientStep

\* The steps of a stream leave the handler, the router and the accept queue alone.
LEMMA StreamQuiet ==
    ASSUME NEW s, StreamStep(s)
    PROVE  /\ UNCHANGED <<kind, registered, link, handler, router, reading, queue, permit>>
           /\ UNCHANGED <<acceptor, confirming>>
<1>1. CASE ClientStep(s) \/ OutsideStep(s) \/ DatagramFits(s)
  BY <1>1 DEF ClientStep, OpenStream, StopStream, SendData, ParkDatagram, RouteDatagram,
     OutsideStep, SessionWrites, SessionWritten, TcpWrite, TcpRemote, DatagramFits,
     routerVars, acceptVars
<1>2. CASE PlainTask(s) \/ ForwardStep(s)
  BY <1>2 DEF PlainTask, ForwardStep, TcpConnect, TcpTo, TcpFrom, TcpDone, UdpBind, UdpTo,
     UdpDone, routerVars, acceptVars
<1>. QED
  BY <1>1, <1>2 DEF StreamStep

\* What the steps of a stream do to its task.
LEMMA StreamTask ==
    ASSUME NEW s, StreamStep(s)
    PROVE  \/ UNCHANGED task
           \/ /\ task[s] \in {"run", "writing"}
              /\ \E then \in {"run", "writing", "done"} : task' = [task EXCEPT ![s] = then]
<1>1. CASE ClientStep(s) \/ OutsideStep(s) \/ DatagramFits(s)
  BY <1>1 DEF ClientStep, OpenStream, StopStream, SendData, ParkDatagram, RouteDatagram,
     OutsideStep, SessionWrites, SessionWritten, TcpWrite, TcpRemote, DatagramFits
<1>2. CASE PlainTask(s) \/ ForwardStep(s)
  BY <1>2 DEF PlainTask, ForwardStep, TcpConnect, TcpTo, TcpFrom, TcpDone, UdpBind, UdpTo,
     UdpDone
<1>. QED
  BY <1>1, <1>2 DEF StreamStep

\* No step goes back to the state before the answer.
LEMMA AdmissionFinal ==
    ASSUME [Next]_vars
    PROVE  /\ handler' = "authorizing" => handler = "authorizing"
           /\ router' = "none" => router = "none"
<1>1. CASE \/ Admit \/ HandlerStep
  BY <1>1 DEF Admit, HandlerStep, Leave, BreakLoop, Drain, AcceptNext, AcceptWake, Confirm,
     Adopt, routerVars
<1>2. CASE RouterStep \/ DatagramsEnd \/ CloseConnection
  BY <1>2 DEF RouterStep, RouterAccept, RouterRoute, RouterNotify, DatagramsEnd,
     CloseConnection, routerVars
<1>3. ASSUME NEW s, StreamStep(s)
      PROVE  UNCHANGED <<handler, router>>
  BY <1>3, StreamQuiet
<1>4. CASE UNCHANGED vars
  BY <1>4 DEF vars, routerVars
<1>. QED
  BY <1>1, <1>2, <1>3, <1>4 DEF Next, StreamStep

LEMMA AdmissionStep == TcpInv /\ AdmissionInv /\ [Next]_vars => AdmissionInv'
<1>. SUFFICES ASSUME TcpInv, AdmissionInv, [Next]_vars PROVE AdmissionInv'
  OBVIOUS
<1>1. CASE router # "none"
  BY <1>1, AdmissionFinal DEF AdmissionInv
<1>2. CASE UNCHANGED vars
  BY <1>2 DEF vars, routerVars, acceptVars, forwardVars, AdmissionInv, Untouched
<1>. QED
  BY <1>1, <1>2, AdmissionUntouched

\* handle_conversation: whatever a client sends, nothing of it is read, routed or served
\* before the answer with status 200.
THEOREM NotServedBeforeAdmission == Spec => []NothingBeforeAdmission
<1>1. AdmissionInv => NothingBeforeAdmission
  BY DEF AdmissionInv, NothingBeforeAdmission
<1>2. Init => AdmissionInv
  BY AdmissionInitially
<1>. QED
  BY <1>1, <1>2, TcpInitially, TcpStep, AdmissionStep, PTL DEF Spec

\* The end of handle_conversation, and who starts tasks.
LEMMA EndStep ==
    AdmissionInv /\ EndInv /\ [Next]_vars =>
        /\ EndInv'
        /\ handler # "serving" => \A s \in Streams : task[s] = "none" => task'[s] = "none"
<1>. SUFFICES ASSUME AdmissionInv, EndInv, [Next]_vars
              PROVE  /\ EndInv'
                     /\ handler # "serving" =>
                           \A s \in Streams : task[s] = "none" => task'[s] = "none"
  OBVIOUS
<1>1. CASE \/ Admit \/ Leave \/ BreakLoop \/ Drain \/ AcceptNext \/ AcceptWake
  BY <1>1 DEF Admit, Leave, BreakLoop, Drain, AcceptNext, Pop, AcceptWake, EndInv, acceptVars
<1>2. CASE Confirm
  BY <1>2 DEF Confirm, EndInv
<1>3. CASE Adopt
  BY <1>3 DEF Adopt, EndInv, TaskState
<1>4. CASE RouterStep \/ DatagramsEnd \/ CloseConnection
  BY <1>4 DEF RouterStep, RouterAccept, RouterRoute, RouterNotify, DatagramsEnd,
     CloseConnection, EndInv, acceptVars
<1>5. ASSUME NEW s, StreamStep(s)
      PROVE  EndInv' /\ \A x \in Streams : task[x] = "none" => task'[x] = "none"
  <2>1. UNCHANGED <<handler, registered, link, acceptor>>
    BY <1>5, StreamQuiet
  <2>2. CASE UNCHANGED task
    BY <2>1, <2>2 DEF EndInv
  <2>3. ASSUME NEW then \in {"run", "writing", "done"}, task' = [task EXCEPT ![s] = then],
               task[s] \in {"run", "writing"}
        PROVE  EndInv' /\ \A x \in Streams : task[x] = "none" => task'[x] = "none"
    BY <2>1, <2>3 DEF EndInv, TaskState
  <2>. QED
    BY <1>5, <2>2, <2>3, StreamTask
<1>6. CASE UNCHANGED vars
  BY <1>6 DEF vars, acceptVars, EndInv
<1>. QED
  BY <1>1, <1>2, <1>3, <1>4, <1>5, <1>6 DEF Next, HandlerStep, StreamStep

\* handle_conversation and serve_connection: on every path, the admission refused, an
\* error of the accept loop, the end of the connection, the conversation is unregistered
\* and the connection closed when the handler has returned.
THEOREM ConversationGone == Spec => []EndedMeansGone
<1>1. EndInv => EndedMeansGone
  BY DEF EndInv, EndedMeansGone
<1>. QED
  BY <1>1, AdmissionInitially, TcpInitially, TcpStep, AdmissionStep, EndStep, PTL DEF Spec

\* No task is started for a client that is not admitted or a conversation that has
\* failed or ended, whatever is left in its accept queue.
THEOREM TasksOnlyWhileServed == Spec => TasksStartWhileServed
BY AdmissionInitially, TcpInitially, TcpStep, AdmissionStep, EndStep, PTL
DEF Spec, TasksStartWhileServed

-----------------------------------------------------------------------------
(* The accept queue *)

LEMMA ForgottenStep == EndInv /\ NoChannelForgotten /\ [Next]_vars => NoChannelForgotten'
<1>. SUFFICES ASSUME EndInv, NoChannelForgotten, [Next]_vars PROVE NoChannelForgotten'
  OBVIOUS
<1>1. CASE \/ Admit \/ Leave \/ BreakLoop \/ Drain \/ AcceptNext \/ AcceptWake \/ Confirm
           \/ Adopt
  BY <1>1 DEF Admit, Leave, BreakLoop, Drain, AcceptNext, Pop, AcceptWake, Confirm, Adopt,
     NoChannelForgotten, routerVars, acceptVars
<1>2. CASE RouterStep \/ DatagramsEnd \/ CloseConnection
  BY <1>2 DEF RouterStep, RouterAccept, RouterRoute, RouterNotify, DatagramsEnd,
     CloseConnection, NoChannelForgotten, routerVars, acceptVars
<1>3. ASSUME NEW s, StreamStep(s)
      PROVE  UNCHANGED <<acceptor, queue, permit, router>>
  BY <1>3, StreamQuiet
<1>4. CASE UNCHANGED vars
  BY <1>4 DEF vars, routerVars, acceptVars, NoChannelForgotten
<1>5. CASE UNCHANGED <<acceptor, queue, permit, router>>
  BY <1>5 DEF NoChannelForgotten
<1>. QED
  BY <1>1, <1>2, <1>3, <1>4, <1>5 DEF Next, HandlerStep, StreamStep

\* AcceptQueue: the accept loop never sleeps beside a channel unless the permit that
\* wakes it is there or the router is about to give it, for any number of streams and in
\* every interleaving of add and wait_next.
THEOREM ChannelsNotForgotten == Spec => []NoChannelForgotten
<1>1. Init => NoChannelForgotten
  BY DEF Init, NoChannelForgotten
<1>. QED
  BY <1>1, AdmissionInitially, TcpInitially, TcpStep, AdmissionStep, EndStep, ForgottenStep,
     PTL DEF Spec

-----------------------------------------------------------------------------
(* One place for each stream *)

LEMMA AppendOnce ==
    ASSUME NEW S, NEW q \in Seq(S), NEW s \in S, s \notin In(q), Once(q)
    PROVE  /\ Append(q, s) \in Seq(S)
           /\ Once(Append(q, s))
           /\ In(Append(q, s)) = In(q) \cup {s}
<1>. DEFINE t == Append(q, s)
<1>1. /\ t \in Seq(S) /\ Len(t) = Len(q) + 1 /\ Len(q) \in Nat
      /\ \A i \in 1 .. Len(q) : t[i] = q[i]
      /\ t[Len(q) + 1] = s
  OBVIOUS
<1>. HIDE DEF t
<1>2. \A i \in 1 .. Len(t) : i \in 1 .. Len(q) \/ i = Len(q) + 1
  BY <1>1
<1>3. \A i \in 1 .. Len(q) : q[i] # s
  BY DEF In
<1>4. Once(t)
  BY <1>1, <1>2, <1>3 DEF Once
<1>5. In(t) = In(q) \cup {s}
  <2>1. In(t) \subseteq In(q) \cup {s}
    BY <1>1, <1>2 DEF In
  <2>2. s \in In(t)
    <3>1. Len(q) + 1 \in 1 .. Len(t)
      BY <1>1
    <3>. QED
      BY <1>1, <3>1 DEF In
  <2>3. In(q) \subseteq In(t)
    <3>. SUFFICES ASSUME NEW i \in 1 .. Len(q) PROVE q[i] \in In(t)
      BY DEF In
    <3>1. i \in 1 .. Len(t) /\ t[i] = q[i]
      BY <1>1
    <3>. QED
      BY <3>1 DEF In
  <2>. QED
    BY <2>1, <2>2, <2>3
<1>. QED
  BY <1>1, <1>4, <1>5 DEF t

LEMMA TailOnce ==
    ASSUME NEW S, NEW q \in Seq(S), q # <<>>, Once(q)
    PROVE  /\ Tail(q) \in Seq(S) /\ Head(q) \in S
           /\ Once(Tail(q))
           /\ Head(q) \in In(q)
           /\ In(Tail(q)) = In(q) \ {Head(q)}
<1>. DEFINE t == Tail(q)
<1>1. /\ t \in Seq(S) /\ Head(q) \in S /\ Head(q) = q[1]
      /\ Len(q) \in Nat /\ Len(q) > 0 /\ Len(t) = Len(q) - 1
      /\ \A i \in 1 .. Len(t) : t[i] = q[i + 1]
  OBVIOUS
<1>. HIDE DEF t
<1>2. Once(t)
  BY <1>1 DEF Once
<1>3. Head(q) \in In(q)
  <2>1. 1 \in 1 .. Len(q)
    BY <1>1
  <2>. QED
    BY <1>1, <2>1 DEF In
<1>4. In(t) \subseteq In(q) \ {Head(q)}
  <2>. SUFFICES ASSUME NEW i \in 1 .. Len(t) PROVE t[i] \in In(q) \ {Head(q)}
    BY DEF In
  <2>1. i + 1 \in 1 .. Len(q) /\ 1 \in 1 .. Len(q) /\ i + 1 # 1 /\ t[i] = q[i + 1]
    BY <1>1
  <2>2. q[i + 1] # q[1]
    BY <2>1 DEF Once
  <2>. QED
    BY <1>1, <2>1, <2>2 DEF In
<1>5. In(q) \ {Head(q)} \subseteq In(t)
  <2>. SUFFICES ASSUME NEW i \in 1 .. Len(q), q[i] # q[1] PROVE q[i] \in In(t)
    BY <1>1 DEF In
  <2>1. i - 1 \in 1 .. Len(t) /\ (i - 1) + 1 = i
    BY <1>1
  <2>2. t[i - 1] = q[i]
    BY <1>1, <2>1
  <2>. QED
    BY <2>1, <2>2 DEF In
<1>. QED
  BY <1>1, <1>2, <1>3, <1>4, <1>5 DEF t

LEMMA PlaceInit == Init => PlaceInv
BY DEF Init, PlaceInv, TaskState, Once, In

LEMMA PlaceQuiet ==
    ASSUME PlaceInv, UNCHANGED <<kind, task, arrived, queue, reading, confirming>>,
           router' = "reading" <=> router = "reading",
           acceptor' \in {"confirm", "adopt"} <=> acceptor \in {"confirm", "adopt"}
    PROVE  PlaceInv'
<1>1. /\ In(arrived') = In(arrived) /\ (Once(arrived))' = Once(arrived)
      /\ In(queue') = In(queue) /\ (Once(queue))' = Once(queue)
  BY DEF In, Once
<1>. QED
  BY <1>1 DEF PlaceInv

LEMMA PlaceOpen ==
    ASSUME PlaceInv, NEW s \in Streams, OpenStream(s)
    PROVE  PlaceInv'
<1>1. /\ arrived' = Append(arrived, s) /\ ~Opened(s)
      /\ UNCHANGED <<kind, task, queue, router, reading, acceptor, confirming>>
  BY DEF OpenStream, acceptVars
<1>2. s \notin In(arrived) \cup In(queue) \cup {reading, confirming} /\ task[s] = "none"
  BY <1>1 DEF Opened, In
<1>3. /\ arrived' \in Seq(Streams) /\ Once(arrived')
      /\ In(arrived') = In(arrived) \cup {s}
  BY <1>1, <1>2, AppendOnce DEF PlaceInv
<1>4. In(queue') = In(queue) /\ (Once(queue))' = Once(queue)
  BY <1>1 DEF In, Once
<1>. QED
  BY <1>1, <1>2, <1>3, <1>4 DEF PlaceInv

LEMMA PlaceAccept ==
    ASSUME PlaceInv, RouterAccept
    PROVE  PlaceInv'
<1>1. /\ router = "accept" /\ UNCHANGED <<kind, task, queue, acceptor, confirming>>
  BY DEF RouterAccept, acceptVars
<1>2. In(queue') = In(queue) /\ (Once(queue))' = Once(queue)
  BY <1>1 DEF In, Once
<1>3. CASE arrived # <<>> /\ reading' = Head(arrived) /\ arrived' = Tail(arrived)
           /\ router' = "reading"
  <2>1. /\ arrived' \in Seq(Streams) /\ reading' \in Streams /\ Once(arrived')
        /\ reading' \in In(arrived) /\ In(arrived') = In(arrived) \ {reading'}
    BY <1>3, TailOnce DEF PlaceInv
  <2>2. reading' # None
    BY <2>1, RustServerAssumption DEF RustServerAssumption
  <2>. QED
    BY <1>1, <1>2, <1>3, <2>1, <2>2 DEF PlaceInv
<1>4. CASE router' = "ended" /\ UNCHANGED <<reading, arrived>>
  <2>1. In(arrived') = In(arrived) /\ (Once(arrived))' = Once(arrived)
    BY <1>4 DEF In, Once
  <2>. QED
    BY <1>1, <1>2, <1>4, <2>1 DEF PlaceInv
<1>. QED
  BY <1>3, <1>4 DEF RouterAccept

LEMMA PlaceRoute ==
    ASSUME PlaceInv, RouterRoute
    PROVE  PlaceInv'
<1>1. /\ router = "reading" /\ reading' = None
      /\ UNCHANGED <<kind, task, arrived, acceptor, confirming>>
  BY DEF RouterRoute
<1>2. In(arrived') = In(arrived) /\ (Once(arrived))' = Once(arrived)
  BY <1>1 DEF In, Once
<1>3. None \notin Streams
  BY RustServerAssumption DEF RustServerAssumption
<1>4. None \notin In(arrived) \cup In(queue)
  BY <1>3 DEF PlaceInv, In
<1>5. CASE queue' = Append(queue, reading) /\ router' = "notify"
  <2>1. reading \in Streams /\ reading \notin In(queue)
    BY <1>1 DEF PlaceInv
  <2>2. queue' \in Seq(Streams) /\ Once(queue') /\ In(queue') = In(queue) \cup {reading}
    BY <1>5, <2>1, AppendOnce DEF PlaceInv
  <2>3. reading # confirming /\ reading # None
    BY <1>1 DEF PlaceInv
  <2>. QED
    BY <1>1, <1>2, <1>3, <1>4, <1>5, <2>1, <2>2, <2>3 DEF PlaceInv
<1>6. CASE router' = "ended" /\ UNCHANGED queue
  <2>1. In(queue') = In(queue) /\ (Once(queue))' = Once(queue)
    BY <1>6 DEF In, Once
  <2>. QED
    BY <1>1, <1>2, <1>3, <1>4, <1>6, <2>1 DEF PlaceInv
<1>. QED
  BY <1>5, <1>6 DEF RouterRoute

LEMMA PlaceNext ==
    ASSUME PlaceInv, AcceptNext
    PROVE  PlaceInv'
<1>1. acceptor \in {"look", "wait"} /\ UNCHANGED <<kind, task, arrived, router, reading>>
  BY DEF AcceptNext, routerVars
<1>2. In(arrived') = In(arrived) /\ (Once(arrived))' = Once(arrived)
  BY <1>1 DEF In, Once
<1>3. CASE Pop
  <2>1. /\ queue' \in Seq(Streams) /\ confirming' \in Streams /\ Once(queue')
        /\ confirming' \in In(queue) /\ In(queue') = In(queue) \ {confirming'}
    BY <1>3, TailOnce DEF Pop, PlaceInv
  <2>2. confirming' # None /\ acceptor' = "confirm"
    BY <1>3, <2>1, RustServerAssumption DEF RustServerAssumption, Pop
  <2>. QED
    BY <1>1, <1>2, <2>1, <2>2 DEF PlaceInv
<1>4. CASE UNCHANGED <<queue, confirming>> /\ acceptor' \in {"wait", "parked"}
  <2>1. In(queue') = In(queue) /\ (Once(queue))' = Once(queue)
    BY <1>4 DEF In, Once
  <2>. QED
    BY <1>1, <1>2, <1>4, <2>1 DEF PlaceInv
<1>. QED
  BY <1>3, <1>4 DEF AcceptNext

\* The channel gets its task, or is refused or dropped: it leaves confirming.
LEMMA PlaceConfirmed ==
    ASSUME PlaceInv, confirming' = None, acceptor' \notin {"confirm", "adopt"},
           UNCHANGED <<kind, arrived, queue, router, reading>>,
           \/ task' = task
           \/ confirming # None /\ task' = [task EXCEPT ![confirming] = "run"]
    PROVE  PlaceInv'
<1>1. /\ In(arrived') = In(arrived) /\ (Once(arrived))' = Once(arrived)
      /\ In(queue') = In(queue) /\ (Once(queue))' = Once(queue)
  BY DEF In, Once
<1>2. None \notin Streams
  BY RustServerAssumption DEF RustServerAssumption
<1>3. None \notin In(arrived) \cup In(queue)
  BY <1>2 DEF PlaceInv, In
<1>4. task' \in [Streams -> TaskState]
  BY DEF PlaceInv, TaskState
<1>5. \A s \in Streams : task'[s] # "none" => task[s] # "none" \/ s = confirming
  BY DEF PlaceInv
<1>6. \A s \in Streams : task'[s] # "none" =>
          s \notin In(arrived) \cup In(queue) \cup {reading, None}
  BY <1>2, <1>5 DEF PlaceInv
<1>7. /\ UNCHANGED <<kind, reading, router>> /\ reading \in Streams \cup {None}
      /\ In(arrived) \cap In(queue) = {} /\ reading \notin In(arrived) \cup In(queue)
      /\ router = "reading" <=> reading # None
      /\ arrived' \in Seq(Streams) /\ queue' \in Seq(Streams) /\ Once(arrived) /\ Once(queue)
      /\ kind' \in Assignments
  BY DEF PlaceInv
<1>. QED
  BY <1>1, <1>3, <1>4, <1>6, <1>7 DEF PlaceInv

\* The task goes on or ends.
LEMMA PlaceTask ==
    ASSUME PlaceInv, NEW s \in Streams, task[s] \in {"run", "writing"},
           NEW then \in {"run", "writing", "done"}, task' = [task EXCEPT ![s] = then],
           UNCHANGED <<kind, arrived, queue, router, reading, acceptor, confirming>>
    PROVE  PlaceInv' /\ KeepsTasks
<1>1. /\ In(arrived') = In(arrived) /\ (Once(arrived))' = Once(arrived)
      /\ In(queue') = In(queue) /\ (Once(queue))' = Once(queue)
  BY DEF In, Once
<1>2. /\ task' \in [Streams -> TaskState]
      /\ \A x \in Streams : task'[x] # "none" => task[x] # "none"
      /\ KeepsTasks
  BY DEF PlaceInv, TaskState, KeepsTasks
<1>. QED
  BY <1>1, <1>2 DEF PlaceInv

LEMMA PlaceStep == AdmissionInv /\ PlaceInv /\ [Next]_vars => PlaceInv' /\ KeepsTasks
<1>. SUFFICES ASSUME AdmissionInv, PlaceInv, [Next]_vars PROVE PlaceInv' /\ KeepsTasks
  OBVIOUS
<1>0. UNCHANGED task => KeepsTasks
  BY DEF KeepsTasks
<1>1. CASE Leave \/ Drain \/ DatagramsEnd \/ CloseConnection
  BY <1>0, <1>1, PlaceQuiet DEF Leave, Drain, DatagramsEnd, CloseConnection, routerVars,
     acceptVars
<1>2. CASE AcceptWake
  <2>1. /\ acceptor = "parked" /\ acceptor' = "wait"
        /\ UNCHANGED <<kind, task, arrived, queue, router, reading, confirming>>
    BY <1>2 DEF AcceptWake, routerVars
  <2>. QED
    BY <1>0, <2>1, PlaceQuiet
<1>3. CASE Admit
  <2>1. /\ router = "none" /\ acceptor = "none" /\ router' = "accept" /\ acceptor' = "look"
        /\ UNCHANGED <<kind, task, arrived, queue, reading, confirming>>
    BY <1>3 DEF Admit, AdmissionInv, Untouched
  <2>. QED
    BY <1>0, <2>1, PlaceQuiet
<1>4. CASE AcceptNext
  BY <1>0, <1>4, PlaceNext DEF AcceptNext
<1>5. CASE RouterAccept \/ RouterRoute
  BY <1>0, <1>5, PlaceAccept, PlaceRoute DEF RouterAccept, RouterRoute
<1>6. CASE RouterNotify
  <2>1. /\ router = "notify" /\ router' = "accept"
        /\ UNCHANGED <<kind, task, arrived, queue, reading, acceptor, confirming>>
    BY <1>6 DEF RouterNotify
  <2>. QED
    BY <1>0, <2>1, PlaceQuiet
<1>7. CASE BreakLoop
  <2>1. /\ confirming' = None /\ acceptor' \notin {"confirm", "adopt"}
        /\ UNCHANGED <<kind, task, arrived, queue, router, reading>>
    BY <1>7 DEF BreakLoop, routerVars
  <2>. QED
    BY <1>0, <2>1, PlaceConfirmed
<1>8. CASE Confirm
  <2>1. UNCHANGED <<kind, task, arrived, queue, router, reading>> /\ acceptor = "confirm"
    BY <1>8 DEF Confirm, routerVars
  <2>2. CASE confirming' = None /\ acceptor' = "none"
    BY <1>0, <2>1, <2>2, PlaceConfirmed
  <2>3. CASE confirming' = confirming /\ acceptor' = "adopt"
    BY <1>0, <2>1, <2>3, PlaceQuiet
  <2>. QED
    BY <1>8, <2>2, <2>3 DEF Confirm
<1>9. CASE Adopt
  <2>1. /\ acceptor = "adopt" /\ confirming' = None /\ acceptor' = "look"
        /\ UNCHANGED <<kind, arrived, queue, router, reading>>
        /\ task' = [task EXCEPT ![confirming] = "run"]
    BY <1>9 DEF Adopt, routerVars
  <2>2. confirming \in Streams /\ confirming # None /\ task[confirming] = "none"
    BY <2>1 DEF PlaceInv
  <2>3. PlaceInv'
    BY <2>1, <2>2, PlaceConfirmed
  <2>4. KeepsTasks
    BY <2>1, <2>2 DEF PlaceInv, KeepsTasks
  <2>. QED
    BY <2>3, <2>4
<1>10. ASSUME NEW s \in DOMAIN kind, StreamStep(s)
       PROVE  PlaceInv' /\ KeepsTasks
  <2>1. s \in Streams
    BY StreamsOfKind DEF PlaceInv
  <2>2. CASE OpenStream(s)
    BY <1>0, <2>1, <2>2, PlaceOpen DEF OpenStream
  <2>3. CASE ~OpenStream(s)
    <3>1. UNCHANGED <<kind, queue, router, reading, acceptor, confirming>>
      BY <1>10, StreamQuiet
    <3>2. UNCHANGED arrived
      BY <1>10, <2>3 DEF StreamStep, ClientStep, StopStream, SendData, ParkDatagram,
         RouteDatagram, OutsideStep, SessionWrites, SessionWritten, TcpWrite, TcpRemote,
         DatagramFits, PlainTask, ForwardStep, TcpConnect, TcpTo, TcpFrom, TcpDone, UdpBind,
         UdpTo, UdpDone, routerVars
    <3>3. CASE UNCHANGED task
      BY <1>0, <3>1, <3>2, <3>3, PlaceQuiet
    <3>4. ASSUME NEW then \in {"run", "writing", "done"}, task[s] \in {"run", "writing"},
                 task' = [task EXCEPT ![s] = then]
          PROVE  PlaceInv' /\ KeepsTasks
      BY <2>1, <3>1, <3>2, <3>4, PlaceTask
    <3>. QED
      BY <1>10, <3>3, <3>4, StreamTask
  <2>. QED
    BY <2>2, <2>3
<1>11. CASE UNCHANGED vars
  <2>1. UNCHANGED <<kind, task, arrived, queue, router, reading, acceptor, confirming>>
    BY <1>11 DEF vars, routerVars, acceptVars
  <2>. QED
    BY <1>0, <2>1, PlaceQuiet
<1>. QED
  BY <1>1, <1>2, <1>3, <1>4, <1>5, <1>6, <1>7, <1>8, <1>9, <1>10, <1>11
  DEF Next, HandlerStep, RouterStep, StreamStep

\* accept_and_route_channels_forever, AcceptQueue and the accept loop of
\* handle_conversation: however streams, headers, confirmations and resets interleave, a
\* channel that has had its task never gets another.
THEOREM ChannelsServedOnce == Spec => TaskStartsOnce
BY TcpInitially, TcpStep, AdmissionInitially, AdmissionStep, PlaceInit, PlaceStep, PTL
DEF Spec, TaskStartsOnce

-----------------------------------------------------------------------------
(* The datagrams of the channels *)

InboxState == [sent : Nat, parked : 0..1, queued : 0..QueueSize,
               reader : {"none", "run", "done"}]

\* The datagram with which the router of datagrams waits for room.
Held(s) == IF datagrams = s THEN 1 ELSE 0

\* Only the queue of a UDP channel has a reader.
InboxInv ==
    /\ inbox \in [Streams -> InboxState]
    /\ datagrams \in Streams \cup {"none", "run", "ended", "replaced"}
    /\ \A s \in Streams : inbox[s].reader # "none" => kind[s] = "udp"
    /\ \A s \in Streams : inbox[s].parked + inbox[s].queued + Held(s) <= inbox[s].sent

\* No queue of a channel is over its capacity, and what is parked for it, in it and with
\* the router was sent by the client.
DatagramsBounded ==
    \A s \in Streams :
        /\ inbox[s].queued <= QueueSize
        /\ inbox[s].parked + inbox[s].queued + Held(s) <= inbox[s].sent

\* No step, not even the end of the connection or of the channel, gets the router of
\* datagrams out of a queue that nobody reads.
StuckForEver == [][DatagramsStuck => DatagramsStuck']_vars

LEMMA Markers ==
    /\ QueueSize \in Nat /\ QueueSize # 0
    /\ \A s \in Streams : s \notin {"none", "run", "ended", "replaced"}
BY RustServerAssumption DEF RustServerAssumption

LEMMA InboxInitially == Init => InboxInv
BY Markers DEF Init, InboxInv, InboxState, Held

LEMMA InboxUnchanged ==
    ASSUME InboxInv, UNCHANGED <<kind, inbox, datagrams>>
    PROVE  InboxInv' /\ (DatagramsStuck => DatagramsStuck')
BY DEF InboxInv, DatagramsStuck, NeverRead, Held

\* The tasks that the routers start with, or end with, wait for no queue.
LEMMA RouterInbox ==
    ASSUME InboxInv, datagrams \in {"none", "run"}, datagrams' \in {"run", "ended"},
           UNCHANGED <<kind, inbox>>
    PROVE  InboxInv' /\ ~DatagramsStuck
<1>1. \A s \in Streams : Held(s) = 0 /\ Held(s)' = 0
  BY Markers DEF Held
<1>2. ~DatagramsStuck
  BY Markers DEF DatagramsStuck
<1>. QED
  BY <1>1, <1>2 DEF InboxInv

\* The counts of one stream.
LEMMA Counts ==
    ASSUME InboxInv, NEW s \in Streams
    PROVE  /\ inbox[s] \in InboxState
           /\ inbox[s].sent \in Nat /\ inbox[s].parked \in 0..1
           /\ inbox[s].queued \in 0..QueueSize /\ inbox[s].queued \in Nat
           /\ Held(s) \in 0..1
           /\ inbox[s].parked + inbox[s].queued + Held(s) <= inbox[s].sent
<1>1. inbox[s] \in InboxState /\ Held(s) \in 0..1
  BY DEF InboxInv, Held
<1>2. inbox[s].parked + inbox[s].queued + Held(s) <= inbox[s].sent
  BY DEF InboxInv
<1>3. /\ inbox[s].sent \in Nat /\ inbox[s].parked \in 0..1
      /\ inbox[s].queued \in 0..QueueSize
  BY <1>1 DEF InboxState
<1>. QED
  BY <1>1, <1>2, <1>3, Markers

\* A step that changes the datagrams of one stream.
LEMMA OneInbox ==
    ASSUME InboxInv, NEW s \in Streams, kind' = kind,
           inbox' \in [Streams -> InboxState],
           datagrams' \in Streams \cup {"none", "run", "ended", "replaced"},
           \A x \in Streams : x # s => inbox'[x] = inbox[x] /\ Held(x)' = Held(x),
           inbox'[s].parked + inbox'[s].queued + Held(s)' <= inbox'[s].sent,
           inbox'[s].reader # "none" => kind[s] = "udp"
    PROVE  InboxInv'
<1>1. ASSUME NEW x \in Streams
      PROVE  inbox'[x].parked + inbox'[x].queued + Held(x)' <= inbox'[x].sent
  <2>1. CASE x # s
    <3>1. inbox'[x] = inbox[x] /\ Held(x)' = Held(x)
      BY <2>1
    <3>. QED
      BY <3>1 DEF InboxInv
  <2>. QED
    BY <2>1
<1>2. \A x \in Streams : inbox'[x].reader # "none" => kind'[x] = "udp"
  BY DEF InboxInv
<1>. QED
  BY <1>1, <1>2 DEF InboxInv

\* The router stays stuck when its queue is not the one that changes.
LEMMA StillStuck ==
    ASSUME InboxInv, NEW s \in Streams, kind' = kind, datagrams # s, datagrams' = datagrams,
           \A x \in Streams : x # s => inbox'[x] = inbox[x], DatagramsStuck
    PROVE  DatagramsStuck'
<1>1. CASE datagrams = "replaced"
  BY <1>1 DEF DatagramsStuck
<1>2. CASE datagrams # "replaced"
  <2>1. PICK x \in Streams : /\ datagrams = x /\ inbox[x].queued = QueueSize
                             /\ NeverRead(x)
    BY <1>2 DEF DatagramsStuck
  <2>2. inbox'[x] = inbox[x]
    BY <2>1
  <2>. QED
    BY <2>1, <2>2 DEF DatagramsStuck, NeverRead
<1>. QED
  BY <1>1, <1>2

\* add_channel: the parked datagram takes the place of what is in the queue of the channel,
\* and the router of datagrams that waits for that queue waits for no channel's.
LEMMA AdoptInbox ==
    ASSUME InboxInv, PlaceInv, Adopt
    PROVE  InboxInv' /\ (DatagramsStuck => DatagramsStuck')
<1>1. PICK s \in Streams : s = confirming
  BY DEF Adopt, PlaceInv
<1>2. kind' = kind
  BY DEF Adopt
<1>3. CASE UNCHANGED <<inbox, datagrams>>
  BY <1>2, <1>3, InboxUnchanged
<1>4. CASE /\ inbox[s].parked > 0
           /\ inbox' = [inbox EXCEPT ![s].parked = 0, ![s].queued = inbox[s].parked]
           /\ datagrams' = IF datagrams = s THEN "replaced" ELSE datagrams
  <2>1. inbox[s].parked = 1 /\ inbox[s].sent >= 1 /\ 1 \in 0..QueueSize
    BY <1>4, Counts, Markers
  <2>2. inbox' \in [Streams -> InboxState]
    <3>1. inbox[s] \in InboxState /\ 0 \in 0..1
      BY Counts
    <3>2. [[inbox[s] EXCEPT !.parked = 0] EXCEPT !.queued = 1] \in InboxState
      BY <2>1, <3>1 DEF InboxState
    <3>. QED
      BY <1>4, <2>1, <3>2 DEF InboxInv
  <2>3. /\ \A x \in Streams : x # s => inbox'[x] = inbox[x]
        /\ inbox'[s].sent = inbox[s].sent /\ inbox'[s].parked = 0 /\ inbox'[s].queued = 1
        /\ inbox'[s].reader = inbox[s].reader
    BY <1>4, <2>1 DEF InboxInv, InboxState
  <2>4. /\ datagrams' \in Streams \cup {"none", "run", "ended", "replaced"}
        /\ \A x \in Streams : x # s => Held(x)' = Held(x)
        /\ Held(s)' = 0
    BY <1>4, Markers DEF InboxInv, Held
  <2>5. inbox'[s].parked + inbox'[s].queued + Held(s)' <= inbox'[s].sent
    BY <2>1, <2>3, <2>4, Counts
  <2>6. inbox'[s].reader # "none" => kind[s] = "udp"
    BY <2>3 DEF InboxInv
  <2>7. InboxInv'
    BY <1>2, <2>2, <2>3, <2>4, <2>5, <2>6, OneInbox
  <2>8. CASE datagrams = s
    BY <1>4, <2>7, <2>8 DEF DatagramsStuck
  <2>9. CASE datagrams # s
    BY <1>2, <1>4, <2>3, <2>7, <2>9, StillStuck
  <2>. QED
    BY <2>8, <2>9
<1>. QED
  BY <1>1, <1>3, <1>4 DEF Adopt

\* A datagram is parked, or goes into a queue that has room; the router waits with one for
\* which there is none.
LEMMA RouteInbox ==
    ASSUME InboxInv, NEW s \in Streams, ParkDatagram(s) \/ RouteDatagram(s)
    PROVE  InboxInv' /\ ~DatagramsStuck
<1>1. datagrams = "run" /\ kind' = kind /\ \A x \in Streams : Held(x) = 0
  BY Markers DEF ParkDatagram, RouteDatagram, Held
<1>2. ~DatagramsStuck
  BY <1>1, Markers DEF DatagramsStuck
<1>3. inbox[s].reader # "none" => kind[s] = "udp"
  BY DEF InboxInv
<1>4. CASE /\ inbox' = [inbox EXCEPT ![s].sent = @ + 1, ![s].parked = 1]
           /\ datagrams' = datagrams
  <2>0. inbox[s] \in InboxState /\ inbox[s].sent + 1 \in Nat /\ 1 \in 0..1
    BY Counts
  <2>1. inbox' \in [Streams -> InboxState]
    <3>1. [[inbox[s] EXCEPT !.sent = @ + 1] EXCEPT !.parked = 1] \in InboxState
      BY <2>0 DEF InboxState
    <3>. QED
      BY <1>4, <3>1 DEF InboxInv
  <2>2. /\ \A x \in Streams : x # s => inbox'[x] = inbox[x]
        /\ inbox'[s].sent = inbox[s].sent + 1 /\ inbox'[s].parked = 1
        /\ inbox'[s].queued = inbox[s].queued /\ inbox'[s].reader = inbox[s].reader
    BY <1>4 DEF InboxInv, InboxState
  <2>3. \A x \in Streams : Held(x)' = 0
    BY <1>1, <1>4, Markers DEF Held
  <2>4. inbox'[s].parked + inbox'[s].queued + Held(s)' <= inbox'[s].sent
    BY <1>1, <2>2, <2>3, Counts
  <2>. QED
    BY <1>1, <1>2, <1>3, <1>4, <2>1, <2>2, <2>3, <2>4, OneInbox
<1>5. CASE /\ inbox[s].queued < QueueSize /\ datagrams' = datagrams
           /\ inbox' = [inbox EXCEPT ![s].sent = @ + 1, ![s].queued = @ + 1]
  <2>0. inbox[s].queued + 1 \in 0..QueueSize
    BY <1>5, Counts, Markers
  <2>1. inbox' \in [Streams -> InboxState]
    BY <1>5, <2>0 DEF InboxInv, InboxState
  <2>2. /\ \A x \in Streams : x # s => inbox'[x] = inbox[x]
        /\ inbox'[s].sent = inbox[s].sent + 1 /\ inbox'[s].parked = inbox[s].parked
        /\ inbox'[s].queued = inbox[s].queued + 1 /\ inbox'[s].reader = inbox[s].reader
    BY <1>5 DEF InboxInv, InboxState
  <2>3. \A x \in Streams : Held(x)' = 0
    BY <1>1, <1>5, Markers DEF Held
  <2>4. inbox'[s].parked + inbox'[s].queued + Held(s)' <= inbox'[s].sent
    BY <1>1, <2>2, <2>3, Counts
  <2>. QED
    BY <1>1, <1>2, <1>3, <1>5, <2>1, <2>2, <2>3, <2>4, OneInbox
<1>6. CASE datagrams' = s /\ inbox' = [inbox EXCEPT ![s].sent = @ + 1]
  <2>1. inbox' \in [Streams -> InboxState]
    BY <1>6 DEF InboxInv, InboxState
  <2>2. /\ \A x \in Streams : x # s => inbox'[x] = inbox[x]
        /\ inbox'[s].sent = inbox[s].sent + 1 /\ inbox'[s].parked = inbox[s].parked
        /\ inbox'[s].queued = inbox[s].queued /\ inbox'[s].reader = inbox[s].reader
    BY <1>6 DEF InboxInv, InboxState
  <2>3. \A x \in Streams : Held(x)' = IF x = s THEN 1 ELSE 0
    BY <1>6 DEF Held
  <2>4. inbox'[s].parked + inbox'[s].queued + Held(s)' <= inbox'[s].sent
    BY <1>1, <2>2, <2>3, Counts
  <2>. QED
    BY <1>1, <1>2, <1>3, <1>6, <2>1, <2>2, <2>3, <2>4, OneInbox
<1>. QED
  BY <1>4, <1>5, <1>6 DEF ParkDatagram, RouteDatagram

LEMMA FitsInbox ==
    ASSUME InboxInv, NEW s \in Streams, DatagramFits(s)
    PROVE  InboxInv' /\ ~DatagramsStuck
<1>1. /\ datagrams = s /\ datagrams' = "run" /\ inbox[s].queued < QueueSize /\ kind' = kind
      /\ inbox' = [inbox EXCEPT ![s].queued = @ + 1]
  BY DEF DatagramFits
<1>2. ~DatagramsStuck
  <2>1. \A x \in Streams : datagrams = x => x = s
    BY <1>1
  <2>2. inbox[s].queued # QueueSize /\ datagrams # "replaced"
    BY <1>1, Counts, Markers
  <2>. QED
    BY <2>1, <2>2 DEF DatagramsStuck
<1>3. inbox[s].queued + 1 \in 0..QueueSize
  BY <1>1, Counts, Markers
<1>4. inbox' \in [Streams -> InboxState]
  BY <1>1, <1>3 DEF InboxInv, InboxState
<1>5. /\ \A x \in Streams : x # s => inbox'[x] = inbox[x]
      /\ inbox'[s].sent = inbox[s].sent /\ inbox'[s].parked = inbox[s].parked
      /\ inbox'[s].queued = inbox[s].queued + 1 /\ inbox'[s].reader = inbox[s].reader
  BY <1>1 DEF InboxInv, InboxState
<1>6. /\ \A x \in Streams : x # s => Held(x)' = Held(x)
      /\ Held(s) = 1 /\ Held(s)' = 0
  BY <1>1, Markers DEF Held
<1>7. inbox'[s].parked + inbox'[s].queued + Held(s)' <= inbox'[s].sent
  BY <1>5, <1>6, Counts
<1>8. inbox'[s].reader # "none" => kind[s] = "udp"
  BY <1>5 DEF InboxInv
<1>9. InboxInv'
  BY <1>1, <1>4, <1>5, <1>6, <1>7, <1>8, OneInbox
<1>. QED
  BY <1>2, <1>9

\* The reader of a UDP channel starts, takes from its queue, and ends.
LEMMA ReadInbox ==
    ASSUME InboxInv, NEW s \in Streams, UdpBind(s) \/ UdpTo(s)
    PROVE  InboxInv' /\ (DatagramsStuck => DatagramsStuck')
<1>1. /\ inbox[s].reader # "done" /\ datagrams' = datagrams /\ kind' = kind
      /\ kind[s] = "udp"
  BY DEF UdpBind, UdpTo, InboxInv
<1>2. \A x \in Streams : Held(x)' = Held(x)
  BY <1>1 DEF Held
<1>3. ASSUME NEW q \in 0..QueueSize, q <= inbox[s].queued,
             inbox' \in [Streams -> InboxState],
             \A x \in Streams : x # s => inbox'[x] = inbox[x],
             inbox'[s].sent = inbox[s].sent, inbox'[s].parked = inbox[s].parked,
             inbox'[s].queued = q
      PROVE  InboxInv' /\ (DatagramsStuck => DatagramsStuck')
  <2>1. inbox'[s].parked + inbox'[s].queued + Held(s)' <= inbox'[s].sent
    BY <1>2, <1>3, Counts, Markers
  <2>2. datagrams' \in Streams \cup {"none", "run", "ended", "replaced"}
    BY <1>1 DEF InboxInv
  <2>3. InboxInv'
    BY <1>1, <1>2, <1>3, <2>1, <2>2, OneInbox
  <2>4. CASE datagrams = s
    <3>1. ~DatagramsStuck
      BY <1>1, <2>4, Markers DEF DatagramsStuck, NeverRead
    <3>. QED
      BY <2>3, <3>1
  <2>5. CASE datagrams # s
    BY <1>1, <1>3, <2>3, <2>5, StillStuck
  <2>. QED
    BY <2>4, <2>5
<1>4. inbox[s].queued \in 0..QueueSize /\ inbox[s].queued <= inbox[s].queued
  BY Counts, Markers
<1>5. ASSUME NEW how \in {"run", "done"}, inbox' = [inbox EXCEPT ![s].reader = how]
      PROVE  InboxInv' /\ (DatagramsStuck => DatagramsStuck')
  <2>1. inbox' \in [Streams -> InboxState]
    BY <1>5 DEF InboxInv, InboxState
  <2>2. /\ \A x \in Streams : x # s => inbox'[x] = inbox[x]
        /\ inbox'[s].sent = inbox[s].sent /\ inbox'[s].parked = inbox[s].parked
        /\ inbox'[s].queued = inbox[s].queued
    BY <1>5 DEF InboxInv, InboxState
  <2>. QED
    BY <1>3, <1>4, <2>1, <2>2
<1>6. CASE UdpBind(s)
  BY <1>5, <1>6 DEF UdpBind
<1>7. CASE /\ inbox[s].queued > 0
           /\ \/ inbox' = [inbox EXCEPT ![s].queued = @ - 1]
              \/ inbox' = [inbox EXCEPT ![s].queued = @ - 1, ![s].reader = "done"]
  <2>1. inbox[s].queued - 1 \in 0..QueueSize /\ inbox[s].queued - 1 <= inbox[s].queued
    BY <1>7, Counts, Markers
  <2>2. inbox' \in [Streams -> InboxState]
    BY <1>7, <2>1 DEF InboxInv, InboxState
  <2>3. /\ \A x \in Streams : x # s => inbox'[x] = inbox[x]
        /\ inbox'[s].sent = inbox[s].sent /\ inbox'[s].parked = inbox[s].parked
        /\ inbox'[s].queued = inbox[s].queued - 1
    BY <1>7 DEF InboxInv, InboxState
  <2>. QED
    BY <1>3, <2>1, <2>2, <2>3
<1>. QED
  BY <1>5, <1>6, <1>7 DEF UdpTo

LEMMA InboxStep ==
    TcpInv /\ AdmissionInv /\ PlaceInv /\ InboxInv /\ [Next]_vars =>
        InboxInv' /\ (DatagramsStuck => DatagramsStuck')
<1>. SUFFICES ASSUME TcpInv, AdmissionInv, PlaceInv, InboxInv, [Next]_vars
              PROVE  InboxInv' /\ (DatagramsStuck => DatagramsStuck')
  OBVIOUS
<1>1. CASE \/ Leave \/ BreakLoop \/ Drain \/ AcceptNext \/ AcceptWake \/ Confirm \/ RouterStep
           \/ CloseConnection
  <2>1. UNCHANGED <<kind, inbox, datagrams>>
    BY <1>1 DEF Leave, BreakLoop, Drain, AcceptNext, AcceptWake, Confirm, RouterStep,
       RouterAccept, RouterRoute, RouterNotify, CloseConnection, forwardVars
  <2>. QED
    BY <2>1, InboxUnchanged
<1>2. CASE Admit \/ DatagramsEnd
  <2>1. UNCHANGED <<kind, inbox>> /\ datagrams' \in {"run", "ended"}
    BY <1>2 DEF Admit, DatagramsEnd
  <2>2. datagrams \in {"none", "run"}
    BY <1>2 DEF Admit, DatagramsEnd, AdmissionInv, Untouched
  <2>. QED
    BY <2>1, <2>2, RouterInbox
<1>3. CASE Adopt
  BY <1>3, AdoptInbox
<1>4. ASSUME NEW s \in DOMAIN kind, StreamStep(s)
      PROVE  InboxInv' /\ (DatagramsStuck => DatagramsStuck')
  <2>1. s \in Streams
    BY StreamsOfKind DEF PlaceInv
  <2>2. CASE ParkDatagram(s) \/ RouteDatagram(s)
    BY <2>1, <2>2, RouteInbox
  <2>3. CASE DatagramFits(s)
    BY <2>1, <2>3, FitsInbox
  <2>4. CASE UdpBind(s) \/ UdpTo(s)
    BY <2>1, <2>4, ReadInbox
  <2>5. CASE \/ OpenStream(s) \/ StopStream(s) \/ SendData(s) \/ OutsideStep(s) \/ PlainTask(s)
             \/ TcpConnect(s) \/ TcpTo(s) \/ TcpFrom(s) \/ TcpDone(s) \/ UdpDone(s)
    <3>1. UNCHANGED <<kind, inbox, datagrams>>
      BY <2>5 DEF OpenStream, StopStream, SendData, OutsideStep, SessionWrites,
         SessionWritten, TcpWrite, TcpRemote, PlainTask, TcpConnect, TcpTo, TcpFrom, TcpDone,
         UdpDone, forwardVars
    <3>. QED
      BY <3>1, InboxUnchanged
  <2>. QED
    BY <1>4, <2>2, <2>3, <2>4, <2>5 DEF StreamStep, ClientStep, ForwardStep
<1>5. CASE UNCHANGED vars
  <2>1. UNCHANGED <<kind, inbox, datagrams>>
    BY <1>5 DEF vars, forwardVars
  <2>. QED
    BY <2>1, InboxUnchanged
<1>. QED
  BY <1>1, <1>2, <1>3, <1>4, <1>5 DEF Next, HandlerStep, StreamStep

\* route_datagrams and the queues of the channels: for any channels, however the router,
\* add_channel, the readers and the errors of their sockets interleave, no queue exceeds its
\* capacity, and what waits in it, for it or with the router is no more than the client sent.
THEOREM DatagramsStayBounded == Spec => []DatagramsBounded
<1>1. InboxInv => DatagramsBounded
  <2>. SUFFICES ASSUME InboxInv, NEW s \in Streams
                PROVE  /\ inbox[s].queued <= QueueSize
                       /\ inbox[s].parked + inbox[s].queued + Held(s) <= inbox[s].sent
    BY DEF DatagramsBounded
  <2>. QED
    BY Counts, Markers
<1>. QED
  BY <1>1, TcpInitially, TcpStep, AdmissionInitially, AdmissionStep, PlaceInit, PlaceStep,
     InboxInitially, InboxStep, PTL DEF Spec

\* wait_add_datagram looks at nothing but the queue it has taken from the channel: once the
\* router of datagrams waits for one that is full and that nobody reads, be it that of a
\* session or a TCP channel, one whose to_socket has ended or one that add_channel has
\* replaced, it waits for ever, also when the connection has closed.
THEOREM RouterNeverFreed == Spec => StuckForEver
BY TcpInitially, TcpStep, AdmissionInitially, AdmissionStep, PlaceInit, PlaceStep,
   InboxInitially, InboxStep, PTL DEF Spec, StuckForEver
=================================================================================
