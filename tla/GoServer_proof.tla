---------------------------- MODULE GoServer_proof ----------------------------
(***************************************************************************)
(* Proofs about GoServer, for any number of connections, conversations and *)
(* streams and any assignment between them.                                *)
(***************************************************************************)
EXTENDS GoServer, TLAPS

USE ServerAssumption DEF ServerAssumption

LEMMA InitType == Init => TypeOK
BY DEF Init, TypeOK, Replied

LEMMA ServeType ==
    TypeOK /\ (Listen \/ ServeStep \/ Close \/ CloseStep) => TypeOK'
<1> USE DEF TypeOK, connVars, reqVars, acceptVars, streamVars
<1> SUFFICES ASSUME TypeOK, Listen \/ ServeStep \/ Close \/ CloseStep PROVE TypeOK'
  OBVIOUS
<1>1. CASE Listen \/ SetListener \/ AcceptFails \/ Close \/ CloseListener
  BY <1>1 DEF Listen, SetListener, AcceptFails, Close, CloseListener
<1>2. ASSUME NEW k \in Conns, Accept(k) \/ AddConnection(k) \/ CloseConnection(k)
      PROVE  TypeOK'
  BY <1>2 DEF Accept, AddConnection, CloseConnection
<1> QED
  BY <1>1, <1>2 DEF ServeStep, CloseStep

LEMMA ConnType ==
    ASSUME TypeOK, NEW k \in Conns, ConnStep(k) \/ Arrive(k) \/ ConnectionLost(k)
    PROVE  TypeOK'
<1> USE DEF TypeOK, serveVars, reqVars, acceptVars, streamVars
<1>1. CASE Arrive(k)
  BY <1>1 DEF Arrive, Open
<1>2. CASE ConnectionLost(k)
  BY <1>2 DEF ConnectionLost
<1>3. CASE ServeConnection(k)
  BY <1>3 DEF ServeConnection
<1>4. CASE AcceptStreamFails(k)
  BY <1>4 DEF AcceptStreamFails
<1>5. CASE RemoveConnection(k)
  BY <1>5 DEF RemoveConnection
<1> QED
  BY <1>1, <1>2, <1>3, <1>4, <1>5 DEF ConnStep

LEMMA ReqType ==
    ASSUME TypeOK, NEW v \in Convs, ReqStep(v) \/ Request(v)
    PROVE  TypeOK'
<1> USE DEF TypeOK, serveVars, connVars, acceptVars, streamVars, Replied
<1>1. CASE Request(v)
  BY <1>1 DEF Request, Open
<1>2. CASE Refuse(v)
  BY <1>2 DEF Refuse
<1>3. CASE GetOrCreateConversationsManager(v)
  BY <1>3 DEF GetOrCreateConversationsManager
<1>4. CASE WriteHeader(v)
  BY <1>4 DEF WriteHeader
<1>5. CASE AddConversation(v)
  BY <1>5 DEF AddConversation
<1>6. CASE RemoveConversation(v)
  BY <1>6 DEF RemoveConversation
<1>7. CASE AcceptChannel(v)
  <2>1. Head(queue[v]) \in Streams /\ Tail(queue[v]) \in Seq(Streams)
    BY <1>7 DEF AcceptChannel
  <2> QED
    BY <1>7, <2>1 DEF AcceptChannel, reqVars
<1>8. CASE QueueEmpty(v)
  BY <1>8 DEF QueueEmpty
<1>9. CASE Notified(v)
  BY <1>9 DEF Notified
<1>10. CASE ContextDone(v)
  BY <1>10 DEF ContextDone
<1> QED
  BY <1>1, <1>2, <1>3, <1>4, <1>5, <1>6, <1>7, <1>8, <1>9, <1>10 DEF ReqStep

LEMMA StreamType ==
    ASSUME TypeOK, NEW s \in Streams,
           \/ StreamStep(s) \/ OpenStream(s) \/ StreamFails(s)
           \/ ParseHeader(s) \/ ParseForwardingHeader(s) \/ SessionReturns(s)
    PROVE  TypeOK'
<1> USE DEF TypeOK, serveVars, connVars, reqVars, acceptVars
<1>1. CASE OpenStream(s)
  BY <1>1 DEF OpenStream, Open
<1>2. CASE StreamFails(s) \/ ParseHeader(s) \/ ParseForwardingHeader(s)
  BY <1>2 DEF StreamFails, ParseHeader, ParseForwardingHeader
<1>3. CASE GetConversationsManager(s)
  BY <1>3 DEF GetConversationsManager
<1>4. CASE GetConversation(s)
  BY <1>4 DEF GetConversation
<1>5. CASE AddChannel(s)
  <2>1. Append(queue[To[s]], s) \in Seq(Streams)
    OBVIOUS
  <2> QED
    BY <1>5, <2>1 DEF AddChannel
<1>6. CASE Notify(s)
  BY <1>6 DEF Notify
<1>7. CASE SessionReturns(s)
  BY <1>7 DEF SessionReturns, streamVars
<1> QED
  BY <1>1, <1>2, <1>3, <1>4, <1>5, <1>6, <1>7 DEF StreamStep

LEMMA NextType == TypeOK /\ [Next]_vars => TypeOK'
<1> SUFFICES ASSUME TypeOK, [Next]_vars PROVE TypeOK'
  OBVIOUS
<1>1. CASE UNCHANGED vars
  BY <1>1 DEF TypeOK, vars, serveVars, connVars, reqVars, acceptVars, streamVars
<1> QED
  BY <1>1, ServeType, ConnType, ReqType, StreamType DEF Next, Environment

\* Every variable of the server keeps its type.
THEOREM TypeCorrect == Spec => []TypeOK
BY InitType, NextType, PTL DEF Spec

-----------------------------------------------------------------------------
(* Close *)

\* What is registered is being served; until Close has set closed the listener is
\* the one Serve accepts from, and after that nothing is registered any more, so
\* that the open connections are those Close still has in its snapshot.
CloseInv ==
    /\ \A k \in connections : conn[k] \in {"starting", "serving", "closed"}
    /\ serve \in {"start", "listening"} => connections = {}
    /\ closer = "idle" =>
           /\ serve \in {"accept", "accepted"} => listener = "shared"
           /\ listener # "shared" => connections = {}
    /\ closer # "idle" => connections \cap alive \subseteq snapshot
    /\ closer = "done" => snapshot = {}

LEMMA CloseInvServe ==
    ASSUME TypeOK, CloseInv, Listen \/ ServeStep \/ Close \/ CloseStep
    PROVE  CloseInv'
<1> USE DEF TypeOK, CloseInv, connVars
<1>1. CASE Listen
  BY <1>1 DEF Listen
<1>2. CASE SetListener
  BY <1>2 DEF SetListener
<1>3. CASE AcceptFails
  BY <1>3 DEF AcceptFails
<1>4. CASE Close
  BY <1>4 DEF Close
<1>5. CASE CloseListener
  BY <1>5 DEF CloseListener
<1>6. ASSUME NEW k \in Conns, Accept(k) PROVE CloseInv'
  BY <1>6 DEF Accept
<1>7. ASSUME NEW k \in Conns, AddConnection(k) PROVE CloseInv'
  BY <1>7 DEF AddConnection
<1>8. ASSUME NEW k \in Conns, CloseConnection(k) PROVE CloseInv'
  BY <1>8 DEF CloseConnection
<1> QED
  BY <1>1, <1>2, <1>3, <1>4, <1>5, <1>6, <1>7, <1>8 DEF ServeStep, CloseStep

LEMMA CloseInvConn ==
    ASSUME TypeOK, CloseInv, NEW k \in Conns,
           ConnStep(k) \/ Arrive(k) \/ ConnectionLost(k)
    PROVE  CloseInv'
<1> USE DEF TypeOK, CloseInv, serveVars
<1>1. CASE Arrive(k)
  BY <1>1 DEF Arrive
<1>2. CASE ConnectionLost(k)
  BY <1>2 DEF ConnectionLost
<1>3. CASE ServeConnection(k)
  BY <1>3 DEF ServeConnection
<1>4. CASE AcceptStreamFails(k)
  BY <1>4 DEF AcceptStreamFails
<1>5. CASE RemoveConnection(k)
  BY <1>5 DEF RemoveConnection
<1> QED
  BY <1>1, <1>2, <1>3, <1>4, <1>5 DEF ConnStep

\* Requests and streams leave what Serve and Close work on alone.
CloseVars == <<serve, closer, listener, snapshot, conn, alive, connections>>

LEMMA RestKeepsCloseVars ==
    ASSUME \/ \E v \in Convs : ReqStep(v) \/ Request(v)
           \/ \E s \in Streams :
                 \/ StreamStep(s) \/ OpenStream(s) \/ StreamFails(s)
                 \/ ParseHeader(s) \/ ParseForwardingHeader(s) \/ SessionReturns(s)
    PROVE  UNCHANGED CloseVars
<1> USE DEF CloseVars, serveVars, connVars
<1>1. ASSUME NEW v \in Convs, ReqStep(v) \/ Request(v) PROVE UNCHANGED CloseVars
  BY <1>1 DEF ReqStep, Request, Refuse, GetOrCreateConversationsManager, WriteHeader,
              AddConversation, AcceptChannel, QueueEmpty, Notified, ContextDone,
              RemoveConversation
<1>2. ASSUME NEW s \in Streams,
             \/ StreamStep(s) \/ OpenStream(s) \/ StreamFails(s)
             \/ ParseHeader(s) \/ ParseForwardingHeader(s) \/ SessionReturns(s)
      PROVE  UNCHANGED CloseVars
  BY <1>2 DEF StreamStep, OpenStream, StreamFails, ParseHeader, ParseForwardingHeader,
              SessionReturns, GetConversationsManager, GetConversation, AddChannel,
              Notify
<1> QED
  BY <1>1, <1>2

\* Once Close has returned, no connection that the server has registered is open,
\* for any interleaving of Serve, Close and any number of connections.
THEOREM NobodyServedAfterClose == Spec => []ClosedServerServesNobody
<1>1. Init => CloseInv
  BY DEF Init, CloseInv
<1>2. TypeOK /\ CloseInv /\ [Next]_vars => CloseInv'
  <2> SUFFICES ASSUME TypeOK, CloseInv, [Next]_vars PROVE CloseInv'
    OBVIOUS
  <2>1. CASE UNCHANGED CloseVars
    BY <2>1 DEF CloseInv, CloseVars
  <2>2. UNCHANGED vars => UNCHANGED CloseVars
    BY DEF vars, CloseVars, serveVars, connVars
  <2> QED
    BY <2>1, <2>2, CloseInvServe, CloseInvConn, RestKeepsCloseVars DEF Next, Environment
<1>3. CloseInv => ClosedServerServesNobody
  BY DEF CloseInv, ClosedServerServesNobody
<1> QED
  BY <1>1, <1>2, <1>3, TypeCorrect, PTL DEF Spec

-----------------------------------------------------------------------------
(* Channels after the response *)

\* A request that has its manager shares it with the streams of its connection
\* until the connection is removed, and it is in the manager's map from the
\* moment the lock is free again until its handler has returned.
AdmitInv ==
    /\ \A v \in Convs : req[v] \in {"managed"} \cup Replied =>
           /\ mgr[v] # None
           /\ manager[On[v]] = mgr[v] \/ conn[On[v]] = "done"
    /\ \A v \in Convs : req[v] \in {"next", "select", "returned"} => v \in conversations
    /\ \A s \in after : req[To[s]] \in Replied
    /\ \A s \in after : st[s] \in {"managed", "parsed"} =>
           at[s] = mgr[To[s]] \/ conn[On[To[s]]] = "done"
    /\ AdmittedAfterReply

LEMMA AdmitInvConn ==
    ASSUME TypeOK, AdmitInv, UNCHANGED <<reqVars, streamVars>>, manager' = manager,
           \A k \in Conns : conn[k] = "done" => conn'[k] = "done"
    PROVE  AdmitInv'
BY DEF TypeOK, AdmitInv, AdmittedAfterReply, reqVars, streamVars

LEMMA AdmitInvServe ==
    ASSUME TypeOK, AdmitInv, Listen \/ ServeStep \/ Close \/ CloseStep
    PROVE  AdmitInv'
<1>1. UNCHANGED <<reqVars, streamVars>> /\ manager' = manager
  BY DEF ServeStep, CloseStep, Listen, SetListener, AcceptFails, Close, CloseListener,
         Accept, AddConnection, CloseConnection, connVars
<1>2. \A k \in Conns : conn[k] = "done" => conn'[k] = "done"
  BY DEF ServeStep, CloseStep, Listen, SetListener, AcceptFails, Close, CloseListener,
         Accept, AddConnection, CloseConnection, connVars, TypeOK
<1> QED
  BY <1>1, <1>2, AdmitInvConn

LEMMA AdmitInvConnStep ==
    ASSUME TypeOK, AdmitInv, NEW k \in Conns, ConnStep(k) \/ ConnectionLost(k)
    PROVE  AdmitInv'
<1>1. CASE ConnectionLost(k) \/ ServeConnection(k) \/ AcceptStreamFails(k)
  <2>1. UNCHANGED <<reqVars, streamVars>> /\ manager' = manager
    BY <1>1 DEF ConnectionLost, ServeConnection, AcceptStreamFails
  <2>2. \A c \in Conns : conn[c] = "done" => conn'[c] = "done"
    BY <1>1 DEF ConnectionLost, ServeConnection, AcceptStreamFails, TypeOK
  <2> QED
    BY <2>1, <2>2, AdmitInvConn
<1>2. CASE RemoveConnection(k)
  BY <1>2 DEF RemoveConnection, TypeOK, AdmitInv, AdmittedAfterReply, reqVars, streamVars
<1> QED
  BY <1>1, <1>2 DEF ConnStep

LEMMA AdmitInvOpened ==
    ASSUME TypeOK, AdmitInv, NEW k \in Conns, Arrive(k)
    PROVE  AdmitInv'
BY DEF Arrive, TypeOK, AdmitInv, AdmittedAfterReply, reqVars

LEMMA AdmitInvReq ==
    ASSUME TypeOK, AdmitInv, NEW v \in Convs, ReqStep(v) \/ Request(v)
    PROVE  AdmitInv'
<1> USE DEF TypeOK, AdmitInv, AdmittedAfterReply, connVars, streamVars, Replied
<1>1. CASE Request(v)
  BY <1>1 DEF Request
<1>2. CASE Refuse(v)
  BY <1>2 DEF Refuse
<1>3. CASE GetOrCreateConversationsManager(v)
  BY <1>3 DEF GetOrCreateConversationsManager
<1>4. CASE WriteHeader(v)
  BY <1>4 DEF WriteHeader
<1>5. CASE AddConversation(v)
  BY <1>5 DEF AddConversation
<1>6. CASE AcceptChannel(v)
  BY <1>6 DEF AcceptChannel, reqVars
<1>7. CASE QueueEmpty(v)
  BY <1>7 DEF QueueEmpty
<1>8. CASE Notified(v)
  BY <1>8 DEF Notified
<1>9. CASE ContextDone(v)
  BY <1>9 DEF ContextDone
<1>10. CASE RemoveConversation(v)
  BY <1>10 DEF RemoveConversation
<1> QED
  BY <1>1, <1>2, <1>3, <1>4, <1>5, <1>6, <1>7, <1>8, <1>9, <1>10 DEF ReqStep

LEMMA AdmitInvStream ==
    ASSUME TypeOK, AdmitInv, NEW s \in Streams,
           \/ StreamStep(s) \/ OpenStream(s) \/ StreamFails(s)
           \/ ParseHeader(s) \/ ParseForwardingHeader(s) \/ SessionReturns(s)
    PROVE  AdmitInv'
<1> USE DEF TypeOK, AdmitInv, AdmittedAfterReply, connVars, reqVars
<1>1. CASE OpenStream(s)
  BY <1>1 DEF OpenStream
<1>2. CASE StreamFails(s)
  BY <1>2 DEF StreamFails
<1>3. CASE ParseHeader(s)
  BY <1>3 DEF ParseHeader
<1>4. CASE ParseForwardingHeader(s)
  BY <1>4 DEF ParseForwardingHeader
<1>5. CASE GetConversationsManager(s)
  BY <1>5 DEF GetConversationsManager, Replied
<1>6. CASE GetConversation(s)
  <2>1. CASE s \in after /\ conn[On[To[s]]] # "done"
    <3>1. at[s] = mgr[To[s]] /\ req[To[s]] \in Replied
      BY <1>6, <2>1 DEF GetConversation
    <3>2. req[To[s]] # "replied"
      BY <1>6, <3>1 DEF GetConversation, Locked
    <3>3. To[s] \in conversations \/ req[To[s]] = "ended"
      BY <3>1, <3>2 DEF Replied
    <3> QED
      BY <1>6, <2>1, <3>1, <3>3 DEF GetConversation
  <2>2. CASE s \notin after \/ conn[On[To[s]]] = "done"
    BY <1>6, <2>2 DEF GetConversation
  <2> QED
    BY <2>1, <2>2
<1>7. CASE AddChannel(s)
  BY <1>7 DEF AddChannel
<1>8. CASE Notify(s)
  BY <1>8 DEF Notify
<1>9. CASE SessionReturns(s)
  BY <1>9 DEF SessionReturns, streamVars
<1> QED
  BY <1>1, <1>2, <1>3, <1>4, <1>5, <1>6, <1>7, <1>8, <1>9 DEF StreamStep

\* A channel opened after the response to CONNECT is never refused as unknown
\* while its conversation and its connection last, however many conversations
\* share the connection's manager.
THEOREM ChannelsAdmitted == Spec => []AdmittedAfterReply
<1>1. Init => AdmitInv
  BY DEF Init, AdmitInv, AdmittedAfterReply, Replied
<1>2. TypeOK /\ AdmitInv /\ [Next]_vars => AdmitInv'
  <2> SUFFICES ASSUME TypeOK, AdmitInv, [Next]_vars PROVE AdmitInv'
    OBVIOUS
  <2>1. CASE UNCHANGED vars
    BY <2>1, AdmitInvConn DEF vars, connVars
  <2> QED
    BY <2>1, AdmitInvServe, AdmitInvConnStep, AdmitInvOpened, AdmitInvReq, AdmitInvStream
       DEF Next, Environment
<1>3. AdmitInv => AdmittedAfterReply
  BY DEF AdmitInv
<1> QED
  BY <1>1, <1>2, <1>3, TypeCorrect, PTL DEF Spec

-----------------------------------------------------------------------------
(* The accept queue *)

LEMMA QueueUntouched ==
    ASSUME NoLostChannel, UNCHANGED <<queue, notify>>,
           \A v \in Convs : req'[v] = "select" => req[v] = "select",
           \A s \in Streams : st[s] = "added" => st'[s] = "added"
    PROVE  NoLostChannel'
BY DEF NoLostChannel

LEMMA ServerKeepsQueue ==
    ASSUME \/ Listen \/ ServeStep \/ Close \/ CloseStep
           \/ \E k \in Conns : ConnStep(k) \/ Arrive(k) \/ ConnectionLost(k)
    PROVE  UNCHANGED <<req, queue, notify, st>>
BY DEF ServeStep, CloseStep, Listen, SetListener, AcceptFails, Close, CloseListener,
       Accept, AddConnection, CloseConnection, ConnStep, Arrive, ConnectionLost,
       ServeConnection, AcceptStreamFails, RemoveConnection, reqVars, acceptVars, streamVars

LEMMA NoLostChannelReq ==
    ASSUME TypeOK, NoLostChannel, NEW v \in Convs, ReqStep(v) \/ Request(v)
    PROVE  NoLostChannel'
<1> USE DEF TypeOK
<1>1. CASE \/ Request(v) \/ Refuse(v) \/ GetOrCreateConversationsManager(v)
           \/ WriteHeader(v) \/ AddConversation(v)
  <2>1. UNCHANGED <<queue, notify, st>>
    BY <1>1 DEF Request, Refuse, GetOrCreateConversationsManager, WriteHeader,
                AddConversation, acceptVars, streamVars
  <2>2. \A w \in Convs : req'[w] = "select" => req[w] = "select"
    BY <1>1 DEF Request, Refuse, GetOrCreateConversationsManager, WriteHeader,
                AddConversation
  <2> QED
    BY <2>1, <2>2, QueueUntouched
<1>2. CASE ContextDone(v) \/ RemoveConversation(v)
  <2>1. UNCHANGED <<queue, notify, st>>
    BY <1>2 DEF ContextDone, RemoveConversation, acceptVars, streamVars
  <2>2. \A w \in Convs : req'[w] = "select" => req[w] = "select"
    BY <1>2 DEF ContextDone, RemoveConversation
  <2> QED
    BY <2>1, <2>2, QueueUntouched
<1>3. CASE AcceptChannel(v)
  BY <1>3 DEF AcceptChannel, NoLostChannel, reqVars, streamVars
<1>4. CASE QueueEmpty(v)
  BY <1>4 DEF QueueEmpty, NoLostChannel, acceptVars, streamVars
<1>5. CASE Notified(v)
  BY <1>5 DEF Notified, NoLostChannel, streamVars
<1> QED
  BY <1>1, <1>2, <1>3, <1>4, <1>5 DEF ReqStep

LEMMA NoLostChannelStream ==
    ASSUME TypeOK, NoLostChannel, NEW s \in Streams,
           \/ StreamStep(s) \/ OpenStream(s) \/ StreamFails(s)
           \/ ParseHeader(s) \/ ParseForwardingHeader(s) \/ SessionReturns(s)
    PROVE  NoLostChannel'
<1> USE DEF TypeOK, NoLostChannel, reqVars
<1>1. CASE OpenStream(s) \/ StreamFails(s)
  BY <1>1 DEF OpenStream, StreamFails, acceptVars
<1>2. CASE ParseHeader(s) \/ ParseForwardingHeader(s)
  BY <1>2 DEF ParseHeader, ParseForwardingHeader, acceptVars
<1>3. CASE GetConversationsManager(s)
  BY <1>3 DEF GetConversationsManager, acceptVars
<1>4. CASE GetConversation(s)
  BY <1>4 DEF GetConversation, acceptVars
<1>5. CASE AddChannel(s)
  BY <1>5 DEF AddChannel
<1>6. CASE Notify(s)
  BY <1>6 DEF Notify
<1>7. CASE SessionReturns(s)
  BY <1>7 DEF SessionReturns, streamVars
<1> QED
  BY <1>1, <1>2, <1>3, <1>4, <1>5, <1>6, <1>7 DEF StreamStep

\* AcceptChannel never sleeps beside a channel in its queue without a token that
\* is there or on its way, for any number of streams.
THEOREM ChannelsNotLost == Spec => []NoLostChannel
<1>1. Init => NoLostChannel
  BY DEF Init, NoLostChannel
<1>2. TypeOK /\ NoLostChannel /\ [Next]_vars => NoLostChannel'
  <2> SUFFICES ASSUME TypeOK, NoLostChannel, [Next]_vars PROVE NoLostChannel'
    OBVIOUS
  <2>1. CASE UNCHANGED <<req, queue, notify, st>>
    BY <2>1, QueueUntouched
  <2>2. UNCHANGED vars => UNCHANGED <<req, queue, notify, st>>
    BY DEF vars, reqVars, acceptVars, streamVars
  <2> QED
    BY <2>1, <2>2, ServerKeepsQueue, NoLostChannelReq, NoLostChannelStream
       DEF Next, Environment
<1> QED
  BY <1>1, <1>2, TypeCorrect, PTL DEF Spec
=============================================================================
