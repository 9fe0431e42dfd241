-------------------------------- MODULE GoServer --------------------------------
(***************************************************************************)
(* The Go server around its sessions: Serve and Close, the goroutine of    *)
(* each connection, the CONNECT request that starts a conversation, and    *)
(* the streams that open channels in it.  What these goroutines share is   *)
(* the Server with its lock (connections and conversations), one           *)
(* conversationsManager per connection with a lock of its own, and the     *)
(* accept queue of each conversation.                                      *)
(***************************************************************************)
EXTENDS Naturals, Sequences

CONSTANTS
    Conns,     \* QUIC connections
    Convs,     \* CONNECT requests, each with its conversation
    Streams,   \* streams that open a channel
    Sessions,  \* those of them that open a session; the others forward
    On,        \* the connection of a request
    To,        \* the conversation that the header of a stream names
    MaxOpened, \* bound on the connections, requests and streams of the clients
    None

ASSUME ServerAssumption ==
    /\ Sessions \subseteq Streams
    /\ On \in [Convs -> Conns]
    /\ To \in [Streams -> Convs]
    /\ MaxOpened \in Nat
    /\ None \notin Convs

VARIABLES
    serve,          \* where Serve is
    closer,         \* where Close is; Server.closed is set once it is not "idle"
    listener,       \* "none", "open", "shared" once Server.listener is set, "closed"
    snapshot,       \* the connections that Close still has to close
    conn,           \* where the server is with a connection
    alive,          \* connections whose QUIC connection is open
    connections,    \* Server.connections
    manager,        \* Server.conversations: a manager is named by who made it
    req,            \* where the goroutines of a request are
    mgr,            \* the manager that a request has got
    conversations,  \* the conversations that are in their manager's map
    cancelled,      \* conversations on which Close has been called
    queue,          \* channelsAcceptQueue.queue
    notify,         \* the token in channelsAcceptQueue.c
    accepted,       \* channels that AcceptChannel has returned
    running,        \* session channels whose goroutine runs
    st,             \* where the goroutine of a stream is
    at,             \* the manager that it has got
    opened,         \* how many connections, requests and streams there were
    after           \* streams that were opened after the client's response

serveVars == <<serve, closer, listener, snapshot>>
connVars == <<conn, alive, connections, manager>>
reqVars == <<req, mgr, conversations>>
acceptVars == <<cancelled, queue, notify, accepted, running>>
streamVars == <<st, at, after, opened>>
vars == <<serveVars, connVars, reqVars, acceptVars, streamVars>>

Init ==
    /\ serve = "start"
    /\ closer = "idle"
    /\ listener = "none"
    /\ snapshot = {}
    /\ conn = [k \in Conns |-> "none"]
    /\ alive = {}
    /\ connections = {}
    /\ manager = [k \in Conns |-> None]
    /\ req = [v \in Convs |-> "none"]
    /\ mgr = [v \in Convs |-> None]
    /\ conversations = {}
    /\ cancelled = {}
    /\ queue = [v \in Convs |-> <<>>]
    /\ notify = [v \in Convs |-> 0]
    /\ accepted = {}
    /\ running = {}
    /\ st = [s \in Streams |-> "none"]
    /\ at = [s \in Streams |-> None]
    /\ after = {}
    /\ opened = 0

\* A client opens something new.
Open == opened < MaxOpened /\ opened' = opened + 1

-----------------------------------------------------------------------------
(* Serve and Close *)

\* The packet size, the TLS configuration and ListenEarly.
Listen ==
    /\ serve = "start"
    /\ \/ serve' = "listening" /\ listener' = "open"
       \/ serve' = "returned" /\ UNCHANGED listener
    /\ UNCHANGED <<closer, snapshot, connVars, reqVars, acceptVars, streamVars>>

\* Under the lock: a server that has been closed meanwhile does not start.
SetListener ==
    /\ serve = "listening"
    /\ IF closer # "idle"
       THEN serve' = "returned" /\ listener' = "closed"
       ELSE serve' = "accept" /\ listener' = "shared"
    /\ UNCHANGED <<closer, snapshot, connVars, reqVars, acceptVars, streamVars>>

\* A client's handshake; after listener.Close no more of them are taken.
Arrive(k) ==
    /\ Open
    /\ conn[k] = "none"
    /\ listener \in {"open", "shared"}
    /\ conn' = [conn EXCEPT ![k] = "queued"]
    /\ alive' = alive \cup {k}
    /\ UNCHANGED <<serveVars, connections, manager, reqVars, acceptVars, st>>
    /\ UNCHANGED <<at, after>>

\* listener.Accept
Accept(k) ==
    /\ serve = "accept"
    /\ conn[k] = "queued"
    /\ serve' = "accepted"
    /\ conn' = [conn EXCEPT ![k] = "accepted"]
    /\ UNCHANGED <<closer, listener, snapshot, alive, connections, manager>>
    /\ UNCHANGED <<reqVars, acceptVars, streamVars>>

\* Accept fails only when its queue is empty.
AcceptFails ==
    /\ serve = "accept"
    /\ listener = "closed"
    /\ \A k \in Conns : conn[k] # "queued"
    /\ serve' = "returned"
    /\ UNCHANGED <<closer, listener, snapshot, connVars, reqVars, acceptVars>>
    /\ UNCHANGED streamVars

\* Mutant of AddConnection: closed is looked at only before the loop.
AddConnectionUnchecked(k) ==
    /\ serve = "accepted"
    /\ conn[k] = "accepted"
    /\ serve' = "accept"
    /\ conn' = [conn EXCEPT ![k] = "starting"]
    /\ connections' = connections \cup {k}
    /\ UNCHANGED <<closer, listener, snapshot, alive, manager, reqVars>>
    /\ UNCHANGED <<acceptVars, streamVars>>

\* Under the lock: the connection is in the set before Close takes its snapshot,
\* or it is closed here.
AddConnection(k) ==
    /\ serve = "accepted"
    /\ conn[k] = "accepted"
    /\ IF closer # "idle"
       THEN /\ serve' = "returned"
            /\ listener' = "closed"
            /\ conn' = [conn EXCEPT ![k] = "done"]
            /\ alive' = alive \ {k}
            /\ UNCHANGED connections
       ELSE /\ serve' = "accept"
            /\ conn' = [conn EXCEPT ![k] = "starting"]
            /\ connections' = connections \cup {k}
            /\ UNCHANGED <<listener, alive>>
    /\ UNCHANGED <<closer, snapshot, manager, reqVars, acceptVars, streamVars>>

\* Server.Close, its critical section.
Close ==
    /\ closer = "idle"
    /\ closer' = IF listener = "shared" THEN "closing" ELSE "done"
    /\ snapshot' = connections
    /\ UNCHANGED <<serve, listener, connVars, reqVars, acceptVars, streamVars>>

\* Server.Close closes one connection of its snapshot after the other.
CloseConnection(k) ==
    /\ k \in snapshot
    /\ snapshot' = snapshot \ {k}
    /\ alive' = alive \ {k}
    /\ UNCHANGED <<serve, closer, listener, conn, connections, manager>>
    /\ UNCHANGED <<reqVars, acceptVars, streamVars>>

\* Mutant of CloseListener: the listener is left open.
CloseListenerSkipped ==
    /\ closer = "closing"
    /\ snapshot = {}
    /\ closer' = "done"
    /\ UNCHANGED <<serve, listener, snapshot, connVars, reqVars, acceptVars>>
    /\ UNCHANGED streamVars

CloseListener ==
    /\ closer = "closing"
    /\ snapshot = {}
    /\ closer' = "done"
    /\ listener' = "closed"
    /\ UNCHANGED <<serve, snapshot, connVars, reqVars, acceptVars, streamVars>>

-----------------------------------------------------------------------------
(* A connection *)

\* serveConnection, up to its loop: NewRawServerConn may fail.
ServeConnection(k) ==
    /\ conn[k] = "starting"
    /\ \/ conn' = [conn EXCEPT ![k] = "serving"] /\ UNCHANGED alive
       \/ conn' = [conn EXCEPT ![k] = "closed"] /\ alive' = alive \ {k}
    /\ UNCHANGED <<serveVars, connections, manager, reqVars, acceptVars>>
    /\ UNCHANGED streamVars

\* The client closes the connection, or it times out.
ConnectionLost(k) ==
    /\ k \in alive
    /\ alive' = alive \ {k}
    /\ UNCHANGED <<serveVars, conn, connections, manager, reqVars>>
    /\ UNCHANGED <<acceptVars, streamVars>>

\* AcceptStream fails in handleBidiStreams; CloseWithError is deferred.
AcceptStreamFails(k) ==
    /\ conn[k] = "serving"
    /\ k \notin alive
    /\ conn' = [conn EXCEPT ![k] = "closed"]
    /\ UNCHANGED <<serveVars, alive, connections, manager, reqVars>>
    /\ UNCHANGED <<acceptVars, streamVars>>

RemoveConnection(k) ==
    /\ conn[k] = "closed"
    /\ conn' = [conn EXCEPT ![k] = "done"]
    /\ connections' = connections \ {k}
    /\ manager' = [manager EXCEPT ![k] = None]
    /\ UNCHANGED <<serveVars, alive, reqVars, acceptVars, streamVars>>

-----------------------------------------------------------------------------
(* A CONNECT request and its conversation *)

\* The stream is accepted and its frame type peeked at: an HTTP/3 request.
Request(v) ==
    /\ Open
    /\ req[v] = "none"
    /\ conn[On[v]] = "serving"
    /\ On[v] \in alive
    /\ req' = [req EXCEPT ![v] = "request"]
    /\ UNCHANGED <<serveVars, connVars, mgr, conversations, acceptVars, st>>
    /\ UNCHANGED <<at, after>>

\* HandleAuths refuses the request, with an error status, and closes its
\* conversation.
Refuse(v) ==
    /\ req[v] = "request"
    /\ req' = [req EXCEPT ![v] = "refused"]
    /\ cancelled' = cancelled \cup {v}
    /\ UNCHANGED <<serveVars, connVars, mgr, conversations, queue, notify>>
    /\ UNCHANGED <<accepted, running>>
    /\ UNCHANGED streamVars

\* HandleAuths calls the handler of GetHTTPHandlerFunc, which first gets the
\* connection's manager.
GetOrCreateConversationsManager(v) ==
    LET m == IF manager[On[v]] = None THEN v ELSE manager[On[v]]
    IN  /\ req[v] = "request"
        /\ req' = [req EXCEPT ![v] = "managed"]
        /\ mgr' = [mgr EXCEPT ![v] = m]
        /\ manager' = [manager EXCEPT ![On[v]] = m]
        /\ UNCHANGED <<serveVars, conn, alive, connections, conversations>>
        /\ UNCHANGED <<acceptVars, streamVars>>

\* Mutant of Locked: the lock covers the map only.
LockedForMap(m) == FALSE

\* conversationsManager.lock is held over the response and the registration.
Locked(m) == \E v \in Convs : mgr[v] = m /\ req[v] = "replied"

\* The lock is taken, and the response written: HTTPStream flushes it, and the
\* client may open channels.
WriteHeader(v) ==
    /\ req[v] = "managed"
    /\ ~Locked(mgr[v])
    /\ req' = [req EXCEPT ![v] = "replied"]
    /\ UNCHANGED <<serveVars, connVars, mgr, conversations, acceptVars, streamVars>>

\* The conversation enters the map and the lock is released.  Its handler
\* returns at once when the user is not found.
AddConversation(v) ==
    /\ req[v] = "replied"
    /\ \E next \in {"next", "returned"} : req' = [req EXCEPT ![v] = next]
    /\ conversations' = conversations \cup {v}
    /\ UNCHANGED <<serveVars, connVars, mgr, acceptVars, streamVars>>

\* Mutant of Done: the context does not end with the connection.
DoneWhenClosed(v) == v \in cancelled

\* conv.Context(), a child of the connection's.
Done(v) == v \in cancelled \/ On[v] \notin alive

\* AcceptChannel: a channel is taken, confirmed and registered; the handler starts
\* its session, or dials and forwards in the background.
AcceptChannel(v) ==
    /\ req[v] = "next"
    /\ queue[v] # <<>>
    /\ queue' = [queue EXCEPT ![v] = Tail(@)]
    /\ accepted' = accepted \cup {Head(queue[v])}
    /\ running' = running \cup ({Head(queue[v])} \cap Sessions)
    /\ UNCHANGED <<serveVars, connVars, reqVars, cancelled, notify, streamVars>>

\* AcceptChannel: nothing in the queue, so on to the select.
QueueEmpty(v) ==
    /\ req[v] = "next"
    /\ queue[v] = <<>>
    /\ req' = [req EXCEPT ![v] = "select"]
    /\ UNCHANGED <<serveVars, connVars, mgr, conversations, acceptVars, streamVars>>

\* The select of AcceptChannel, on the queue's token.
Notified(v) ==
    /\ req[v] = "select"
    /\ notify[v] = 1
    /\ notify' = [notify EXCEPT ![v] = 0]
    /\ req' = [req EXCEPT ![v] = "next"]
    /\ UNCHANGED <<serveVars, connVars, mgr, conversations, cancelled, queue>>
    /\ UNCHANGED <<accepted, running, streamVars>>

\* The select of AcceptChannel, on the context: the handler returns its error.
ContextDone(v) ==
    /\ req[v] = "select"
    /\ Done(v)
    /\ req' = [req EXCEPT ![v] = "returned"]
    /\ UNCHANGED <<serveVars, connVars, mgr, conversations, acceptVars, streamVars>>

\* The goroutine of a session returns: conv.Close() and channel.Close().
SessionReturns(s) ==
    /\ s \in running
    /\ running' = running \ {s}
    /\ cancelled' = cancelled \cup {To[s]}
    /\ UNCHANGED <<serveVars, connVars, reqVars, queue, notify, accepted>>
    /\ UNCHANGED streamVars

\* removeConversation and then newConv.Close, both deferred.
RemoveConversation(v) ==
    /\ req[v] = "returned"
    /\ ~Locked(mgr[v])
    /\ req' = [req EXCEPT ![v] = "ended"]
    /\ conversations' = conversations \ {v}
    /\ cancelled' = cancelled \cup {v}
    /\ UNCHANGED <<serveVars, connVars, mgr, queue, notify, accepted>>
    /\ UNCHANGED <<running, streamVars>>

-----------------------------------------------------------------------------
(* A stream that opens a channel *)

\* The states of a request in which the client has its response.
Replied == {"replied", "next", "select", "returned", "ended"}

\* The client opens a stream for a conversation, whose id is that of its request.
OpenStream(s) ==
    /\ Open
    /\ st[s] = "none"
    /\ req[To[s]] # "none"
    /\ conn[On[To[s]]] = "serving"
    /\ On[To[s]] \in alive
    /\ st' = [st EXCEPT ![s] = "opened"]
    /\ after' = IF req[To[s]] \in Replied THEN after \cup {s} ELSE after
    /\ UNCHANGED <<serveVars, connVars, reqVars, acceptVars, at>>

\* peekFrameType has a deadline, the headers after it have none: rejectStream.
StreamFails(s) ==
    /\ st[s] \in {"opened", "managed", "address"}
    /\ st' = [st EXCEPT ![s] = "rejected"]
    /\ UNCHANGED <<serveVars, connVars, reqVars, acceptVars, at, after, opened>>

\* acceptSSHChannel looks for the connection's manager.
GetConversationsManager(s) ==
    LET m == manager[On[To[s]]]
    IN  /\ st[s] = "opened"
        /\ st' = [st EXCEPT ![s] = IF m = None THEN "unknown" ELSE "managed"]
        /\ at' = [at EXCEPT ![s] = m]
        /\ UNCHANGED <<serveVars, connVars, reqVars, acceptVars, after, opened>>

\* The header has been read.
ParseHeader(s) ==
    /\ st[s] = "managed"
    /\ st' = [st EXCEPT ![s] = "parsed"]
    /\ UNCHANGED <<serveVars, connVars, reqVars, acceptVars, at, after, opened>>

\* The conversation is looked up; a forwarding channel still reads its address.
GetConversation(s) ==
    /\ st[s] = "parsed"
    /\ ~Locked(at[s])
    /\ st' = [st EXCEPT ![s] =
                  IF To[s] \notin conversations \/ mgr[To[s]] # at[s] THEN "unknown"
                  ELSE IF s \in Sessions THEN "channel" ELSE "address"]
    /\ UNCHANGED <<serveVars, connVars, reqVars, acceptVars, at, after, opened>>

ParseForwardingHeader(s) ==
    /\ st[s] = "address"
    /\ st' = [st EXCEPT ![s] = "channel"]
    /\ UNCHANGED <<serveVars, connVars, reqVars, acceptVars, at, after, opened>>

\* AcceptQueue.Add, under its mutex.
AddChannel(s) ==
    /\ st[s] = "channel"
    /\ st' = [st EXCEPT ![s] = "added"]
    /\ queue' = [queue EXCEPT ![To[s]] = Append(@, s)]
    /\ UNCHANGED <<serveVars, connVars, reqVars, cancelled, notify, accepted>>
    /\ UNCHANGED <<running, at, after, opened>>

\* Mutant of Notify: the channel of the queue is not buffered, so that the token
\* is dropped when the acceptor is between its look at the queue and the select.
NotifyUnbuffered(s) ==
    /\ st[s] = "added"
    /\ st' = [st EXCEPT ![s] = "queued"]
    /\ \E n \in {notify[To[s]], 1} : notify' = [notify EXCEPT ![To[s]] = n]
    /\ UNCHANGED <<serveVars, connVars, reqVars, cancelled, queue, accepted>>
    /\ UNCHANGED <<running, at, after, opened>>

\* AcceptQueue.Add, the token: it is dropped when there is one already.
Notify(s) ==
    /\ st[s] = "added"
    /\ st' = [st EXCEPT ![s] = "queued"]
    /\ notify' = [notify EXCEPT ![To[s]] = 1]
    /\ UNCHANGED <<serveVars, connVars, reqVars, cancelled, queue, accepted>>
    /\ UNCHANGED <<running, at, after, opened>>

-----------------------------------------------------------------------------

\* Steps of Serve and of Close once they have been called.
ServeStep ==
    \/ SetListener
    \/ AcceptFails
    \/ \E k \in Conns : Accept(k) \/ AddConnection(k)

CloseStep == CloseListener \/ \E k \in Conns : CloseConnection(k)

ConnStep(k) == ServeConnection(k) \/ AcceptStreamFails(k) \/ RemoveConnection(k)

ReqStep(v) ==
    \/ Refuse(v)
    \/ GetOrCreateConversationsManager(v)
    \/ WriteHeader(v)
    \/ AddConversation(v)
    \/ AcceptChannel(v)
    \/ QueueEmpty(v)
    \/ Notified(v)
    \/ ContextDone(v)
    \/ RemoveConversation(v)

StreamStep(s) ==
    \/ GetConversationsManager(s)
    \/ GetConversation(s)
    \/ AddChannel(s)
    \/ Notify(s)

\* What the clients, the network and the sessions do.
Environment ==
    \/ \E k \in Conns : Arrive(k) \/ ConnectionLost(k)
    \/ \E v \in Convs : Request(v)
    \/ \E s \in Streams : \/ OpenStream(s)
                          \/ StreamFails(s)
                          \/ ParseHeader(s)
                          \/ ParseForwardingHeader(s)
                          \/ SessionReturns(s)

Next ==
    \/ Listen
    \/ ServeStep
    \/ Close
    \/ CloseStep
    \/ \E k \in Conns : ConnStep(k)
    \/ \E v \in Convs : ReqStep(v)
    \/ \E s \in Streams : StreamStep(s)
    \/ Environment

\* Goroutines that can run do; nothing is assumed of clients and sessions.
Fairness ==
    /\ WF_vars(ServeStep)
    /\ WF_vars(CloseStep)
    /\ \A k \in Conns : WF_vars(ConnStep(k))
    /\ \A v \in Convs : WF_vars(ReqStep(v))
    /\ \A s \in Streams : WF_vars(StreamStep(s))

Spec == Init /\ [][Next]_vars /\ Fairness

-----------------------------------------------------------------------------

\* Every variable has its type: an accept queue has at most one token, and only
\* accepted channels have a session.
TypeOK ==
    /\ serve \in {"start", "listening", "accept", "accepted", "returned"}
    /\ closer \in {"idle", "closing", "done"}
    /\ listener \in {"none", "open", "shared", "closed"}
    /\ snapshot \subseteq Conns
    /\ conn \in [Conns -> {"none", "queued", "accepted", "starting", "serving",
                           "closed", "done"}]
    /\ alive \subseteq Conns
    /\ connections \subseteq Conns
    /\ manager \in [Conns -> Convs \cup {None}]
    /\ req \in [Convs -> {"none", "request", "refused", "managed"} \cup Replied]
    /\ mgr \in [Convs -> Convs \cup {None}]
    /\ conversations \subseteq Convs
    /\ cancelled \subseteq Convs
    /\ queue \in [Convs -> Seq(Streams)]
    /\ notify \in [Convs -> {0, 1}]
    /\ accepted \subseteq Streams
    /\ running \subseteq accepted
    /\ st \in [Streams -> {"none", "opened", "managed", "parsed", "address", "channel",
                           "added", "queued", "rejected", "unknown"}]
    /\ at \in [Streams -> Convs \cup {None}]
    /\ after \subseteq Streams
    /\ opened \in 0 .. MaxOpened

\* Once Close has returned, no connection that the server has registered is open:
\* one that Serve accepts while Close runs is in the snapshot or closed by Serve.
ClosedServerServesNobody == closer = "done" => connections \cap alive = {}

\* A client that opens a channel after the response to its CONNECT request is
\* never told that the conversation is unknown, unless the conversation has
\* ended or the connection is gone.
AdmittedAfterReply ==
    \A s \in after :
        st[s] = "unknown" => req[To[s]] = "ended" \/ conn[On[To[s]]] = "done"

\* AcceptChannel does not sleep beside a channel in its queue: a token is there,
\* or Add is about to leave one.
NoLostChannel ==
    \A v \in Convs :
        req[v] = "select" /\ queue[v] # <<>> =>
            notify[v] = 1 \/ \E s \in Streams : To[s] = v /\ st[s] = "added"

\* After Close, Serve returns and every connection is released.
ServerStops ==
    closer # "idle" ~> serve \in {"start", "returned"} /\ connections = {}

\* A conversation leaves its manager's map once it is closed or its connection is
\* lost, whatever is in its accept queue then.
ConversationsAreRemoved ==
    \A v \in Convs :
        v \in conversations /\ (v \in cancelled \/ On[v] \notin alive)
            ~> v \notin conversations
=============================================================================
