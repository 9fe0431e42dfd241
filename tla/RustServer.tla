-------------------------------- MODULE RustServer --------------------------------
(***************************************************************************)
(* One connection of the Rust server from the CONNECT request on: the      *)
(* registration of its conversation, the tasks that handle_conversation    *)
(* starts once the client is admitted (the router of incoming streams, the *)
(* router of datagrams), the loop that accepts and confirms channels, one  *)
(* task for each channel, and the end of all of them.  The pumps of TCP    *)
(* and UDP forwarding are part of it; what a session does is RustSession,  *)
(* whether the client is admitted is RustConnect.                          *)
(***************************************************************************)
EXTENDS Naturals, Sequences

CONSTANTS
    Streams,     \* bidirectional streams that the client may open
    Assignments, \* what they are: functions from some of Streams to Kinds
    QueueSize,   \* capacity of a datagram queue, of a channel or not yet of one
    MaxData,      \* bounds on the messages of each stream
    MaxDatagrams, \* bounds on the datagrams of each stream
    None

\* Streams whose header is complete, and those whose header is of another conversation,
\* of another protocol or broken off, or never completed.
Channels == {"session", "other", "tcp", "udp"}
Kinds == Channels \cup {"foreign", "cut", "stalled"}

ASSUME RustServerAssumption ==
    /\ Assignments \subseteq UNION {[some -> Kinds] : some \in SUBSET Streams}
    /\ QueueSize \in Nat \ {0}
    /\ MaxData \in [Streams -> Nat] /\ MaxDatagrams \in [Streams -> Nat]
    /\ Streams \cap {None, "none", "run", "ended", "replaced"} = {}

VARIABLES
    kind,
    link,        \* the QUIC connection
    registered,  \* is the conversation in the map of the IncomingChannelRouter?
    handler,     \* where handle_conversation is
    arrived,     \* streams that accept_bi has not returned yet
    stopped,     \* streams that the client has reset
    router,      \* where accept_and_route_channels_forever is
    reading,     \* the stream whose header it reads
    queue,       \* channels_accept_queue
    permit,      \* the permit of its Notify
    acceptor,    \* where accept_channel_with_metadata is
    confirming,  \* the channel it confirms
    task,        \* the task of a channel
    datagrams,   \* the task of route_datagrams: a channel when it waits for its queue
    inbox,       \* the datagrams of a channel and who reads them
    tcp          \* a forwarded TCP connection

routerVars == <<arrived, router, reading>>
acceptVars == <<queue, permit, acceptor, confirming>>
forwardVars == <<datagrams, inbox, tcp>>
vars == <<kind, link, registered, handler, stopped, task, routerVars, acceptVars,
          forwardVars>>

Init ==
    /\ kind \in Assignments
    /\ link = "open"
    /\ registered = TRUE
    /\ handler = "authorizing"
    /\ arrived = <<>>
    /\ stopped = {}
    /\ router = "none"
    /\ reading = None
    /\ queue = <<>>
    /\ permit = FALSE
    /\ acceptor = "none"
    /\ confirming = None
    /\ task = [s \in Streams |-> "none"]
    /\ datagrams = "none"
    /\ tcp = [s \in Streams |->
                [sent |-> 0, end |-> "open", delivered |-> 0, to |-> "none",
                 from |-> "none", remote |-> "open"]]
    /\ inbox = [s \in Streams |->
                  [sent |-> 0, parked |-> 0, queued |-> 0, reader |-> "none"]]

Opened(s) == \/ \E i \in 1..Len(arrived) : arrived[i] = s
             \/ \E i \in 1..Len(queue) : queue[i] = s
             \/ s \in {reading, confirming} \/ task[s] # "none"

-----------------------------------------------------------------------------
(* The client *)

OpenStream(s) ==
    /\ link = "open"
    /\ ~Opened(s)
    /\ s \notin stopped
    /\ arrived' = Append(arrived, s)
    /\ UNCHANGED <<kind, link, registered, handler, stopped, task, router, reading,
                   acceptVars, forwardVars>>

StopStream(s) ==
    /\ link = "open"
    /\ Opened(s)
    /\ s \notin stopped
    /\ stopped' = stopped \cup {s}
    /\ UNCHANGED <<kind, link, registered, handler, task, routerVars, acceptVars,
                   forwardVars>>

CloseConnection ==
    /\ link = "open"
    /\ link' = "closed"
    /\ UNCHANGED <<kind, registered, handler, stopped, task, routerVars, acceptVars,
                   forwardVars>>

\* A message, or what ends the messages: the end of the stream, or what is no message.
SendData(s) ==
    /\ link = "open"
    /\ Opened(s) /\ s \notin stopped
    /\ kind[s] = "tcp" /\ tcp[s].end = "open"
    /\ \/ tcp[s].sent < MaxData[s] /\ tcp' = [tcp EXCEPT ![s].sent = @ + 1]
       \/ \E end \in {"eof", "bad"} : tcp' = [tcp EXCEPT ![s].end = end]
    /\ UNCHANGED <<kind, link, registered, handler, stopped, task, routerVars,
                   acceptVars, datagrams, inbox>>

-----------------------------------------------------------------------------
(* handle_conversation *)

\* The response with status 200 and the two tasks that start after it.
Admit ==
    /\ handler = "authorizing"
    /\ link = "open"
    /\ handler' = "serving"
    /\ router' = "accept"
    /\ datagrams' = "run"
    /\ acceptor' = "look"
    /\ UNCHANGED <<kind, link, registered, stopped, task, arrived, reading, queue,
                   permit, confirming, inbox, tcp>>

\* Mutant of Leave: the error returns before unregister_conversation.
LeaveStaysRegistered ==
    /\ handler \in {"authorizing", "failed"}
    /\ handler' = "ended"
    /\ link' = "closed"
    /\ UNCHANGED <<kind, registered, stopped, task, routerVars, acceptVars, forwardVars>>

\* Any other answer, or none on a connection that is gone; also an error of the
\* accept loop.  serve_connection returns, which drops the HTTP/3 connection and so
\* closes the QUIC connection.
Leave ==
    /\ handler \in {"authorizing", "failed"}
    /\ handler' = "ended"
    /\ registered' = FALSE
    /\ link' = "closed"
    /\ UNCHANGED <<kind, stopped, task, routerVars, acceptVars, forwardVars>>

\* connection.closed() in the select: the accept future is dropped where it waits.
BreakLoop ==
    /\ handler = "serving"
    /\ link = "closed"
    /\ acceptor # "adopt"
    /\ handler' = "draining"
    /\ acceptor' = "none"
    /\ confirming' = None
    /\ UNCHANGED <<kind, link, registered, stopped, task, routerVars, queue, permit,
                   forwardVars>>

\* channels_task.await and datagrams_task.await
Drain ==
    /\ handler = "draining"
    /\ router = "ended"
    /\ datagrams = "ended"
    /\ handler' = "ended"
    /\ registered' = FALSE
    /\ UNCHANGED <<kind, link, stopped, task, routerVars, acceptVars, forwardVars>>

-----------------------------------------------------------------------------
(* The accept queue and accept_channel_with_metadata *)

Pop ==
    /\ queue # <<>>
    /\ queue' = Tail(queue)
    /\ confirming' = Head(queue)
    /\ acceptor' = "confirm"

\* AcceptQueue::next, before and within wait_next; there the Notified is made first.
AcceptNext ==
    /\ acceptor \in {"look", "wait"}
    /\ \/ Pop
       \/ /\ queue = <<>>
          /\ acceptor' = IF acceptor = "look" THEN "wait" ELSE "parked"
          /\ UNCHANGED <<queue, confirming>>
    /\ UNCHANGED <<kind, link, registered, handler, stopped, task, routerVars, permit,
                   forwardVars>>

AcceptWake ==
    /\ acceptor = "parked"
    /\ permit
    /\ permit' = FALSE
    /\ acceptor' = "wait"
    /\ UNCHANGED <<kind, link, registered, handler, stopped, task, routerVars, queue,
                   confirming, forwardVars>>

\* confirm_channel writes to the stream.  Its error is the error of the whole loop;
\* otherwise add_channel registers the channel.
Confirm ==
    LET s == confirming
    IN  /\ acceptor = "confirm"
        /\ IF s \in stopped \/ link = "closed"
           THEN /\ handler' = "failed"
                /\ acceptor' = "none"
                /\ confirming' = None
           ELSE /\ acceptor' = "adopt"
                /\ UNCHANGED <<handler, confirming>>
        /\ UNCHANGED <<kind, link, registered, stopped, task, routerVars, queue, permit,
                       forwardVars>>

\* The rest of add_channel, and the task of the channel.  A queue with a datagram that
\* was parked takes the place of the channel's own: what the router of datagrams put
\* there in between is lost, and when it waits for room there nobody makes any.
Adopt ==
    LET s == confirming
    IN  /\ acceptor = "adopt"
        /\ acceptor' = "look"
        /\ confirming' = None
        /\ task' = [task EXCEPT ![s] = "run"]
        /\ IF inbox[s].parked > 0
           THEN /\ inbox' = [inbox EXCEPT ![s].parked = 0, ![s].queued = inbox[s].parked]
                /\ datagrams' = IF datagrams = s THEN "replaced" ELSE datagrams
           ELSE UNCHANGED <<inbox, datagrams>>
        /\ UNCHANGED <<kind, link, registered, handler, stopped, routerVars, queue, permit,
                       tcp>>

-----------------------------------------------------------------------------
(* The router of streams: one header at a time, and any error is its end.  *)

RouterAccept ==
    /\ router = "accept"
    /\ \/ /\ arrived # <<>>
          /\ reading' = Head(arrived)
          /\ arrived' = Tail(arrived)
          /\ router' = "reading"
       \/ /\ link = "closed"
          /\ router' = "ended"
          /\ UNCHANGED <<reading, arrived>>
    /\ UNCHANGED <<kind, link, registered, handler, stopped, task, acceptVars,
                   forwardVars>>

\* read_incoming_channel fails: the header is of another protocol or broken off, or the
\* stream or the connection is.  (The header of a stalled stream is awaited for ever.)
HeaderFails(s) == kind[s] = "cut" \/ s \in stopped \/ link = "closed"

\* route_incoming_channel fails: no conversation with the id of the header is registered.
RouteFails(s) == kind[s] = "foreign" \/ ~registered

\* read_incoming_channel and route_incoming_channel, up to the push of AcceptQueue::add
RouterRoute ==
    LET s == reading
    IN  /\ router = "reading"
        /\ \/ /\ kind[s] \in Channels /\ s \notin stopped /\ registered
              /\ queue' = Append(queue, s)
              /\ router' = "notify"
           \/ /\ HeaderFails(s) \/ RouteFails(s)
              /\ router' = "ended"
              /\ UNCHANGED queue
        /\ reading' = None
        /\ UNCHANGED <<kind, link, registered, handler, stopped, task, arrived, permit,
                       acceptor, confirming, forwardVars>>

\* Mutant of RouterNotify: AcceptQueue::add does not notify.
RouterNotifySilent ==
    /\ router = "notify"
    /\ router' = "accept"
    /\ UNCHANGED <<kind, link, registered, handler, stopped, task, arrived, reading,
                   acceptVars, forwardVars>>

\* notify_one
RouterNotify ==
    /\ router = "notify"
    /\ permit' = TRUE
    /\ router' = "accept"
    /\ UNCHANGED <<kind, link, registered, handler, stopped, task, arrived, reading, queue,
                   acceptor, confirming, forwardVars>>

-----------------------------------------------------------------------------
(* The router of datagrams, which may take in after the end of the         *)
(* connection what has arrived before.                                     *)

\* In the map of the ChannelsManager, from where no channel is ever removed.
Registered(s) == task[s] # "none" \/ (acceptor = "adopt" /\ confirming = s)

\* The datagram of a channel that is not registered is parked in a queue of its own,
\* in the place of an earlier one; the router ignores the error ChannelNotFound.
ParkDatagram(s) ==
    /\ datagrams = "run"
    /\ ~Registered(s)
    /\ inbox[s].sent < MaxDatagrams[s]
    /\ inbox' = [inbox EXCEPT ![s].sent = @ + 1, ![s].parked = 1]
    /\ UNCHANGED <<kind, link, registered, handler, stopped, task, routerVars,
                   acceptVars, datagrams, tcp>>

\* wait_add_datagram of a channel of any kind, whether or not somebody reads its queue
RouteDatagram(s) ==
    /\ datagrams = "run"
    /\ Registered(s)
    /\ inbox[s].sent < MaxDatagrams[s]
    /\ IF inbox[s].queued < QueueSize
         THEN inbox' = [inbox EXCEPT ![s].sent = @ + 1, ![s].queued = @ + 1]
              /\ UNCHANGED datagrams
         ELSE inbox' = [inbox EXCEPT ![s].sent = @ + 1] /\ datagrams' = s
    /\ UNCHANGED <<kind, link, registered, handler, stopped, task, routerVars,
                   acceptVars, tcp>>

\* wait_add_datagram looks at nothing but the queue.
DatagramFits(s) ==
    /\ datagrams = s
    /\ inbox[s].queued < QueueSize
    /\ inbox' = [inbox EXCEPT ![s].queued = @ + 1]
    /\ datagrams' = "run"
    /\ UNCHANGED <<kind, link, registered, handler, stopped, task, routerVars,
                   acceptVars, tcp>>

\* The connection is closed, or a datagram has no channel id.
DatagramsEnd ==
    /\ datagrams = "run"
    /\ datagrams' = "ended"
    /\ UNCHANGED <<kind, link, registered, handler, stopped, task, routerVars,
                   acceptVars, inbox, tcp>>

-----------------------------------------------------------------------------
(* The tasks of the channels *)

\* The loop of a session ends by itself or, while it awaits a message, with its
\* connection (RustSession); an unsupported channel is told so and closed.
PlainTask(s) ==
    /\ task[s] = "run"
    /\ kind[s] \in {"session", "other"}
    /\ task' = [task EXCEPT ![s] = "done"]
    /\ UNCHANGED <<kind, link, registered, handler, stopped, routerVars, acceptVars,
                   forwardVars>>

\* write_input waits until the process takes its input, whatever becomes of the
\* connection meanwhile.
SessionWrites(s) ==
    /\ task[s] = "run"
    /\ kind[s] = "session"
    /\ task' = [task EXCEPT ![s] = "writing"]
    /\ UNCHANGED <<kind, link, registered, handler, stopped, routerVars, acceptVars,
                   forwardVars>>

\* The process has read, or has closed its input.
SessionWritten(s) ==
    /\ task[s] = "writing"
    /\ \E then \in {"run", "done"} : task' = [task EXCEPT ![s] = then]
    /\ UNCHANGED <<kind, link, registered, handler, stopped, routerVars, acceptVars,
                   forwardVars>>

\* TcpStream::connect, which is not in a select: it succeeds, or its error ends the task
\* and nothing tells the client.
TcpConnect(s) ==
    /\ task[s] = "run"
    /\ kind[s] = "tcp" /\ tcp[s].to = "none"
    /\ \/ /\ tcp' = [tcp EXCEPT ![s].to = "run", ![s].from = "run"]
          /\ UNCHANGED task
       \/ /\ task' = [task EXCEPT ![s] = "done"]
          /\ UNCHANGED tcp
    /\ UNCHANGED <<kind, link, registered, handler, stopped, routerVars, acceptVars,
                   datagrams, inbox>>

\* to_socket of handle_tcp_forwarding: the end of its loop, whatever the reason,
\* drops the write half, and the remote end sees an end of file ("fin").
TcpTo(s) ==
    /\ tcp[s].to = "run"
    /\ \/ /\ tcp[s].delivered < tcp[s].sent
          /\ tcp' = [tcp EXCEPT ![s].to = "writing"]
       \/ /\ \/ tcp[s].end # "open" /\ tcp[s].delivered = tcp[s].sent
             \/ s \in stopped
             \/ link = "closed"
          /\ tcp' = [tcp EXCEPT ![s].to = "fin"]
    /\ UNCHANGED <<kind, link, registered, handler, stopped, task, routerVars,
                   acceptVars, datagrams, inbox>>

\* write_all is not in the select: it waits for the remote end alone.
TcpWrite(s) ==
    /\ tcp[s].to = "writing"
    /\ IF tcp[s].remote = "gone"
         THEN tcp' = [tcp EXCEPT ![s].to = "broken"]
         ELSE tcp' = [tcp EXCEPT ![s].to = "run", ![s].delivered = @ + 1]
    /\ UNCHANGED <<kind, link, registered, handler, stopped, task, routerVars,
                   acceptVars, datagrams, inbox>>

\* Mutant of TcpFrom: the first direction to end takes the other one with it.
TcpFromEndsBoth(s) ==
    /\ tcp[s].from = "run"
    /\ tcp[s].remote # "open" \/ s \in stopped \/ link = "closed"
    /\ tcp' = [tcp EXCEPT ![s].from = "done", ![s].to = "fin"]
    /\ UNCHANGED <<kind, link, registered, handler, stopped, task, routerVars,
                   acceptVars, datagrams, inbox>>

\* from_socket: at the end of file of the remote end it returns, and the client is
\* not told; it also ends when it cannot write to the channel.
TcpFrom(s) ==
    /\ tcp[s].from = "run"
    /\ tcp[s].remote # "open" \/ s \in stopped \/ link = "closed"
    /\ tcp' = [tcp EXCEPT ![s].from = "done"]
    /\ UNCHANGED <<kind, link, registered, handler, stopped, task, routerVars,
                   acceptVars, datagrams, inbox>>

TcpRemote(s) ==
    /\ task[s] = "run" /\ tcp[s].to # "none"
    /\ \/ tcp[s].remote = "open" /\ tcp' = [tcp EXCEPT ![s].remote = "eof"]
       \/ tcp[s].remote # "gone" /\ tcp' = [tcp EXCEPT ![s].remote = "gone"]
    /\ UNCHANGED <<kind, link, registered, handler, stopped, task, routerVars,
                   acceptVars, datagrams, inbox>>

TcpDone(s) ==
    /\ task[s] = "run" /\ kind[s] = "tcp"
    /\ tcp[s].to \in {"fin", "broken"} /\ tcp[s].from = "done"
    /\ task' = [task EXCEPT ![s] = "done"]
    /\ UNCHANGED <<kind, link, registered, handler, stopped, routerVars, acceptVars,
                   forwardVars>>

\* UdpSocket::bind and connect
UdpBind(s) ==
    /\ task[s] = "run"
    /\ kind[s] = "udp" /\ inbox[s].reader = "none"
    /\ \/ /\ inbox' = [inbox EXCEPT ![s].reader = "run"]
          /\ UNCHANGED task
       \/ /\ inbox' = [inbox EXCEPT ![s].reader = "done"]
          /\ task' = [task EXCEPT ![s] = "done"]
    /\ UNCHANGED <<kind, link, registered, handler, stopped, routerVars, acceptVars,
                   datagrams, tcp>>

\* to_socket of handle_udp_forwarding: one error of the socket, such as the port
\* unreachable that an earlier datagram brought back, and nobody reads the queue.
UdpTo(s) ==
    /\ inbox[s].reader = "run"
    /\ \/ /\ inbox[s].queued > 0
          /\ \/ inbox' = [inbox EXCEPT ![s].queued = @ - 1]
             \/ inbox' = [inbox EXCEPT ![s].queued = @ - 1, ![s].reader = "done"]
       \/ /\ link = "closed"
          /\ inbox' = [inbox EXCEPT ![s].reader = "done"]
    /\ UNCHANGED <<kind, link, registered, handler, stopped, task, routerVars,
                   acceptVars, datagrams, tcp>>

\* from_socket has ended too: with the connection, or on an error before that.
UdpDone(s) ==
    /\ task[s] = "run" /\ kind[s] = "udp"
    /\ inbox[s].reader = "done"
    /\ task' = [task EXCEPT ![s] = "done"]
    /\ UNCHANGED <<kind, link, registered, handler, stopped, routerVars, acceptVars,
                   forwardVars>>

-----------------------------------------------------------------------------
HandlerStep == Leave \/ BreakLoop \/ Drain \/ AcceptNext \/ AcceptWake \/ Confirm \/ Adopt
RouterStep == RouterAccept \/ RouterRoute \/ RouterNotify
ForwardStep(s) ==
    \/ TcpConnect(s) \/ TcpTo(s) \/ TcpFrom(s) \/ TcpDone(s)
    \/ UdpBind(s) \/ UdpTo(s) \/ UdpDone(s)

\* What the client and the processes and hosts behind the channels do.
ClientStep(s) ==
    OpenStream(s) \/ StopStream(s) \/ SendData(s) \/ ParkDatagram(s) \/ RouteDatagram(s)
OutsideStep(s) == SessionWrites(s) \/ SessionWritten(s) \/ TcpWrite(s) \/ TcpRemote(s)

Next ==
    \/ Admit \/ HandlerStep \/ RouterStep \/ DatagramsEnd \/ CloseConnection
    \/ \E s \in DOMAIN kind :
          ClientStep(s) \/ OutsideStep(s) \/ DatagramFits(s) \/ PlainTask(s) \/ ForwardStep(s)

\* Tasks that can go on do; the client takes in what confirm_channel writes.  While
\* the connection is open nothing is assumed of the tasks of the channels: a session
\* need not end, a client need not read, a remote end need not take data, ever.  When
\* it is closed, a session comes back to next_message after finitely many messages, for
\* no more arrive, and TcpStream::connect has a time limit; but nothing is assumed of a
\* process that has input to read or of a remote host that has data to take.
Fairness ==
    /\ WF_vars(handler # "authorizing" /\ HandlerStep)
    /\ WF_vars(RouterStep)
    /\ WF_vars(link = "closed" /\ DatagramsEnd)
    /\ WF_vars(\E s \in Streams : DatagramFits(s))
    /\ \A s \in Streams :
          /\ SF_vars(link = "closed" /\ PlainTask(s))
          /\ WF_vars(link = "closed" /\ ForwardStep(s))

Spec == Init /\ [][Next]_vars /\ Fairness

-----------------------------------------------------------------------------
(* Properties *)

\* Something has made the router read no further: a stream that is not a channel of
\* this conversation, or one that stops short of its header.
RouterSpoiled ==
    \/ router = "ended"
    \/ reading # None /\ kind[reading] \notin Channels
    \/ \E i \in 1..Len(arrived) : kind[arrived[i]] \notin Channels

\* Every channel that an admitted client opens gets a task, in whatever order
\* headers, notifications and confirmations interleave, unless the client resets a
\* stream or closes the connection, or another of its streams stops the router.
StreamsAreServed ==
    \A s \in Streams :
        (handler = "serving" /\ Opened(s) /\ kind[s] \in Channels)
            ~> (task[s] # "none" \/ link = "closed" \/ stopped # {} \/ RouterSpoiled)

\* Nobody takes datagrams out of the queue of s, now or later.
NeverRead(s) == kind[s] # "udp" \/ inbox[s].reader = "done"

\* The router of datagrams waits for room in a full queue that nobody reads: that of a
\* session, of a TCP forwarding or of a UDP forwarding whose reader has gone, or one that
\* is no longer the channel's.
DatagramsStuck ==
    \/ datagrams = "replaced"
    \/ \E s \in Streams : datagrams = s /\ inbox[s].queued = QueueSize /\ NeverRead(s)

\* The task of s waits for a process to read its input or for a remote host.
WaitsOutside(s) == task[s] = "writing" \/ (task[s] = "run" /\ tcp[s].to = "writing")

\* When the connection has closed, or the accept loop has failed on one channel, the
\* conversation leaves the router's map, the connection closes and the tasks end.
\* The exceptions are real: a datagram router that waits for a queue nobody reads waits
\* for ever, and so does handle_conversation; a session in write_input waits for its
\* process and a TCP pump in write_all for its remote, with the connection long gone.
ConversationEnds ==
    (handler \in {"serving", "failed"} /\ (link = "closed" \/ handler = "failed"))
        ~> \/ /\ handler = "ended" /\ ~registered /\ link = "closed"
              /\ router = "ended"
              /\ \A s \in Streams : task[s] \in {"none", "done"} \/ WaitsOutside(s)
           \/ DatagramsStuck

\* The remote end of a TCP forwarding sees an end of file only after every message that
\* the client sent before its own end, or before what was no message, unless the stream
\* or the connection broke: then it sees one as well, and cannot tell.
FinMeansAll ==
    \A s \in Streams :
        (tcp[s].to = "fin" /\ link = "open" /\ s \notin stopped) =>
            tcp[s].end # "open" /\ tcp[s].delivered = tcp[s].sent
=================================================================================
