-------------------------------- MODULE RustAgent --------------------------------
(***************************************************************************)
(* A session of the Rust client on a conversation that is established, and *)
(* the forwarding of the client's SSH agent into it, both ends.  The       *)
(* client sends its requests, turns the terminal raw, reads until the exit *)
(* status and shuts down.  The server listens on a socket for the session; *)
(* each connection of a remote process to it becomes a channel that the    *)
(* server opens, and the forwarder of the client takes these channels one  *)
(* at a time to the local agent.  What the session's process reads and     *)
(* writes is RustSession; how the server gets the session is RustServer.   *)
(***************************************************************************)
EXTENDS Sequences

CONSTANTS
    Procs,        \* connections of remote processes to the agent socket
    Configs,      \* of the client; which of Procs there are, whether they may shut down
                  \* their writing side alone, whether the local agent may be gone, and
                  \* whether the server sends more datagrams than a queue holds
    None

VARIABLES
    config,
    link,      \* the QUIC connection
    pc,        \* where run_stdio_on_client or run_capture_on_client is
    raw,       \* is the terminal in raw mode?
    requests,  \* the requests that the client has sent: "none", "forward", "all"
    input,     \* the client's side of the session channel
    stdin,     \* a read of the client's standard input: "none", "pending", "done"
    datagrams, \* the client's task that routes datagrams: "run", "full"
    handler,   \* handle_session_channel
    status,    \* the exit status: "none", "sent"
    socket,    \* the agent socket of the session
    conn,      \* connections to it: the socket of the process, the server's task, what
               \* the client has said on the channel, and where the request is
    queue,     \* the accept queue of the client's conversation
    fwd,       \* where spawn_agent_forwarder is
    cur,       \* the channel in forward_agent_channel
    agent      \* the local agent's side of its connection: "open", "closed"

clientVars == <<pc, raw, requests, input, stdin, datagrams>>
serverVars == <<handler, status, socket>>
forwarder == <<queue, fwd, cur>>
vars == <<config, link, clientVars, serverVars, conn, forwarder, agent>>

Init ==
    /\ config \in Configs
    /\ link = "open"
    /\ pc = IF config.forward THEN "forward"
            ELSE IF config.capture THEN "runtime" ELSE "requests"
    /\ raw = FALSE
    /\ requests = "none"
    /\ input = "open"
    /\ stdin = "none"
    /\ datagrams = "run"
    /\ handler = "run"
    /\ status = "none"
    /\ socket = "none"
    /\ conn = [p \in Procs |-> [sock |-> "none", task |-> "none", reply |-> "none",
                                req |-> "none"]]
    /\ queue = <<>>
    /\ fwd = "none"
    /\ cur = None
    /\ agent = "open"

-----------------------------------------------------------------------------
(* The client *)

\* Mutant of Leave: shutdown awaits the tasks before it closes the connection.
LeaveWaitsFirst ==
    /\ pc' = "shutdown"
    /\ raw' = FALSE
    /\ fwd' = "aborted"
    /\ UNCHANGED link

\* Every return, with a result or an error, drops the SessionRuntime: the terminal is
\* restored and the forwarder aborted, though not the two pumps it has spawned.  Then
\* shutdown closes the connection.
Leave ==
    /\ pc' = "shutdown"
    /\ raw' = FALSE
    /\ fwd' = "aborted"
    /\ link' = "closed"

\* send_forward_agent_request comes before everything else.
SendForward ==
    /\ pc = "forward"
    /\ IF link = "open"
         THEN /\ requests' = "forward"
              /\ pc' = IF config.capture THEN "runtime" ELSE "requests"
              /\ UNCHANGED <<raw, fwd, link>>
         ELSE Leave /\ UNCHANGED requests
    /\ UNCHANGED <<config, input, stdin, datagrams, serverVars, conn, queue, cur, agent>>

\* send_initial_session_requests.  A captured session sends nothing more and closes,
\* unless it forwards the agent: the server's end of the forwarding is the end of its
\* input.
SendRequests ==
    /\ pc = "requests"
    /\ IF link = "open"
         THEN /\ requests' = "all"
              /\ pc' = IF config.capture THEN "reading" ELSE "runtime"
              /\ input' = IF config.capture /\ ~config.forward THEN "closed" ELSE input
              /\ UNCHANGED <<raw, fwd, link>>
         ELSE Leave /\ UNCHANGED <<requests, input>>
    /\ UNCHANGED <<config, stdin, datagrams, serverVars, conn, queue, cur, agent>>

\* build_session_runtime: raw mode for a shell on a terminal, then the forwarder,
\* whose socket may be unknown.  A session on stdio starts to read its input.
BuildRuntime ==
    /\ pc = "runtime"
    /\ IF config.forward /\ ~config.agent_socket
         THEN Leave /\ UNCHANGED stdin
         ELSE /\ pc' = IF config.capture THEN "requests" ELSE "reading"
              /\ raw' = config.terminal
              /\ fwd' = IF config.forward THEN "accept" ELSE "none"
              /\ stdin' = IF config.capture THEN "none" ELSE "pending"
              /\ UNCHANGED link
    /\ UNCHANGED <<config, requests, input, datagrams, serverVars, conn, queue, cur, agent>>

\* The task that reads stdin: at the end of file the channel is closed, after an error
\* of the read or of the channel it is not.  tokio's read runs in a thread of its own,
\* and is there until it returns also when the task is aborted.
StdinEnds ==
    /\ stdin = "pending"
    /\ stdin' = "done"
    /\ input' \in IF pc \in {"reading", "writing"} THEN {"closed", input} ELSE {input}
    /\ UNCHANGED <<config, link, pc, raw, requests, datagrams, serverVars, conn, forwarder,
                   agent>>

\* next_message brings output: write_all waits until somebody takes it, or fails.
WriteOutput ==
    /\ ~config.capture
    /\ \/ /\ pc = "reading"
          /\ pc' = "writing"
          /\ UNCHANGED <<raw, fwd, link>>
       \/ /\ pc = "writing"
          /\ \/ pc' = "reading" /\ UNCHANGED <<raw, fwd, link>>
             \/ Leave
    /\ UNCHANGED <<config, requests, input, stdin, datagrams, serverVars, conn, queue, cur,
                   agent>>

\* next_message brings the exit status or signal, or fails with the connection.
ReadStatus ==
    /\ pc = "reading"
    /\ status = "sent" \/ link = "closed"
    /\ Leave
    /\ UNCHANGED <<config, requests, input, stdin, datagrams, serverVars, conn, queue, cur,
                   agent>>

\* dispatch_datagrams_forever: no task of this client reads the datagrams of a channel,
\* and the one for which the queue has no room is waited with for ever.
DatagramsFill ==
    /\ config.datagrams
    /\ datagrams = "run"
    /\ pc \notin {"returned", "exited"}
    /\ datagrams' = "full"
    /\ UNCHANGED <<config, link, pc, raw, requests, input, stdin, serverVars, conn,
                   forwarder, agent>>

\* The rest of ActiveClient::shutdown: it awaits the driver, the router of channels and
\* the router of datagrams, which end with the connection unless the last one waits.
Shutdown ==
    /\ pc = "shutdown"
    /\ link = "closed"
    /\ datagrams = "run"
    /\ pc' = "returned"
    /\ UNCHANGED <<config, link, raw, requests, input, stdin, datagrams, serverVars, conn,
                   forwarder, agent>>

\* main returns, and the end of the runtime waits for a read of stdin that is pending.
Exit ==
    /\ pc = "returned"
    /\ stdin # "pending"
    /\ pc' = "exited"
    /\ UNCHANGED <<config, link, raw, requests, input, stdin, datagrams, serverVars, conn,
                   forwarder, agent>>

-----------------------------------------------------------------------------
(* The server's session *)

\* open_agent_socket_and_forward_agent: the socket is there before the process.
SessionStarts ==
    /\ handler = "run"
    /\ requests # "none"
    /\ socket = "none"
    /\ config.forward
    /\ \/ socket' = "listening" /\ UNCHANGED handler
       \/ handler' = "returned" /\ UNCHANGED socket
    /\ UNCHANGED <<config, link, clientVars, status, conn, forwarder, agent>>

ProcessExits ==
    /\ requests = "all"
    /\ config.forward => socket # "none"
    /\ link = "open"
    /\ status = "none"
    /\ status' = "sent"
    /\ UNCHANGED <<config, link, clientVars, handler, socket, conn, forwarder, agent>>

\* write_input waits for the process, whatever becomes of the connection.
HandlerWrites ==
    /\ handler = "run"
    /\ requests = "all" /\ ~config.capture
    /\ config.forward => socket # "none"
    /\ handler' = "writing"
    /\ UNCHANGED <<config, link, clientVars, status, socket, conn, forwarder, agent>>

\* Whether the process still runs or not, AgentForwarding::drop takes the socket away.
Return ==
    /\ handler' = "returned"
    /\ socket' = IF socket = "listening" THEN "gone" ELSE socket

\* The process has read, or takes no more input, as one that has exited.
HandlerWritten ==
    /\ handler = "writing"
    /\ \/ handler' = "run" /\ UNCHANGED socket
       \/ Return
    /\ UNCHANGED <<config, link, clientVars, status, conn, forwarder, agent>>

\* next_message fails at the end of the input and on an error of the connection.
HandlerReturns ==
    /\ handler = "run"
    /\ \/ input = "closed" /\ (config.forward => socket # "none")
       \/ link = "closed"
    /\ Return
    /\ UNCHANGED <<config, link, clientVars, status, conn, forwarder, agent>>

-----------------------------------------------------------------------------
(* Remote processes *)

ProcConnects(p) ==
    /\ socket = "listening"
    /\ p \in config.procs
    /\ conn[p].sock = "none"
    /\ conn' = [conn EXCEPT ![p].sock = "open", ![p].task = "backlog"]
    /\ UNCHANGED <<config, link, clientVars, serverVars, forwarder, agent>>

\* The agent protocol has one request at a time.
ProcAsks(p) ==
    /\ link = "open"
    /\ conn[p].sock = "open"
    /\ conn[p].req = "none"
    /\ conn' = [conn EXCEPT ![p].req = "asked"]
    /\ UNCHANGED <<config, link, clientVars, serverVars, forwarder, agent>>

\* close, or shutdown of the writing side alone.
ProcCloses(p) ==
    /\ link = "open"
    /\ conn[p].sock \in {"open", "half"}
    /\ \/ conn' = [conn EXCEPT ![p].sock = "closed"]
       \/ /\ config.half_closes
          /\ conn[p].sock = "open"
          /\ conn' = [conn EXCEPT ![p].sock = "half"]
    /\ UNCHANGED <<config, link, clientVars, serverVars, forwarder, agent>>

-----------------------------------------------------------------------------
(* The server's end of a connection: handle_agent_socket_conn *)

\* The task returns and the socket of the process is closed; what becomes of a request
\* that nobody waits for is left out.
Ended(p) ==
    /\ conn' = [conn EXCEPT ![p].task = "done", ![p].sock = "closed", ![p].req = "none"]
    /\ UNCHANGED <<config, link, clientVars, serverVars, forwarder, agent>>

\* The listener accepts, unless it has been aborted; open_channel and the header, which
\* the client's router reads and queues.
ServerOpens(p) ==
    /\ conn[p].task = "backlog"
    /\ IF socket = "listening" /\ link = "open"
         THEN /\ conn' = [conn EXCEPT ![p].task = "waiting"]
              /\ queue' = Append(queue, p)
              /\ UNCHANGED <<config, link, clientVars, serverVars, fwd, cur, agent>>
         ELSE Ended(p)

\* wait_for_confirmation, which nothing but the channel ends.
ServerConfirmed(p) ==
    /\ conn[p].task = "waiting"
    /\ \/ /\ conn[p].reply # "none"
          /\ conn' = [conn EXCEPT ![p].task = "pumping"]
          /\ UNCHANGED <<config, link, clientVars, serverVars, forwarder, agent>>
       \/ link = "closed" /\ Ended(p)

\* from_socket sends a request; to_socket brings an answer.
ServerPumps(p) ==
    /\ conn[p].task = "pumping"
    /\ link = "open"
    /\ \/ conn[p].req = "asked" /\ conn' = [conn EXCEPT ![p].req = "sent"]
       \/ /\ conn[p].req = "returned"
          /\ conn[p].sock # "closed"
          /\ conn' = [conn EXCEPT ![p].req = "none"]
    /\ UNCHANGED <<config, link, clientVars, serverVars, forwarder, agent>>

\* Mutant of ServerEnds: both pumps are awaited, and the one that reads the socket of a
\* process does not end while the process keeps it.
ServerEndsBoth(p) ==
    /\ conn[p].task = "pumping"
    /\ conn[p].sock # "open"
    /\ Ended(p)

\* The first pump to end ends the connection: the process sends no more (it may still
\* wait for an answer), the client has closed the channel, or the connection is gone.
ServerEnds(p) ==
    /\ conn[p].task = "pumping"
    /\ \/ conn[p].sock # "open" /\ conn[p].req # "asked"
       \/ conn[p].reply = "closed" /\ conn[p].req # "returned"
       \/ link = "closed"
    /\ Ended(p)

-----------------------------------------------------------------------------
(* The client's end: spawn_agent_forwarder and forward_agent_channel *)

\* accept_channel confirms; it looks at the connection only then.
ForwarderAccepts ==
    /\ fwd = "accept"
    /\ queue # <<>>
    /\ queue' = Tail(queue)
    /\ IF link = "open"
         THEN /\ conn' = [conn EXCEPT ![Head(queue)].reply = "confirmed"]
              /\ cur' = Head(queue)
              /\ fwd' = "connect"
         ELSE fwd' = "ended" /\ UNCHANGED <<conn, cur>>
    /\ UNCHANGED <<config, link, clientVars, serverVars, agent>>

\* An agent that is not there is no benign error: the forwarder ends, and leaves the
\* confirmed channel open.
ForwarderConnects ==
    /\ fwd = "connect"
    /\ \/ fwd' = "forward" /\ UNCHANGED cur
       \/ config.agent_ends /\ fwd' = "refused" /\ cur' = None
    /\ UNCHANGED <<config, link, clientVars, serverVars, conn, queue, agent>>

\* to_agent, and from_agent when the agent has answered.
ForwarderPumps ==
    /\ fwd = "forward"
    /\ link = "open"
    /\ agent = "open"
    /\ \/ conn[cur].req = "sent" /\ conn' = [conn EXCEPT ![cur].req = "given"]
       \/ conn[cur].req = "given" /\ conn' = [conn EXCEPT ![cur].req = "returned"]
    /\ UNCHANGED <<config, link, clientVars, serverVars, forwarder, agent>>

\* The first pump to end ends the other one, whatever it still holds: the server has
\* closed the channel, the agent its socket, or the connection is gone.  The pumps of
\* an aborted forwarder end by themselves.
ForwarderEnds(next) ==
    /\ cur # None
    /\ fwd \in {"forward", "aborted"}
    /\ \/ conn[cur].task = "done"
       \/ agent = "closed"
       \/ link = "closed"
    /\ conn' = [conn EXCEPT ![cur].reply = "closed"]
    /\ cur' = None
    /\ agent' = "open"
    /\ fwd' = IF fwd = "aborted" THEN fwd ELSE next
    /\ UNCHANGED <<config, link, clientVars, serverVars, queue>>

\* Mutant of ForwarderNext: every error ends the forwarder.
ForwarderNextOnlyOnce == ForwarderEnds("ended")

\* The end of a channel is a benign error.
ForwarderNext == ForwarderEnds("accept")

-----------------------------------------------------------------------------
(* The environment *)

\* The agent closes its connection, or ends.
AgentCloses ==
    /\ link = "open"
    /\ fwd = "forward"
    /\ agent' = "closed"
    /\ UNCHANGED <<config, link, clientVars, serverVars, conn, forwarder>>

ConnectionLost ==
    /\ link = "open"
    /\ link' = "closed"
    /\ UNCHANGED <<config, clientVars, serverVars, conn, forwarder, agent>>

ClientStep ==
    SendForward \/ SendRequests \/ BuildRuntime \/ Shutdown \/ Exit
ServerStep(p) ==
    ServerOpens(p) \/ ServerConfirmed(p) \/ ServerPumps(p) \/ ServerEnds(p)
ForwarderStep ==
    ForwarderAccepts \/ ForwarderConnects \/ ForwarderPumps \/ ForwarderNext

Next ==
    \/ ClientStep \/ ReadStatus \/ WriteOutput \/ StdinEnds \/ DatagramsFill
    \/ SessionStarts \/ ProcessExits \/ HandlerWrites \/ HandlerWritten \/ HandlerReturns
    \/ ForwarderStep \/ AgentCloses \/ ConnectionLost
    \/ \E p \in Procs :
          ProcConnects(p) \/ ProcAsks(p) \/ ProcCloses(p) \/ ServerStep(p)

\* Tasks that can go on do, and an agent that is there answers.  Finitely much output
\* comes before the exit status, and finitely much input before the end of a connection.
\* The remote processes may keep their connections for ever; nothing is assumed of the
\* session's process, of who takes the client's output or of who gives it input.
Fairness ==
    /\ WF_vars(ClientStep)
    /\ SF_vars(ReadStatus)
    /\ SF_vars(link = "closed" /\ HandlerReturns)
    /\ WF_vars(ForwarderStep)
    /\ \A p \in Procs : WF_vars(ServerStep(p))

Spec == Init /\ [][Next]_vars /\ Fairness

-----------------------------------------------------------------------------
(* Properties *)

Waits(p) == conn[p].sock = "open" /\ conn[p].req # "none"
\* The forwarder is with another connection.
Held(p) == cur \notin {p, None}

\* What forward_agent_survives_multiple_remote_connections_in_one_session tests in one
\* order: a process that waits for the agent is answered or sees its socket closed,
\* whatever connections came before, unless the session of the client ends, the
\* forwarder found no agent once, or one other connection is kept open for ever.
AgentAnswers ==
    \A p \in Procs :
        Waits(p) ~> \/ ~Waits(p)
                    \/ link = "closed" \/ fwd \in {"none", "aborted", "refused"}
                    \/ []Held(p)

\* What keeps a client that has restored its terminal: the router of datagrams waits for
\* a queue nobody reads, or a read of stdin has not returned.
Lingers ==
    /\ ~raw
    /\ \/ pc = "shutdown" /\ datagrams = "full"
       \/ pc = "returned" /\ stdin = "pending"

\* When the exit status has been sent or the connection is gone, the client restores the
\* terminal and leaves: nothing that shutdown awaits needs what shutdown ends.  The
\* exceptions are real: output that nobody takes, a server that has sent more datagrams
\* than a queue holds, and a read of stdin that holds the process up until input comes.
ClientEnds ==
    (status = "sent" \/ link = "closed")
        ~> (pc = "exited" /\ ~raw) \/ []Lingers \/ [](pc = "writing")

\* After the connection nothing of the forwarding is left: no task of a connection, even
\* of a process that keeps it, no connection to the local agent, and no socket that a
\* process could connect to, unless write_input waits for ever for the session's process.
AgentForwardingEnds ==
    link = "closed" ~>
        /\ \A p \in Procs : conn[p].task \in {"none", "done"}
        /\ cur = None
        /\ socket # "listening" \/ handler = "writing"
=================================================================================
