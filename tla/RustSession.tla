------------------------------ MODULE RustSession ------------------------------
(***************************************************************************)
(* A session channel of the Rust server (crates/ssh3-server/src/lib.rs):   *)
(* the task that handles the client's messages (handle_session_channel),   *)
(* the process it spawns, the tasks that pump the process's output to the  *)
(* channel (pump_process_output) and the task that reaps the process and   *)
(* sends the exit status.                                                  *)
(*                                                                         *)
(* Output and input are counted in units.  The client may send any message *)
(* at any time; a message that is answered with a line on stderr is        *)
(* "refused".  Writes on the channel are whole (RustChannelSend).          *)
(***************************************************************************)
EXTENDS Naturals

CONSTANTS
    Codes,        \* exit codes of processes
    Killed,       \* the fate of a process that a signal ended
    None,         \* no fate, no status
    PipeSize,     \* units the kernel buffers between the process and a pump
    InputSize,    \* units the kernel buffers for the process's stdin
    MaxOutput,    \* MaxOutput[s]: bound on the units written to s
    MaxMessages   \* bound on the client's messages

Streams == {"stdout", "stderr"}

VARIABLES
    msgs,     \* messages the client has sent
    loop,     \* handle_session_channel: "reading", "writing" (to stdin), "ended"
    pending,  \* 1 when pending_pty is Some
    session,  \* "none", or the RunningSession's kind: "pipe" or "pty"
    agent,    \* the agent socket: "none", "open" or "removed"
    child,    \* "none", "running", "exited" or "reaped"
    fate,     \* exit code of the process, or Killed
    input,    \* units in the process's stdin
    open,     \* the streams the process or a descendant can still write
    pipe,     \* pipe[s]: units in the pipe of s
    given,    \* given[s]: units ever written to s
    pump,     \* pump[s]: "none", "reading", "writing", "done" or "failed"
    hand,     \* hand[s]: units the pump has read and not written yet
    sent,     \* sent[s]: units of s that are on the channel
    waiter,   \* the task that waits: "none", "child", "stdout", "stderr",
              \* "send" or "done"
    status,   \* the exit status that is on the channel, or None
    peer      \* "open", "stopped" (the client reads the channel no more) or "lost"

vars == <<msgs, loop, pending, session, agent, child, fate, input, open, pipe,
          given, pump, hand, sent, waiter, status, peer>>

handlerVars == <<msgs, loop, pending, session, agent, input>>
outputVars == <<open, pipe, given, pump, hand, sent>>

Init ==
    /\ msgs = 0
    /\ loop = "reading"
    /\ pending = 0
    /\ session = "none"
    /\ agent = "none"
    /\ child = "none"
    /\ fate = None
    /\ input = 0
    /\ open = {}
    /\ pipe = [s \in Streams |-> 0]
    /\ given = [s \in Streams |-> 0]
    /\ pump = [s \in Streams |-> "none"]
    /\ hand = [s \in Streams |-> 0]
    /\ sent = [s \in Streams |-> 0]
    /\ waiter = "none"
    /\ status = None
    /\ peer = "open"

-----------------------------------------------------------------------------
(* The message loop *)

Messages == {"pty", "start", "signal", "bad-signal", "window-change", "data",
             "forward-agent", "extended-data", "other"}

\* next_message returns a message.
NextMessage ==
    /\ loop = "reading"
    /\ peer # "lost"
    /\ msgs < MaxMessages
    /\ msgs' = msgs + 1

\* handle_session_channel returns: the RunningSession is dropped, with the
\* process's stdin, and so is the AgentForwarding, whose socket is removed.
Ended ==
    /\ loop' = "ended"
    /\ agent' = IF agent = "open" THEN "removed" ELSE agent

\* The messages that are answered on stderr in the current state.
Refused(m) ==
    \/ m \in {"bad-signal", "extended-data", "other"}
    \/ m \in {"pty", "start"} /\ session # "none"
    \/ m = "signal" /\ (session = "none" \/ child = "reaped")
    \/ m = "window-change" /\ (session = "pipe" \/ (session = "none" /\ pending = 0))
    \/ m = "data" /\ session = "none"

\* write_stderr, which fails if the peer has gone meanwhile.  The line is the server's and
\* not counted in sent, which is the process's output; it may follow the exit status.
Refuse ==
    /\ NextMessage
    /\ \E m \in Messages : Refused(m)
    /\ \/ UNCHANGED <<loop, agent, peer>>
       \/ Ended /\ peer' = IF peer = "open" THEN "stopped" ELSE peer
    /\ UNCHANGED <<pending, session, child, fate, input, waiter, status>>
    /\ UNCHANGED outputVars

\* A pty request before the session starts; a second one replaces the first.
Pty ==
    /\ NextMessage
    /\ ~Refused("pty")
    /\ pending' = 1
    /\ UNCHANGED <<loop, session, agent, child, fate, input, waiter, status, peer>>
    /\ UNCHANGED outputVars

\* A shell or exec request: the process, its pumps and the waiter are spawned.
Start ==
    /\ NextMessage
    /\ ~Refused("start")
    /\ LET kind == IF pending = 1 THEN "pty" ELSE "pipe"
           streams == IF pending = 1 THEN {"stdout"} ELSE Streams
       IN  /\ session' = kind
           /\ open' = streams
           /\ pump' = [s \in Streams |-> IF s \in streams THEN "reading" ELSE "none"]
    /\ child' = "running"
    /\ waiter' = "child"
    /\ UNCHANGED <<loop, pending, agent, fate, input, pipe, given, hand, sent,
                   status, peer>>

\* The process cannot be spawned, or the agent's socket not be opened.
RequestFails ==
    /\ NextMessage
    /\ session = "none"
    /\ Ended
    /\ UNCHANGED <<pending, session, child, fate, input, waiter, status, peer>>
    /\ UNCHANGED outputVars

\* send_signal reaches the process, which may end, ignore or handle it; the id of
\* a reaped process may by then be another's, or its process group's.
Signal ==
    /\ NextMessage
    /\ session # "none"
    /\ \/ UNCHANGED <<child, fate>>
       \/ /\ child = "running"
          /\ child' = "exited"
          /\ fate' = Killed
    /\ UNCHANGED <<loop, pending, session, agent, input, waiter, status, peer>>
    /\ UNCHANGED outputVars

\* apply_window_change, or a new size for the pending pty.
WindowChange ==
    /\ NextMessage
    /\ ~Refused("window-change")
    /\ UNCHANGED <<loop, pending, session, agent, child, fate, input, waiter,
                   status, peer>>
    /\ UNCHANGED outputVars

\* The data "forward-agent" before the session starts.
ForwardAgent ==
    /\ NextMessage
    /\ session = "none"
    /\ agent' = "open"
    /\ UNCHANGED <<loop, pending, session, child, fate, input, waiter, status, peer>>
    /\ UNCHANGED outputVars

\* Any other data, once the session has started: write_input begins.
Data ==
    /\ NextMessage
    /\ session # "none"
    /\ loop' = "writing"
    /\ UNCHANGED <<pending, session, agent, child, fate, input, waiter, status, peer>>
    /\ UNCHANGED outputVars

\* write_input ends: there is room, or nobody can read stdin any more, be the process
\* running or not (an error).
WriteInput ==
    /\ loop = "writing"
    /\ \/ /\ input < InputSize
          /\ input' = input + 1
          /\ loop' = "reading"
          /\ UNCHANGED agent
       \/ /\ Ended
          /\ UNCHANGED input
    /\ UNCHANGED <<msgs, pending, session, child, fate, waiter, status, peer>>
    /\ UNCHANGED outputVars

\* next_message fails: the client has closed its side, reset it, or sent
\* something that is no message.
InputEnds ==
    /\ loop = "reading"
    /\ Ended
    /\ UNCHANGED <<msgs, pending, session, child, fate, input, waiter, status, peer>>
    /\ UNCHANGED outputVars

-----------------------------------------------------------------------------
(* The process and its descendants (not part of the repository) *)

\* A unit is written to s; one that nobody can read any more is lost.
ProcessWrites(s) ==
    /\ s \in open
    /\ given[s] < MaxOutput[s]
    /\ pump[s] # "failed"
    /\ pipe[s] < PipeSize
    /\ pipe' = [pipe EXCEPT ![s] = @ + 1]
    /\ given' = [given EXCEPT ![s] = @ + 1]
    /\ UNCHANGED handlerVars
    /\ UNCHANGED <<child, fate, open, pump, hand, sent, waiter, status, peer>>

ProcessReads ==
    /\ child = "running"
    /\ input > 0
    /\ input' = input - 1
    /\ UNCHANGED <<msgs, loop, pending, session, agent, child, fate, waiter,
                   status, peer>>
    /\ UNCHANGED outputVars

ProcessExits ==
    /\ child = "running"
    /\ child' = "exited"
    /\ fate' \in Codes \cup {Killed}
    /\ UNCHANGED handlerVars
    /\ UNCHANGED <<waiter, status, peer>>
    /\ UNCHANGED outputVars

\* The last process that can write s closes it: descendants may outlive the
\* process and keep its streams.
StreamCloses(s) ==
    /\ s \in open
    /\ child # "running"
    /\ open' = open \ {s}
    /\ UNCHANGED handlerVars
    /\ UNCHANGED <<child, fate, pipe, given, pump, hand, sent, waiter, status, peer>>

-----------------------------------------------------------------------------
(* The pumps and the waiter *)

\* reader.read of pump_process_output returns some of what is in the pipe, or
\* that the stream has ended (a pty ends with an error).
PumpReads(s) ==
    /\ pump[s] = "reading"
    /\ \/ \E n \in 1 .. pipe[s] :
             /\ hand' = [hand EXCEPT ![s] = n]
             /\ pipe' = [pipe EXCEPT ![s] = @ - n]
             /\ pump' = [pump EXCEPT ![s] = "writing"]
       \/ /\ pipe[s] = 0
          /\ s \notin open
          /\ pump' = [pump EXCEPT ![s] = "done"]
          /\ UNCHANGED <<hand, pipe>>
    /\ UNCHANGED handlerVars
    /\ UNCHANGED <<child, fate, open, given, sent, waiter, status, peer>>

\* channel.write_data; an error ends the pump and closes its end of the pipe.
PumpWrites(s) ==
    /\ pump[s] = "writing"
    /\ hand' = [hand EXCEPT ![s] = 0]
    /\ \/ /\ peer = "open"
          /\ sent' = [sent EXCEPT ![s] = @ + hand[s]]
          /\ pump' = [pump EXCEPT ![s] = "reading"]
       \/ /\ peer # "open"
          /\ pump' = [pump EXCEPT ![s] = "failed"]
          /\ UNCHANGED sent
    /\ UNCHANGED handlerVars
    /\ UNCHANGED <<child, fate, open, pipe, given, waiter, status, peer>>

\* child.wait().await
Reap ==
    /\ waiter = "child"
    /\ child = "exited"
    /\ child' = "reaped"
    /\ waiter' = "stdout"
    /\ UNCHANGED handlerVars
    /\ UNCHANGED <<fate, status, peer>>
    /\ UNCHANGED outputVars

\* Mutant of JoinPump: joins the pumps of a pty session as if it had two.
JoinPumpBoth ==
    /\ \E s \in Streams :
          /\ waiter = s
          /\ pump[s] \in {"done", "failed"}
          /\ waiter' = IF s = "stdout" THEN "stderr" ELSE "send"
    /\ UNCHANGED handlerVars
    /\ UNCHANGED <<child, fate, status, peer>>
    /\ UNCHANGED outputVars

\* stdout_task.await, then stderr_task.await; a pty has one output_task.
JoinPump ==
    /\ \E s \in Streams :
          /\ waiter = s
          /\ pump[s] \in {"done", "failed"}
          /\ waiter' = IF s = "stdout" /\ session = "pipe" THEN "stderr" ELSE "send"
    /\ UNCHANGED handlerVars
    /\ UNCHANGED <<child, fate, status, peer>>
    /\ UNCHANGED outputVars

\* Mutant of ExitStatus: a process without an exit code has succeeded.
ExitStatusDefault(f) == IF f = Killed THEN 0 ELSE f

\* status.code().unwrap_or(1).max(0)
ExitStatus(f) == IF f = Killed THEN 1 ELSE f

\* The exit status is sent; an error is ignored.
SendStatus ==
    /\ waiter = "send"
    /\ waiter' = "done"
    /\ status' = IF peer = "open" THEN ExitStatus(fate) ELSE None
    /\ UNCHANGED handlerVars
    /\ UNCHANGED <<child, fate, peer>>
    /\ UNCHANGED outputVars

\* The client stops reading the channel, or the connection is lost.
PeerLost ==
    /\ \/ peer = "open" /\ peer' = "stopped"
       \/ peer # "lost" /\ peer' = "lost"
    /\ UNCHANGED handlerVars
    /\ UNCHANGED <<child, fate, waiter, status>>
    /\ UNCHANGED outputVars

-----------------------------------------------------------------------------

Handler ==
    \/ Refuse \/ Pty \/ Start \/ RequestFails \/ Signal \/ WindowChange
    \/ ForwardAgent \/ Data \/ WriteInput \/ InputEnds

Waiter == Reap \/ JoinPump \/ SendStatus

\* A task writes on the channel, and the client may give it no room.
PumpBlocked(s) == peer = "open" /\ pump[s] = "writing"
WaiterBlocked == peer = "open" /\ waiter = "send"

Next ==
    \/ Handler
    \/ Waiter
    \/ ProcessReads
    \/ ProcessExits
    \/ PeerLost
    \/ \E s \in Streams :
          ProcessWrites(s) \/ StreamCloses(s) \/ PumpReads(s) \/ PumpWrites(s)

\* The runtime polls the pumps and the waiter.  Nothing is assumed of the client, which
\* may never take what is written on the channel, of the process or of the connection.
Fairness ==
    /\ WF_vars(~WaiterBlocked /\ Waiter)
    /\ \A s \in Streams : WF_vars(PumpReads(s) \/ (~PumpBlocked(s) /\ PumpWrites(s)))

Spec == Init /\ [][Next]_vars /\ Fairness

-----------------------------------------------------------------------------

TypeOK ==
    /\ msgs \in 0 .. MaxMessages
    /\ loop \in {"reading", "writing", "ended"}
    /\ pending \in {0, 1}
    /\ session \in {"none", "pipe", "pty"}
    /\ agent \in {"none", "open", "removed"}
    /\ child \in {"none", "running", "exited", "reaped"}
    /\ fate \in Codes \cup {Killed, None}
    /\ input \in 0 .. InputSize
    /\ open \subseteq Streams
    /\ \A f \in {pipe, given, hand, sent} : f \in [Streams -> Nat]
    /\ pump \in [Streams -> {"none", "reading", "writing", "done", "failed"}]
    /\ waiter \in Streams \cup {"none", "child", "send", "done"}
    /\ status \in Nat \cup {None}
    /\ peer \in {"open", "stopped", "lost"}

\* The exit status is the last thing a session reports: by then all output that
\* the process and its descendants wrote is on the channel, unless a write on the
\* channel has failed.
OutputBeforeStatus ==
    status # None =>
        /\ \A s \in Streams : pump[s] \in {"none", "done", "failed"}
        /\ peer = "open" => sent = given

\* The client is told 0 only if the process exited with 0: a process that a
\* signal ended is not reported as a success.
NoFalseSuccess == status = 0 => fate = 0
=============================================================================
