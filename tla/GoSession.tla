------------------------------- MODULE GoSession -------------------------------
(***************************************************************************)
(* A session channel of the Go server (cmd/ssh3-server.go): the goroutine  *)
(* that handles the client's messages, the command it starts, and the      *)
(* goroutines of execCmdInBackground: two readers of the command's output, *)
(* the one that waits for the command, and the select loop that writes the *)
(* output and the exit status on the channel.                              *)
(*                                                                         *)
(* Output and input are counted in units.  A Go channel of capacity one is *)
(* a slot: None when it is empty.  A message that makes its handler fail   *)
(* ends the session.                                                       *)
(***************************************************************************)
EXTENDS Naturals

CONSTANTS
    Codes,        \* exit codes of commands
    Killed,       \* the fate of a command that a signal ended
    TooLong,      \* uint64(-1), which no QUIC varint holds
    None,         \* no fate, no status, nothing in a slot
    PipeSize,     \* units the kernel buffers between the command and a reader
    InputSize,    \* units the kernel buffers for the command's stdin
    MaxOutput,    \* MaxOutput[s]: bound on the units written to s
    MaxMessages   \* bound on the client's messages

Streams == {"stdout", "stderr"}

VARIABLES
    msgs,    \* messages the client has sent
    loop,    \* the message loop: "reading", "writing" (to stdin), "waiting"
             \* (for the command, after the client's EOF) or "ended"
    end,     \* why it has ended: "none", "eof", "error", "done", "cancelled"
    pty,     \* 1 when session.pty is set
    session, \* "larval", or "pipe" or "pty" when channelState is OPEN
    child,   \* "none", "running", "exited" or "reaped"
    fate,    \* exit code of the command, or Killed
    stdin,   \* units in the command's stdin
    open,    \* the streams the command or a descendant can still write
    pipe,    \* pipe[s]: units in the pipe of s
    given,   \* given[s]: units ever written to s
    reader,  \* reader[s]: "none", "reading", "pushing" or "closed"
    hand,    \* hand[s]: what the reader has read; 0 with the stream's end
    slot,    \* slot[s]: what is in stdoutChan or stderrChan
    writing, \* writing[s]: units of s that the select loop is writing
    sent,    \* sent[s]: units of s that are on the channel
    waiter,  \* "none", "output", "command", "result" or "closed"
    exec,    \* the select loop: "none", "select", "writing", "returned" or "panicked"
    nil,     \* the channels that the select loop has disabled
    status,  \* the exit status that is on the channel, or None
    stream,  \* the channel's send side: "open", "closed", "stopped"
             \* (by the client) or "lost" (with the connection)
    ctx      \* the conversation's context: "open" or "cancelled"

handlerVars == <<msgs, loop, end, pty, session, stdin>>
processVars == <<child, fate, open, given>>
execVars == <<reader, hand, slot, writing, sent, waiter, exec, nil, status>>

vars == <<handlerVars, processVars, pipe, execVars, stream, ctx>>

\* A panic in a goroutine ends the server.
Up == exec # "panicked"

Init ==
    /\ msgs = 0
    /\ loop = "reading"
    /\ end = "none"
    /\ pty = 0
    /\ session = "larval"
    /\ child = "none"
    /\ fate = None
    /\ stdin = 0
    /\ open = {}
    /\ pipe = [s \in Streams |-> 0]
    /\ given = [s \in Streams |-> 0]
    /\ reader = [s \in Streams |-> "none"]
    /\ hand = [s \in Streams |-> 0]
    /\ slot = [s \in Streams |-> None]
    /\ writing = [s \in Streams |-> 0]
    /\ sent = [s \in Streams |-> 0]
    /\ waiter = "none"
    /\ exec = "none"
    /\ nil = {}
    /\ status = None
    /\ stream = "open"
    /\ ctx = "open"

-----------------------------------------------------------------------------
(* The message loop *)

\* channel.NextMessage returns a message.
NextMessage ==
    /\ loop = "reading"
    /\ stream # "lost"
    /\ msgs < MaxMessages
    /\ msgs' = msgs + 1

\* The loop returns: its deferred conv.Close() and channel.Close() run.
Returns(why) ==
    /\ loop' = "ended"
    /\ end' = why
    /\ ctx' = "cancelled"
    /\ stream' = IF stream = "open" THEN "closed" ELSE stream

\* A pty request on a larval session without one.
NewPtyReq ==
    /\ NextMessage
    /\ session = "larval"
    /\ pty = 0
    /\ pty' = 1
    /\ UNCHANGED <<loop, end, session, stdin, pipe, stream, ctx>>
    /\ UNCHANGED processVars
    /\ UNCHANGED execVars

\* newCommand for a shell or exec request: the command and the goroutines of
\* execCmdInBackground are started.
NewCommand ==
    /\ NextMessage
    /\ session = "larval"
    /\ session' = IF pty = 1 THEN "pty" ELSE "pipe"
    /\ child' = "running"
    /\ open' = IF pty = 1 THEN {"stdout"} ELSE Streams
    /\ reader' = [s \in Streams |-> IF s \in open' THEN "reading" ELSE "closed"]
    /\ waiter' = "output"
    /\ exec' = "select"
    /\ UNCHANGED <<loop, end, pty, fate, stdin, pipe, given, hand, slot, writing,
                   sent, nil, status, stream, ctx>>

\* newSignalReq with a signal it knows; the error of Process.Signal is ignored.
NewSignalReq ==
    /\ NextMessage
    /\ session # "larval"
    /\ \/ UNCHANGED <<child, fate>>
       \/ /\ child = "running"
          /\ child' = "exited"
          /\ fate' = Killed
    /\ UNCHANGED <<loop, end, pty, session, stdin, open, given, pipe, stream, ctx>>
    /\ UNCHANGED execVars

\* newDataReq: the write to the command's stdin begins.
NewDataReq ==
    /\ NextMessage
    /\ session # "larval"
    /\ loop' = "writing"
    /\ UNCHANGED <<end, pty, session, stdin, pipe, stream, ctx>>
    /\ UNCHANGED processVars
    /\ UNCHANGED execVars

\* The write returns: the kernel has room, or nobody can read stdin any more, be the
\* command running or not.  Its error is ignored.
StdinWritten ==
    /\ loop = "writing"
    /\ \/ stdin < InputSize /\ stdin' = stdin + 1
       \/ UNCHANGED stdin
    /\ loop' = "reading"
    /\ UNCHANGED <<msgs, end, pty, session, pipe, stream, ctx>>
    /\ UNCHANGED processVars
    /\ UNCHANGED execVars

\* "forward-agent" data before the command, or a window change of a pty: no
\* effect on what is modelled.
OtherMessage ==
    /\ NextMessage
    /\ session = "larval" \/ pty = 1
    /\ UNCHANGED <<loop, end, pty, session, stdin, pipe, stream, ctx>>
    /\ UNCHANGED processVars
    /\ UNCHANGED execVars

\* A handler returns an error: a request that is not implemented, an unknown
\* signal, a message that does not fit the session's state, a command that
\* cannot be started (nothing looks at channelState any more).
MessageFails ==
    /\ NextMessage
    /\ Returns("error")
    /\ UNCHANGED <<pty, session, stdin, pipe>>
    /\ UNCHANGED processVars
    /\ UNCHANGED execVars

\* NextMessage fails other than with EOF.
InputFails ==
    /\ loop = "reading"
    /\ Returns("error")
    /\ UNCHANGED <<msgs, pty, session, stdin, pipe>>
    /\ UNCHANGED processVars
    /\ UNCHANGED execVars

\* NextMessage returns EOF: a command on pipes loses its stdin and is waited
\* for; otherwise the loop returns.
InputEOF ==
    /\ loop = "reading"
    /\ \/ /\ session = "pipe"
          /\ loop' = "waiting"
          /\ UNCHANGED <<end, stream, ctx>>
       \/ /\ session # "pipe"
          /\ Returns("eof")
    /\ UNCHANGED <<msgs, pty, session, stdin, pipe>>
    /\ UNCHANGED processVars
    /\ UNCHANGED execVars

\* Mutant of WaitForRunningCommand: nobody closes runningCmdDone.
WaitForCancel ==
    /\ loop = "waiting"
    /\ ctx = "cancelled"
    /\ Returns("cancelled")
    /\ UNCHANGED <<msgs, pty, session, stdin, pipe>>
    /\ UNCHANGED processVars
    /\ UNCHANGED execVars

\* Mutant of WaitForRunningCommand: waits for the process, not for the loop that
\* sends its output and status.
WaitForProcess ==
    /\ loop = "waiting"
    /\ \/ child = "reaped" /\ Returns("done")
       \/ ctx = "cancelled" /\ Returns("cancelled")
    /\ UNCHANGED <<msgs, pty, session, stdin, pipe>>
    /\ UNCHANGED processVars
    /\ UNCHANGED execVars

\* waitForRunningCommandAfterInputEOF returns, and so does the loop.
WaitForRunningCommand ==
    /\ loop = "waiting"
    /\ \/ exec = "returned" /\ Returns("done")
       \/ ctx = "cancelled" /\ Returns("cancelled")
    /\ UNCHANGED <<msgs, pty, session, stdin, pipe>>
    /\ UNCHANGED processVars
    /\ UNCHANGED execVars

-----------------------------------------------------------------------------
(* The command and its descendants, and the peer (not part of the repository) *)

CommandWrites(s) ==
    /\ s \in open
    /\ given[s] < MaxOutput[s]
    /\ pipe[s] < PipeSize
    /\ pipe' = [pipe EXCEPT ![s] = @ + 1]
    /\ given' = [given EXCEPT ![s] = @ + 1]
    /\ UNCHANGED handlerVars
    /\ UNCHANGED execVars
    /\ UNCHANGED <<child, fate, open, stream, ctx>>

CommandReads ==
    /\ child = "running"
    /\ stdin > 0
    /\ stdin' = stdin - 1
    /\ UNCHANGED <<msgs, loop, end, pty, session, pipe, stream, ctx>>
    /\ UNCHANGED processVars
    /\ UNCHANGED execVars

CommandExits ==
    /\ child = "running"
    /\ child' = "exited"
    /\ fate' \in Codes \cup {Killed}
    /\ UNCHANGED handlerVars
    /\ UNCHANGED execVars
    /\ UNCHANGED <<open, given, pipe, stream, ctx>>

\* The last process that can write s closes it; descendants may outlive the
\* command.
StreamCloses(s) ==
    /\ s \in open
    /\ child # "running"
    /\ open' = open \ {s}
    /\ UNCHANGED handlerVars
    /\ UNCHANGED execVars
    /\ UNCHANGED <<child, fate, given, pipe, stream, ctx>>

\* The client stops reading the channel, or the connection is lost.
PeerLost ==
    /\ \/ /\ stream = "open"
          /\ stream' = "stopped"
          /\ UNCHANGED ctx
       \/ /\ stream # "lost"
          /\ stream' = "lost"
          /\ ctx' = "cancelled"
    /\ UNCHANGED handlerVars
    /\ UNCHANGED processVars
    /\ UNCHANGED execVars
    /\ UNCHANGED pipe

\* Another session of the conversation ends, and ends the conversation.
OtherSessionEnds ==
    /\ ctx = "open"
    /\ ctx' = "cancelled"
    /\ UNCHANGED handlerVars
    /\ UNCHANGED processVars
    /\ UNCHANGED execVars
    /\ UNCHANGED <<pipe, stream>>

-----------------------------------------------------------------------------
(* execCmdInBackground *)

\* exec.Cmd.Wait has closed StdoutPipe and StderrPipe: a reader gets an error.
PipesClosed == session = "pipe" /\ child = "reaped"

\* stdoutR.Read or stderrR.Read: some output, or the end of the stream.
ReaderReads(s) ==
    /\ reader[s] = "reading"
    /\ \/ \E n \in 1 .. pipe[s] :
             /\ hand' = [hand EXCEPT ![s] = n]
             /\ pipe' = [pipe EXCEPT ![s] = @ - n]
       \/ /\ pipe[s] = 0
          /\ s \notin open \/ PipesClosed
          /\ hand' = [hand EXCEPT ![s] = 0]
          /\ UNCHANGED pipe
    /\ reader' = [reader EXCEPT ![s] = "pushing"]
    /\ UNCHANGED handlerVars
    /\ UNCHANGED processVars
    /\ UNCHANGED <<slot, writing, sent, waiter, exec, nil, status, stream, ctx>>

\* The result is sent to stdoutChan or stderrChan; after the stream's end the
\* reader closes its channel.
ReaderPushes(s) ==
    /\ reader[s] = "pushing"
    /\ slot[s] = None
    /\ slot' = [slot EXCEPT ![s] = hand[s]]
    /\ hand' = [hand EXCEPT ![s] = 0]
    /\ reader' = [reader EXCEPT ![s] = IF hand[s] = 0 THEN "closed" ELSE "reading"]
    /\ UNCHANGED handlerVars
    /\ UNCHANGED processVars
    /\ UNCHANGED <<pipe, writing, sent, waiter, exec, nil, status, stream, ctx>>

\* Mutant of OutputRead: the command is waited for at once.
OutputReadAtOnce ==
    /\ waiter = "output"
    /\ waiter' = "command"
    /\ UNCHANGED handlerVars
    /\ UNCHANGED processVars
    /\ UNCHANGED <<pipe, reader, hand, slot, writing, sent, exec, nil, status, stream, ctx>>

\* outputReaders.Wait()
OutputRead ==
    /\ waiter = "output"
    /\ \A s \in Streams : reader[s] = "closed"
    /\ waiter' = "command"
    /\ UNCHANGED handlerVars
    /\ UNCHANGED processVars
    /\ UNCHANGED <<pipe, reader, hand, slot, writing, sent, exec, nil, status, stream, ctx>>

\* runningCommand.Wait(), whose result goes to execResultChan.
CommandWaited ==
    /\ waiter = "command"
    /\ child = "exited"
    /\ child' = "reaped"
    /\ pipe' = IF session = "pipe" THEN [s \in Streams |-> 0] ELSE pipe
    /\ waiter' = "result"
    /\ UNCHANGED handlerVars
    /\ UNCHANGED <<fate, open, given, reader, hand, slot, writing, sent, exec, nil,
                   status, stream, ctx>>

\* The select loop takes a result of a reader, and writes it on the channel unless it is
\* empty.
TakeOutput(s) ==
    /\ exec = "select"
    /\ s \notin nil
    /\ slot[s] # None
    /\ slot' = [slot EXCEPT ![s] = None]
    /\ writing' = [writing EXCEPT ![s] = slot[s]]
    /\ exec' = IF slot[s] = 0 THEN "select" ELSE "writing"
    /\ UNCHANGED handlerVars
    /\ UNCHANGED processVars
    /\ UNCHANGED <<pipe, reader, hand, sent, waiter, nil, status, stream, ctx>>

\* channel.WriteData returns when the client has taken what was written, or with an
\* error, and then the loop returns.
WriteOutput(s) ==
    /\ exec = "writing"
    /\ writing[s] > 0
    /\ writing' = [writing EXCEPT ![s] = 0]
    /\ \/ /\ stream = "open"
          /\ sent' = [sent EXCEPT ![s] = @ + writing[s]]
          /\ exec' = "select"
       \/ /\ stream # "open"
          /\ exec' = "returned"
          /\ UNCHANGED sent
    /\ UNCHANGED handlerVars
    /\ UNCHANGED processVars
    /\ UNCHANGED <<pipe, reader, hand, slot, waiter, nil, status, stream, ctx>>

\* It finds the channel of s closed and disables it.
TakeClosed(s) ==
    /\ exec = "select"
    /\ s \notin nil
    /\ reader[s] = "closed"
    /\ slot[s] = None
    /\ nil' = nil \cup {s}
    /\ UNCHANGED handlerVars
    /\ UNCHANGED processVars
    /\ UNCHANGED <<pipe, reader, hand, slot, writing, sent, waiter, exec, status, stream, ctx>>

\* It takes the command's result, and then finds execResultChan closed.
TakeResult ==
    /\ exec = "select"
    /\ \/ waiter = "result" /\ waiter' = "closed" /\ UNCHANGED nil
       \/ waiter = "closed" /\ nil' = nil \cup {"exec"} /\ UNCHANGED waiter
    /\ UNCHANGED handlerVars
    /\ UNCHANGED processVars
    /\ UNCHANGED <<pipe, reader, hand, slot, writing, sent, exec, status, stream, ctx>>

\* execExitStatus: 0 until the result of the command is taken.  (It also stays 0 after an
\* error of Wait that is no ExitError, which a command that was started, with pipes that
\* Wait does not copy, does not return.)
ExitStatus ==
    CASE waiter # "closed" -> 0
      [] fate = Killed -> TooLong
      [] OTHER -> fate

\* All three channels are nil.
AllClosed == nil = Streams \cup {"exec"}

\* channel.SendRequest with the exit status, whose error is ignored; a status
\* that no varint holds makes util.VarIntLen panic.
SendExitStatus ==
    /\ exec = "select"
    /\ AllClosed
    /\ \/ /\ ExitStatus = TooLong
          /\ exec' = "panicked"
          /\ UNCHANGED status
       \/ /\ ExitStatus # TooLong
          /\ exec' = "returned"
          /\ status' = IF stream = "open" THEN ExitStatus ELSE None
    /\ UNCHANGED handlerVars
    /\ UNCHANGED processVars
    /\ UNCHANGED <<pipe, reader, hand, slot, writing, sent, waiter, nil, stream, ctx>>

-----------------------------------------------------------------------------

Handler ==
    \/ NewPtyReq \/ NewCommand \/ NewSignalReq \/ NewDataReq \/ StdinWritten
    \/ OtherMessage \/ MessageFails \/ InputFails \/ InputEOF

Exec ==
    \/ TakeResult
    \/ SendExitStatus
    \/ \E s \in Streams : TakeOutput(s) \/ WriteOutput(s) \/ TakeClosed(s)

\* The select loop writes on the channel, and the client may give it no room.
Blocked ==
    /\ stream = "open"
    /\ exec = "writing" \/ (exec = "select" /\ AllClosed /\ ExitStatus # TooLong)

Reader(s) == ReaderReads(s) \/ ReaderPushes(s)

Waiter == OutputRead \/ CommandWaited

Environment ==
    \/ CommandReads \/ CommandExits \/ PeerLost \/ OtherSessionEnds
    \/ \E s \in Streams : CommandWrites(s) \/ StreamCloses(s)

Next ==
    /\ Up
    /\ \/ Handler
       \/ WaitForRunningCommand
       \/ Exec
       \/ Waiter
       \/ Environment
       \/ \E s \in Streams : Reader(s)

\* The Go scheduler runs every goroutine that is ready.  Nothing is assumed of the client,
\* which may never take what is written on the channel, of the command or of the
\* connection.
Fairness ==
    /\ WF_vars(Up /\ ~Blocked /\ Exec)
    /\ WF_vars(Up /\ Waiter)
    /\ WF_vars(Up /\ WaitForRunningCommand)
    /\ \A s \in Streams : WF_vars(Up /\ Reader(s))

Spec == Init /\ [][Next]_vars /\ Fairness

-----------------------------------------------------------------------------

TypeOK ==
    /\ msgs \in 0 .. MaxMessages
    /\ loop \in {"reading", "writing", "waiting", "ended"}
    /\ end \in {"none", "eof", "error", "done", "cancelled"}
    /\ pty \in {0, 1}
    /\ session \in {"larval", "pipe", "pty"}
    /\ child \in {"none", "running", "exited", "reaped"}
    /\ fate \in Codes \cup {Killed, None}
    /\ stdin \in 0 .. InputSize
    /\ open \subseteq Streams
    /\ \A f \in {pipe, given, hand, writing, sent} : f \in [Streams -> Nat]
    /\ reader \in [Streams -> {"none", "reading", "pushing", "closed"}]
    /\ slot \in [Streams -> Nat \cup {None}]
    /\ waiter \in {"none", "output", "command", "result", "closed"}
    /\ exec \in {"none", "select", "writing", "returned", "panicked"}
    /\ nil \subseteq Streams \cup {"exec"}
    /\ status \in Nat \cup {None}
    /\ stream \in {"open", "closed", "stopped", "lost"}
    /\ ctx \in {"open", "cancelled"}

\* "drain both first so fast commands cannot lose their output before we send
\* their exit status" (cmd/ssh3-server.go): when the exit status is on the
\* channel, so is all that the command and its descendants wrote.
OutputBeforeStatus == status # None => sent = given /\ open = {}

\* The status that is sent is the command's: not the 0 that execExitStatus holds
\* before the command has ended.
StatusIsTrue == status # None => status = fate

\* After the client has closed its side, the session is closed only when the exit
\* status has been sent, unless the peer is lost or the conversation is closed.
ClosedAfterStatus == end = "done" => status # None \/ stream \in {"stopped", "lost"}
=============================================================================
