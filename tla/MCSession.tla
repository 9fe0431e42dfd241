------------------------------ MODULE MCSession ------------------------------
(***************************************************************************)
(* The sessions of both servers under the same questions.  impl, chosen at *)
(* the start, says which of the two runs.  The variables that the modules  *)
(* name alike are declared once; a variable of the other server keeps the  *)
(* value Unused.                                                           *)
(***************************************************************************)
EXTENDS Naturals

CONSTANTS
    GoCodes, RustCodes, Killed, TooLong, None, InputSize, MaxOutput,
    GoMaxMessages, RustMaxMessages, GoPipeSize, RustPipeSize,
    Unused

MCMaxOutput == [s \in {"stdout", "stderr"} |-> IF s = "stdout" THEN 2 ELSE 1]

ASSUME SessionAssumption ==
    /\ GoCodes \cup RustCodes \subseteq Nat
    /\ {Killed, TooLong, None} \cap Nat = {}
    /\ Killed # TooLong /\ Killed # None /\ TooLong # None
    /\ {GoPipeSize, RustPipeSize, InputSize, GoMaxMessages, RustMaxMessages} \subseteq Nat
    /\ MaxOutput \in [{"stdout", "stderr"} -> Nat]

VARIABLES
    impl,   \* "go" or "rust"
    msgs, loop, session, child, fate, open, pipe, given, hand, sent, waiter, status,
    end, pty, stdin, reader, slot, writing, exec, nil, stream, ctx,
    pending, agent, input, pump, peer

bothVars == <<msgs, loop, session, child, fate, open, pipe, given, hand, sent,
              waiter, status>>
goVars == <<end, pty, stdin, reader, slot, writing, exec, nil, stream, ctx>>
rustVars == <<pending, agent, input, pump, peer>>

vars == <<impl, bothVars, goVars, rustVars>>

Go == INSTANCE GoSession WITH PipeSize <- GoPipeSize, Codes <- GoCodes,
                               MaxMessages <- GoMaxMessages
Rust == INSTANCE RustSession WITH PipeSize <- RustPipeSize, Codes <- RustCodes,
                                   MaxMessages <- RustMaxMessages

Init ==
    \/ /\ impl = "go"
       /\ Go!Init
       /\ pending = Unused /\ agent = Unused /\ input = Unused /\ pump = Unused
       /\ peer = Unused
    \/ /\ impl = "rust"
       /\ Rust!Init
       /\ end = Unused /\ pty = Unused /\ stdin = Unused /\ reader = Unused
       /\ slot = Unused /\ writing = Unused /\ exec = Unused /\ nil = Unused /\ stream = Unused
       /\ ctx = Unused

GoStep(A) == impl = "go" /\ A /\ UNCHANGED <<impl, rustVars>>
RustStep(A) == impl = "rust" /\ A /\ UNCHANGED <<impl, goVars>>

Next == GoStep(Go!Next) \/ RustStep(Rust!Next)

\* The fairness of GoSession or of RustSession, whichever runs.
Fairness ==
    /\ WF_vars(\/ GoStep(Go!Up /\ ~Go!Blocked /\ Go!Exec)
               \/ RustStep(~Rust!WaiterBlocked /\ Rust!Waiter))
    /\ WF_vars(GoStep(Go!Up /\ Go!Waiter))
    /\ WF_vars(GoStep(Go!Up /\ Go!WaitForRunningCommand))
    /\ \A s \in {"stdout", "stderr"} :
          WF_vars(\/ GoStep(Go!Up /\ Go!Reader(s))
                  \/ RustStep(\/ Rust!PumpReads(s)
                              \/ ~Rust!PumpBlocked(s) /\ Rust!PumpWrites(s)))

Spec == Init /\ [][Next]_vars /\ Fairness

\* "drain both first so fast commands cannot lose their output before we send
\* their exit status" (cmd/ssh3-server.go): when the exit status is on the
\* channel, so is all that the process and its descendants wrote.
OutputBeforeStatus ==
    IF impl = "go" THEN Go!OutputBeforeStatus ELSE Rust!OutputBeforeStatus

\* The status that is sent is the process's: not the 0 that the Go server's
\* execExitStatus holds before the command has ended, and not a success for a
\* process that a signal ended.
StatusIsTrue == IF impl = "go" THEN Go!StatusIsTrue ELSE Rust!NoFalseSuccess

\* After the client of the Go server has closed its side, the session is closed
\* only when the exit status has been sent, unless the peer is lost or the
\* conversation is closed.
ClosedAfterStatus == impl = "go" => Go!ClosedAfterStatus

\* A write on the channel waits for the client.
Blocked ==
    IF impl = "go" THEN Go!Blocked
    ELSE Rust!WaiterBlocked \/ \E s \in {"stdout", "stderr"} : Rust!PumpBlocked(s)

\* Once the process has exited and its streams are closed the exit status is
\* sent, unless the peer is gone or never takes what is written: whatever became
\* of the Rust server's message loop, and unless the Go server's channel was
\* closed meanwhile.
StatusIsSent ==
    (IF impl = "go" THEN fate \in GoCodes /\ open = {}
                    ELSE child \in {"exited", "reaped"} /\ open = {})
    ~> \/ status # None
       \/ IF impl = "go" THEN stream # "open" ELSE peer # "open"
       \/ []Blocked

\* The Go server's wait for a command that has exited ends, whatever became of
\* its output, unless the client keeps the channel and never takes what is
\* written on it.  That a status no varint holds ends the whole server counts
\* as an end.
WaitEnds ==
    (impl = "go" /\ loop = "waiting" /\ fate # None /\ open = {})
        ~> loop = "ended" \/ exec = "panicked" \/ []Blocked
=============================================================================
