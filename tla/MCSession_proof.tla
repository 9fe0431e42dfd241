---------------------------- MODULE MCSession_proof ----------------------------
(***************************************************************************)
(* What the end of a session tells its client, of both servers and for any *)
(* exit codes, sizes of pipes and bounds: all output comes before the exit *)
(* status, the status is the command's, and the Go server closes the       *)
(* session behind it.                                                      *)
(*                                                                         *)
(* Each server has an invariant of its own, proved inductive over its own  *)
(* actions; ServerInv is that of the one that runs.                        *)
(***************************************************************************)
EXTENDS MCSession, TLAPS

(* The Rust server *)

Finished == {"none", "done", "failed"}
Running == {"child", "stdout", "stderr", "send", "done"}

RustCountsOK ==
    /\ pipe \in [Rust!Streams -> Nat]
    /\ given \in [Rust!Streams -> Nat]
    /\ hand \in [Rust!Streams -> Nat]
    /\ sent \in [Rust!Streams -> Nat]
    /\ pump \in [Rust!Streams -> {"none", "reading", "writing", "done", "failed"}]

\* Output is conserved between process and channel, and a pump that has ended has left
\* nothing behind unless it failed.
RustOutputInv(s) ==
    /\ pump[s] # "failed" => given[s] = sent[s] + hand[s] + pipe[s]
    /\ pump[s] # "writing" => hand[s] = 0
    /\ pump[s] = "none" => s \notin open /\ pipe[s] = 0
    /\ pump[s] = "done" => s \notin open /\ pipe[s] = 0
    /\ pump[s] = "failed" => peer # "open"

\* How far the waiter is says which pumps have ended.
RustWaiterInv ==
    /\ session = "none" => waiter = "none" /\ \A s \in Rust!Streams : pump[s] = "none"
    /\ session # "none" => waiter \in Running
    /\ session = "pty" => pump["stderr"] = "none"
    /\ session \in {"none", "pipe", "pty"}
    /\ waiter = "stderr" => pump["stdout"] \in Finished
    /\ waiter \in {"send", "done"} => \A s \in Rust!Streams : pump[s] \in Finished
    /\ status # None => waiter = "done"

RustSessionInv ==
    /\ RustCountsOK
    /\ \A s \in Rust!Streams : RustOutputInv(s)
    /\ RustWaiterInv

LEMMA RustSessionInitially == Rust!Init => RustSessionInv
BY DEF Rust!Init, RustSessionInv, RustCountsOK, RustOutputInv, RustWaiterInv,
   Rust!Streams, Running

\* A step that leaves the output alone, and does not bring the peer back.
LEMMA RustOutputUnchanged ==
    ASSUME RustSessionInv, UNCHANGED Rust!outputVars, peer' = "open" => peer = "open"
    PROVE  RustCountsOK' /\ \A s \in Rust!Streams : RustOutputInv(s)'
BY DEF RustSessionInv, Rust!outputVars, RustCountsOK, RustOutputInv

LEMMA RustStartStep ==
    ASSUME RustSessionInv, Rust!Start
    PROVE  RustSessionInv'
<1>. USE DEF RustSessionInv
<1>1. session = "none" /\ waiter = "none" /\ \A s \in Rust!Streams : pump[s] = "none"
  BY DEF Rust!Start, Rust!Refused, RustWaiterInv
<1>2. UNCHANGED <<pipe, given, hand, sent, status, peer>>
  BY DEF Rust!Start
<1>3. CASE pending = 1
  <2>1. /\ session' = "pty" /\ open' = {"stdout"} /\ waiter' = "child"
        /\ pump' = [s \in Rust!Streams |-> IF s \in {"stdout"} THEN "reading" ELSE "none"]
    BY <1>3 DEF Rust!Start
  <2>. QED
    BY <1>1, <1>2, <2>1
       DEF RustCountsOK, RustOutputInv, RustWaiterInv, Rust!Streams, Running, Finished
<1>4. CASE pending # 1
  <2>1. /\ session' = "pipe" /\ open' = Rust!Streams /\ waiter' = "child"
        /\ pump' = [s \in Rust!Streams |-> "reading"]
    BY <1>4 DEF Rust!Start
  <2>. QED
    BY <1>1, <1>2, <2>1
       DEF RustCountsOK, RustOutputInv, RustWaiterInv, Rust!Streams, Running, Finished
<1>. QED
  BY <1>3, <1>4

\* The other steps of the message loop, the process's end and the peer's.
LEMMA RustQuietStep ==
    ASSUME RustSessionInv, UNCHANGED <<session, waiter, status>>, UNCHANGED Rust!outputVars,
           peer' = "open" => peer = "open"
    PROVE  RustSessionInv'
<1>1. RustWaiterInv'
  BY DEF RustSessionInv, RustWaiterInv, Rust!outputVars
<1>. QED
  BY <1>1, RustOutputUnchanged DEF RustSessionInv

LEMMA ProcessWritesStep ==
    ASSUME RustSessionInv, NEW s \in Rust!Streams, Rust!ProcessWrites(s)
    PROVE  RustSessionInv'
<1>1. /\ UNCHANGED <<session, waiter, status, open, pump, hand, sent, peer>>
      /\ s \in open
      /\ pipe' = [pipe EXCEPT ![s] = @ + 1]
      /\ given' = [given EXCEPT ![s] = @ + 1]
  BY DEF Rust!ProcessWrites, Rust!handlerVars
<1>2. RustWaiterInv'
  BY <1>1 DEF RustSessionInv, RustWaiterInv
<1>3. RustCountsOK' /\ \A t \in Rust!Streams : RustOutputInv(t)'
  BY <1>1 DEF RustSessionInv, RustCountsOK, RustOutputInv
<1>. QED
  BY <1>2, <1>3 DEF RustSessionInv

LEMMA RustStreamClosesStep ==
    ASSUME RustSessionInv, NEW s \in Rust!Streams, Rust!StreamCloses(s)
    PROVE  RustSessionInv'
BY DEF Rust!StreamCloses, Rust!handlerVars, RustSessionInv, RustCountsOK, RustOutputInv,
   RustWaiterInv

LEMMA PumpReadsStep ==
    ASSUME RustSessionInv, NEW s \in Rust!Streams, Rust!PumpReads(s)
    PROVE  RustSessionInv'
<1>. USE DEF RustSessionInv
<1>1. /\ UNCHANGED <<session, waiter, status, open, given, sent, peer>>
      /\ pump[s] = "reading"
  BY DEF Rust!PumpReads, Rust!handlerVars
<1>2. /\ session # "none"
      /\ ~(session = "pty" /\ s = "stderr")
      /\ ~(waiter = "stderr" /\ s = "stdout")
      /\ waiter \notin {"send", "done"}
  BY <1>1 DEF RustWaiterInv, Finished
<1>3. CASE \E n \in 1 .. pipe[s] :
             /\ hand' = [hand EXCEPT ![s] = n]
             /\ pipe' = [pipe EXCEPT ![s] = @ - n]
             /\ pump' = [pump EXCEPT ![s] = "writing"]
  <2>0. PICK n \in 1 .. pipe[s] :
             /\ hand' = [hand EXCEPT ![s] = n]
             /\ pipe' = [pipe EXCEPT ![s] = @ - n]
             /\ pump' = [pump EXCEPT ![s] = "writing"]
    BY <1>3
  <2>n. pipe[s] \in Nat /\ n \in Nat /\ pipe[s] - n \in Nat
    BY <2>0 DEF RustCountsOK
  <2>c. RustCountsOK'
    BY <1>1, <2>0, <2>n DEF RustCountsOK
  <2>1. RustCountsOK' /\ \A t \in Rust!Streams : RustOutputInv(t)'
    BY <1>1, <2>0, <2>n, <2>c DEF RustCountsOK, RustOutputInv
  <2>2. RustWaiterInv'
    BY <1>1, <1>2, <1>3 DEF RustWaiterInv, RustCountsOK, Rust!Streams
  <2>. QED
    BY <2>1, <2>2
<1>4. CASE /\ pipe[s] = 0
           /\ s \notin open
           /\ pump' = [pump EXCEPT ![s] = "done"]
           /\ UNCHANGED <<hand, pipe>>
  <2>1. RustCountsOK' /\ \A t \in Rust!Streams : RustOutputInv(t)'
    BY <1>1, <1>4 DEF RustCountsOK, RustOutputInv
  <2>2. RustWaiterInv'
    BY <1>1, <1>2, <1>4 DEF RustWaiterInv, RustCountsOK, Rust!Streams
  <2>. QED
    BY <2>1, <2>2
<1>. QED
  BY <1>3, <1>4 DEF Rust!PumpReads

LEMMA PumpWritesStep ==
    ASSUME RustSessionInv, NEW s \in Rust!Streams, Rust!PumpWrites(s)
    PROVE  RustSessionInv'
<1>. USE DEF RustSessionInv
<1>1. /\ UNCHANGED <<session, waiter, status, open, given, pipe, peer>>
      /\ pump[s] = "writing"
      /\ hand' = [hand EXCEPT ![s] = 0]
  BY DEF Rust!PumpWrites, Rust!handlerVars
<1>2. /\ session # "none"
      /\ ~(session = "pty" /\ s = "stderr")
      /\ ~(waiter = "stderr" /\ s = "stdout")
      /\ waiter \notin {"send", "done"}
  BY <1>1 DEF RustWaiterInv, Finished
<1>3. CASE /\ sent' = [sent EXCEPT ![s] = @ + hand[s]]
           /\ pump' = [pump EXCEPT ![s] = "reading"]
  <2>1. RustCountsOK' /\ \A t \in Rust!Streams : RustOutputInv(t)'
    BY <1>1, <1>3 DEF RustCountsOK, RustOutputInv
  <2>2. RustWaiterInv'
    BY <1>1, <1>2, <1>3 DEF RustWaiterInv, RustCountsOK, Rust!Streams
  <2>. QED
    BY <2>1, <2>2
<1>4. CASE /\ peer # "open"
           /\ pump' = [pump EXCEPT ![s] = "failed"]
           /\ UNCHANGED sent
  <2>1. RustCountsOK' /\ \A t \in Rust!Streams : RustOutputInv(t)'
    BY <1>1, <1>4 DEF RustCountsOK, RustOutputInv
  <2>2. RustWaiterInv'
    BY <1>1, <1>2, <1>4 DEF RustWaiterInv, RustCountsOK, Rust!Streams
  <2>. QED
    BY <2>1, <2>2
<1>. QED
  BY <1>3, <1>4 DEF Rust!PumpWrites

LEMMA RustWaiterStep ==
    ASSUME RustSessionInv, Rust!Waiter
    PROVE  RustSessionInv'
<1>1. UNCHANGED Rust!outputVars /\ UNCHANGED <<session, peer>>
  BY DEF Rust!Waiter, Rust!Reap, Rust!JoinPump, Rust!SendStatus, Rust!handlerVars
<1>2. UNCHANGED pump
  BY <1>1 DEF Rust!outputVars
<1>3. RustWaiterInv'
  <2>. USE DEF RustSessionInv, RustWaiterInv, Finished, Running
  <2>1. CASE Rust!Reap
    BY <1>1, <1>2, <2>1 DEF Rust!Reap
  <2>2. CASE Rust!JoinPump
    BY <1>1, <1>2, <2>2 DEF Rust!JoinPump, Rust!Streams
  <2>3. CASE Rust!SendStatus
    BY <1>1, <1>2, <2>3 DEF Rust!SendStatus
  <2>. QED
    BY <2>1, <2>2, <2>3 DEF Rust!Waiter
<1>. QED
  BY <1>1, <1>3, RustOutputUnchanged DEF RustSessionInv

LEMMA RustSessionStep == RustSessionInv /\ [Rust!Next]_(Rust!vars) => RustSessionInv'
<1>. SUFFICES ASSUME RustSessionInv, [Rust!Next]_(Rust!vars) PROVE RustSessionInv'
  OBVIOUS
<1>1. CASE Rust!Handler /\ ~Rust!Start
  <2>1. /\ UNCHANGED <<session, waiter, status>> /\ UNCHANGED Rust!outputVars
        /\ peer' = "open" => peer = "open"
    BY <1>1 DEF Rust!Handler, Rust!Refuse, Rust!Pty, Rust!RequestFails, Rust!Signal,
       Rust!WindowChange, Rust!ForwardAgent, Rust!Data, Rust!WriteInput, Rust!InputEnds
  <2>. QED
    BY <2>1, RustQuietStep
<1>2. CASE Rust!ProcessReads \/ Rust!ProcessExits \/ Rust!PeerLost
  <2>1. /\ UNCHANGED <<session, waiter, status>> /\ UNCHANGED Rust!outputVars
        /\ peer' = "open" => peer = "open"
    BY <1>2 DEF Rust!ProcessReads, Rust!ProcessExits, Rust!PeerLost, Rust!handlerVars
  <2>. QED
    BY <2>1, RustQuietStep
<1>3. CASE UNCHANGED Rust!vars
  <2>1. /\ UNCHANGED <<session, waiter, status>> /\ UNCHANGED Rust!outputVars
        /\ peer' = peer
    BY <1>3 DEF Rust!vars, Rust!outputVars
  <2>. QED
    BY <2>1, RustQuietStep
<1>. QED
  BY <1>1, <1>2, <1>3, RustStartStep, RustWaiterStep, ProcessWritesStep,
     RustStreamClosesStep, PumpReadsStep, PumpWritesStep DEF Rust!Next, Rust!Handler

-----------------------------------------------------------------------------
\* The fate of the process is settled when the waiter has reaped it.
RustFateInv ==
    /\ waiter \notin {"none", "child"} => child = "reaped"
    /\ session # "none" <=> waiter # "none"
    /\ status # None => waiter = "done" /\ status = Rust!ExitStatus(fate)

LEMMA RustFateInitially == Rust!Init => RustFateInv
BY DEF Rust!Init, RustFateInv

LEMMA RustFateStep == RustFateInv /\ [Rust!Next]_(Rust!vars) => RustFateInv'
<1>. SUFFICES ASSUME RustFateInv, [Rust!Next]_(Rust!vars) PROVE RustFateInv'
  OBVIOUS
<1>. USE DEF RustFateInv
<1>1. CASE Rust!Handler
  <2>1. CASE Rust!Start
    BY <2>1 DEF Rust!Start, Rust!Refused
  <2>2. CASE Rust!Signal
    BY <2>2 DEF Rust!Signal, Rust!ExitStatus
  <2>3. CASE ~Rust!Start /\ ~Rust!Signal
    <3>1. UNCHANGED <<session, waiter, child, fate, status>>
      BY <1>1, <2>3 DEF Rust!Handler, Rust!Refuse, Rust!Pty, Rust!RequestFails,
         Rust!WindowChange, Rust!ForwardAgent, Rust!Data, Rust!WriteInput, Rust!InputEnds
    <3>. QED
      BY <3>1 DEF Rust!ExitStatus
  <2>. QED
    BY <2>1, <2>2, <2>3
<1>2. CASE Rust!Waiter
  <2>1. CASE Rust!Reap
    BY <2>1 DEF Rust!Reap, Rust!handlerVars
  <2>2. CASE Rust!JoinPump
    BY <2>2 DEF Rust!JoinPump, Rust!handlerVars, Rust!Streams
  <2>3. CASE Rust!SendStatus
    BY <2>3 DEF Rust!SendStatus, Rust!handlerVars, Rust!ExitStatus
  <2>. QED
    BY <1>2, <2>1, <2>2, <2>3 DEF Rust!Waiter
<1>3. CASE Rust!ProcessReads \/ Rust!ProcessExits \/ Rust!PeerLost
  BY <1>3 DEF Rust!ProcessReads, Rust!ProcessExits, Rust!PeerLost, Rust!handlerVars,
     Rust!ExitStatus
<1>4. ASSUME NEW s \in Rust!Streams,
             \/ Rust!ProcessWrites(s) \/ Rust!StreamCloses(s)
             \/ Rust!PumpReads(s) \/ Rust!PumpWrites(s)
      PROVE  RustFateInv'
  BY <1>4 DEF Rust!ProcessWrites, Rust!StreamCloses, Rust!PumpReads, Rust!PumpWrites,
     Rust!handlerVars, Rust!ExitStatus
<1>5. CASE UNCHANGED Rust!vars
  BY <1>5 DEF Rust!vars, Rust!ExitStatus
<1>. QED
  BY <1>1, <1>2, <1>3, <1>4, <1>5 DEF Rust!Next

-----------------------------------------------------------------------------
(* The Go server *)

\* The units of s on their way from the command to the channel.
InSlot(s) == IF slot[s] = None THEN 0 ELSE slot[s]

GoCountsOK ==
    /\ open \subseteq Go!Streams
    /\ pipe \in [Go!Streams -> Nat]
    /\ given \in [Go!Streams -> Nat]
    /\ hand \in [Go!Streams -> Nat]
    /\ sent \in [Go!Streams -> Nat]
    /\ slot \in [Go!Streams -> Nat \cup {None}]
    /\ writing \in [Go!Streams -> Nat]
    /\ reader \in [Go!Streams -> {"none", "reading", "pushing", "closed"}]

\* Before the command is started nothing is open and nobody runs.
LarvalInv ==
    /\ session = "larval" => open = {} /\ exec = "none" /\ waiter = "none"
    /\ \A s \in Go!Streams : reader[s] = "none" <=> session = "larval"
    /\ \A s \in Go!Streams : reader[s] = "none" => pipe[s] = 0

\* A reader that has met the end of its stream, or has passed it on, leaves nothing.
ReaderInv(s) ==
    /\ reader[s] # "pushing" => hand[s] = 0
    /\ reader[s] = "closed" => s \notin open /\ pipe[s] = 0
    /\ reader[s] = "pushing" /\ hand[s] = 0 => s \notin open /\ pipe[s] = 0

\* Output is conserved while the select loop takes it, and once the status is sent.
GoOutputInv(s) ==
    exec \in {"none", "select", "writing"} \/ status # None =>
        given[s] = sent[s] + writing[s] + InSlot(s) + hand[s] + pipe[s]

\* The select loop writes one result at a time.
GoWritingInv ==
    /\ exec # "writing" => \A s \in Go!Streams : writing[s] = 0
    /\ \A s, t \in Go!Streams : writing[s] # 0 /\ writing[t] # 0 => s = t

\* How far the waiter and the select loop are says what has ended.
GoWaiterInv ==
    /\ waiter \in {"command", "result", "closed"} =>
          \A s \in Go!Streams : reader[s] = "closed"
    /\ child = "reaped" <=> waiter \in {"result", "closed"}
    /\ \A s \in Go!Streams : s \in nil => reader[s] = "closed" /\ slot[s] = None
    /\ "exec" \in nil => waiter = "closed"
    /\ status # None => exec = "returned" /\ Go!AllClosed

GoSessionInv ==
    /\ GoCountsOK
    /\ LarvalInv
    /\ \A s \in Go!Streams : ReaderInv(s) /\ GoOutputInv(s)
    /\ GoWritingInv
    /\ GoWaiterInv

\* The command's fate is settled when it has ended, and is what was sent.
GoFateInv ==
    /\ child \in {"exited", "reaped"} => fate # None
    /\ child \in {"exited", "reaped"} => session # "larval"
    /\ child = "none" <=> session = "larval"
    /\ status # None => child = "reaped" /\ status = fate

\* Why the select loop has returned and the channel was closed.
GoCloseInv ==
    /\ stream \in {"open", "closed", "stopped", "lost"}
    /\ stream = "closed" => loop = "ended"
    /\ exec = "returned" => status # None \/ stream # "open"
    /\ end = "done" => loop = "ended" /\ (status # None \/ stream \in {"stopped", "lost"})

LEMMA GoSessionInitially == Go!Init => GoSessionInv
BY SessionAssumption
   DEF SessionAssumption, Go!Init, Go!Streams, Go!AllClosed, GoSessionInv, GoCountsOK,
       LarvalInv, ReaderInv, GoOutputInv, GoWritingInv, GoWaiterInv, InSlot

goOutputVars == <<session, open, pipe, given, reader, hand, slot, writing, sent, waiter, exec,
                  nil, status>>

\* Steps that leave the output, or all but the state of what runs, alone.
goCounts == <<pipe, given, hand, slot, writing, sent, reader>>

LEMMA GoCountsUnchanged ==
    ASSUME GoCountsOK, UNCHANGED goCounts, open' \subseteq open
    PROVE  GoCountsOK'
BY DEF goCounts, GoCountsOK

LEMMA GoReaderUnchanged ==
    ASSUME NEW s \in Go!Streams, ReaderInv(s), UNCHANGED goCounts, open' \subseteq open
    PROVE  ReaderInv(s)'
BY DEF goCounts, ReaderInv

LEMMA GoOutputUnchanged ==
    ASSUME NEW s \in Go!Streams, GoOutputInv(s), UNCHANGED <<goCounts, exec, status>>
    PROVE  GoOutputInv(s)'
BY DEF goCounts, GoOutputInv, InSlot

LEMMA GoWritingUnchanged ==
    ASSUME GoWritingInv, UNCHANGED <<goCounts, exec>>
    PROVE  GoWritingInv'
BY DEF goCounts, GoWritingInv

\* The other steps of the message loop, and of the client and the command.
LEMMA GoQuietStep ==
    ASSUME GoSessionInv, UNCHANGED goOutputVars, child' = "reaped" <=> child = "reaped"
    PROVE  GoSessionInv'
<1>. USE DEF GoSessionInv
<1>1. UNCHANGED <<goCounts, session, open, exec, waiter, nil, status>>
  BY DEF goOutputVars, goCounts
<1>2. LarvalInv' /\ GoWaiterInv'
  BY <1>1 DEF goCounts, LarvalInv, GoWaiterInv, Go!AllClosed
<1>. QED
  BY <1>1, <1>2, GoCountsUnchanged, GoReaderUnchanged, GoOutputUnchanged, GoWritingUnchanged

LEMMA NewCommandStep ==
    ASSUME GoSessionInv, Go!NewCommand
    PROVE  GoSessionInv'
<1>. USE DEF GoSessionInv
<1>1. /\ session = "larval" /\ open = {} /\ exec = "none" /\ waiter = "none"
      /\ \A s \in Go!Streams : reader[s] = "none" /\ pipe[s] = 0 /\ hand[s] = 0
      /\ status = None /\ \A s \in Go!Streams : s \notin nil
      /\ "exec" \notin nil
  BY DEF Go!NewCommand, LarvalInv, ReaderInv, GoWaiterInv
<1>2. /\ UNCHANGED <<pipe, given, hand, slot, writing, sent, nil, status>>
      /\ session' \in {"pty", "pipe"} /\ child' = "running" /\ exec' = "select"
      /\ waiter' = "output"
  BY DEF Go!NewCommand
<1>3. reader' = [s \in Go!Streams |-> IF s \in open' THEN "reading" ELSE "closed"]
  BY DEF Go!NewCommand
<1>4. GoCountsOK'
  <2>1. open' \subseteq Go!Streams
    BY DEF Go!NewCommand, Go!Streams
  <2>. QED
    BY <1>2, <1>3, <2>1 DEF GoCountsOK
<1>5. \A s \in Go!Streams : ReaderInv(s)' /\ GoOutputInv(s)'
  BY <1>1, <1>2, <1>3 DEF ReaderInv, GoOutputInv, InSlot
<1>6. LarvalInv' /\ GoWritingInv' /\ GoWaiterInv'
  BY <1>1, <1>2, <1>3 DEF LarvalInv, GoWritingInv, GoWaiterInv, Go!AllClosed
<1>. QED
  BY <1>4, <1>5, <1>6

LEMMA CommandWritesStep ==
    ASSUME GoSessionInv, NEW s \in Go!Streams, Go!CommandWrites(s)
    PROVE  GoSessionInv'
<1>. USE DEF GoSessionInv
<1>1. /\ s \in open
      /\ pipe' = [pipe EXCEPT ![s] = @ + 1]
      /\ given' = [given EXCEPT ![s] = @ + 1]
      /\ UNCHANGED <<session, open, reader, hand, slot, writing, sent, waiter, exec,
                     nil, status, child>>
  BY DEF Go!CommandWrites, Go!handlerVars, Go!execVars
<1>2. GoCountsOK'
  BY <1>1 DEF GoCountsOK
<1>3. reader[s] \notin {"none", "closed"}
  BY <1>1 DEF LarvalInv, ReaderInv
<1>4. ASSUME NEW t \in Go!Streams PROVE ReaderInv(t)' /\ GoOutputInv(t)'
  <2>1. InSlot(t)' = InSlot(t) /\ InSlot(t) \in Nat
    BY <1>1 DEF InSlot, GoCountsOK
  <2>2. ReaderInv(t)'
    BY <1>1 DEF ReaderInv, GoCountsOK
  <2>3. GoOutputInv(t)'
    BY <1>1, <2>1 DEF GoOutputInv, GoCountsOK
  <2>. QED
    BY <2>2, <2>3
<1>5. LarvalInv' /\ GoWritingInv' /\ GoWaiterInv'
  BY <1>1, <1>3 DEF LarvalInv, GoWritingInv, GoWaiterInv, Go!AllClosed, GoCountsOK
<1>. QED
  BY <1>2, <1>4, <1>5

LEMMA GoStreamClosesStep ==
    ASSUME GoSessionInv, NEW s \in Go!Streams, Go!StreamCloses(s)
    PROVE  GoSessionInv'
<1>. USE DEF GoSessionInv
<1>1. /\ UNCHANGED <<goCounts, session, child, exec, waiter, nil, status>>
      /\ open' \subseteq open
  BY DEF Go!StreamCloses, Go!handlerVars, Go!execVars, goCounts
<1>2. LarvalInv' /\ GoWaiterInv'
  BY <1>1 DEF goCounts, LarvalInv, GoWaiterInv, Go!AllClosed
<1>. QED
  BY <1>1, <1>2, GoCountsUnchanged, GoReaderUnchanged, GoOutputUnchanged, GoWritingUnchanged

LEMMA ReaderReadsStep ==
    ASSUME GoSessionInv, NEW s \in Go!Streams, Go!ReaderReads(s)
    PROVE  GoSessionInv'
<1>. USE DEF GoSessionInv
<1>1. /\ reader[s] = "reading"
      /\ reader' = [reader EXCEPT ![s] = "pushing"]
      /\ UNCHANGED <<session, child, open, given, slot, writing, sent, waiter, exec,
                     nil, status>>
  BY DEF Go!ReaderReads, Go!handlerVars, Go!processVars
<1>2. /\ session # "larval"
      /\ waiter \notin {"command", "result", "closed"}
      /\ child # "reaped"
      /\ s \notin nil
      /\ hand[s] = 0
  BY <1>1 DEF LarvalInv, GoWaiterInv, ReaderInv
<1>3. PICK n \in Nat :
         /\ hand' = [hand EXCEPT ![s] = n]
         /\ pipe' = [pipe EXCEPT ![s] = @ - n]
         /\ pipe[s] - n \in Nat
         /\ n = 0 => pipe[s] = 0 /\ s \notin open
  <2>0. pipe \in [Go!Streams -> Nat] /\ pipe[s] \in Nat
    BY DEF GoCountsOK
  <2>1. CASE \E n \in 1 .. pipe[s] :
               /\ hand' = [hand EXCEPT ![s] = n]
               /\ pipe' = [pipe EXCEPT ![s] = @ - n]
    <3>1. PICK n \in 1 .. pipe[s] :
               /\ hand' = [hand EXCEPT ![s] = n]
               /\ pipe' = [pipe EXCEPT ![s] = @ - n]
      BY <2>1
    <3>2. n \in Nat /\ n # 0 /\ pipe[s] - n \in Nat
      BY <2>0
    <3>. QED
      BY <3>1, <3>2
  <2>2. CASE /\ pipe[s] = 0
             /\ s \notin open \/ Go!PipesClosed
             /\ hand' = [hand EXCEPT ![s] = 0]
             /\ UNCHANGED pipe
    <3>1. s \notin open
      BY <1>2, <2>2 DEF Go!PipesClosed
    <3>2. pipe' = [pipe EXCEPT ![s] = @ - 0]
      BY <2>0, <2>2
    <3>. QED
      BY <2>0, <2>2, <3>1, <3>2
  <2>. QED
    BY <2>1, <2>2 DEF Go!ReaderReads
<1>4. GoCountsOK'
  BY <1>1, <1>3 DEF GoCountsOK
<1>5. ASSUME NEW t \in Go!Streams PROVE ReaderInv(t)' /\ GoOutputInv(t)'
  <2>1. InSlot(t)' = InSlot(t) /\ InSlot(t) \in Nat
    BY <1>1 DEF InSlot, GoCountsOK
  <2>2. CASE t = s
    <3>1. hand'[s] = n /\ pipe'[s] = pipe[s] - n /\ reader'[s] = "pushing"
      BY <1>1, <1>3 DEF GoCountsOK
    <3>2. ReaderInv(s)'
      BY <1>1, <1>3, <3>1 DEF ReaderInv
    <3>3. GoOutputInv(s)'
      BY <1>1, <1>2, <1>3, <2>1, <2>2, <3>1 DEF GoOutputInv, GoCountsOK
    <3>. QED
      BY <2>2, <3>2, <3>3
  <2>3. CASE t # s
    <3>1. hand'[t] = hand[t] /\ pipe'[t] = pipe[t] /\ reader'[t] = reader[t]
      BY <1>1, <1>3, <2>3 DEF GoCountsOK
    <3>. QED
      BY <1>1, <2>1, <3>1 DEF ReaderInv, GoOutputInv
  <2>. QED
    BY <2>2, <2>3
<1>6. LarvalInv' /\ GoWritingInv' /\ GoWaiterInv'
  BY <1>1, <1>2, <1>3 DEF LarvalInv, GoWritingInv, GoWaiterInv, Go!AllClosed, GoCountsOK
<1>. QED
  BY <1>4, <1>5, <1>6

LEMMA ReaderPushesStep ==
    ASSUME GoSessionInv, NEW s \in Go!Streams, Go!ReaderPushes(s)
    PROVE  GoSessionInv'
<1>. USE DEF GoSessionInv
<1>1. /\ reader[s] = "pushing" /\ slot[s] = None
      /\ slot' = [slot EXCEPT ![s] = hand[s]]
      /\ hand' = [hand EXCEPT ![s] = 0]
      /\ reader' = [reader EXCEPT ![s] = IF hand[s] = 0 THEN "closed" ELSE "reading"]
      /\ UNCHANGED <<session, child, open, given, pipe, writing, sent, waiter, exec,
                     nil, status>>
  BY DEF Go!ReaderPushes, Go!handlerVars, Go!processVars
<1>2. /\ session # "larval"
      /\ waiter \notin {"command", "result", "closed"}
      /\ s \notin nil
      /\ hand[s] \in Nat
  BY <1>1 DEF LarvalInv, GoWaiterInv, GoCountsOK
<1>3. GoCountsOK'
  BY <1>1, <1>2 DEF GoCountsOK
<1>4. ASSUME NEW t \in Go!Streams PROVE ReaderInv(t)' /\ GoOutputInv(t)'
  <2>1. CASE t = s
    <3>1. hand'[s] = 0 /\ slot'[s] = hand[s] /\ reader'[s] \in {"closed", "reading"}
          /\ (reader'[s] = "closed" => hand[s] = 0)
      BY <1>1 DEF GoCountsOK
    <3>2. ReaderInv(s)'
      BY <1>1, <3>1 DEF ReaderInv
    <3>3. InSlot(s)' = hand[s] /\ InSlot(s) = 0
      BY <1>1, <1>2, <3>1, SessionAssumption DEF InSlot, SessionAssumption
    <3>4. GoOutputInv(s)'
      BY <1>1, <1>2, <3>1, <3>3 DEF GoOutputInv, GoCountsOK
    <3>. QED
      BY <2>1, <3>2, <3>4
  <2>2. CASE t # s
    <3>1. hand'[t] = hand[t] /\ slot'[t] = slot[t] /\ reader'[t] = reader[t]
      BY <1>1, <2>2 DEF GoCountsOK
    <3>. QED
      BY <1>1, <3>1 DEF ReaderInv, GoOutputInv, InSlot
  <2>. QED
    BY <2>1, <2>2
<1>5. LarvalInv' /\ GoWritingInv' /\ GoWaiterInv'
  BY <1>1, <1>2 DEF LarvalInv, GoWritingInv, GoWaiterInv, Go!AllClosed, GoCountsOK
<1>. QED
  BY <1>3, <1>4, <1>5

LEMMA GoWaiterStep ==
    ASSUME GoSessionInv, Go!Waiter
    PROVE  GoSessionInv'
<1>. USE DEF GoSessionInv
<1>1. /\ UNCHANGED <<goCounts, session, open, exec, nil, status>>
      /\ LarvalInv' /\ GoWaiterInv'
  <2>1. CASE Go!OutputRead
    <3>1. /\ UNCHANGED <<goCounts, session, child, open, exec, nil, status>>
          /\ waiter = "output" /\ waiter' = "command"
          /\ \A s \in Go!Streams : reader[s] = "closed"
      BY <2>1 DEF Go!OutputRead, Go!handlerVars, Go!processVars, goCounts
    <3>. QED
      BY <3>1 DEF goCounts, LarvalInv, GoWaiterInv, Go!AllClosed
  <2>2. CASE Go!CommandWaited
    <3>1. /\ waiter = "command" /\ waiter' = "result" /\ child' = "reaped"
          /\ UNCHANGED <<session, open, given, reader, hand, slot, writing, sent, exec, nil,
                         status>>
      BY <2>2 DEF Go!CommandWaited, Go!handlerVars
    <3>2. \A s \in Go!Streams : reader[s] = "closed" /\ pipe[s] = 0
      BY <3>1 DEF GoWaiterInv, ReaderInv
    <3>3. pipe' = pipe
      BY <2>2, <3>2 DEF Go!CommandWaited, GoCountsOK
    <3>. QED
      BY <3>1, <3>2, <3>3 DEF goCounts, LarvalInv, GoWaiterInv, Go!AllClosed
  <2>. QED
    BY <2>1, <2>2 DEF Go!Waiter
<1>. QED
  BY <1>1, GoCountsUnchanged, GoReaderUnchanged, GoOutputUnchanged, GoWritingUnchanged

LEMMA TakeOutputStep ==
    ASSUME GoSessionInv, NEW s \in Go!Streams, Go!TakeOutput(s)
    PROVE  GoSessionInv'
<1>. USE DEF GoSessionInv
<1>1. /\ exec = "select" /\ slot[s] # None
      /\ slot' = [slot EXCEPT ![s] = None]
      /\ writing' = [writing EXCEPT ![s] = slot[s]]
      /\ exec' = IF slot[s] = 0 THEN "select" ELSE "writing"
      /\ UNCHANGED <<session, child, open, given, pipe, reader, hand, sent, waiter, nil,
                     status>>
  BY DEF Go!TakeOutput, Go!handlerVars, Go!processVars
<1>2. /\ status = None /\ slot[s] \in Nat /\ session # "larval"
      /\ \A t \in Go!Streams : writing[t] = 0
  BY <1>1 DEF GoWaiterInv, GoCountsOK, LarvalInv, GoWritingInv
<1>3. GoCountsOK'
  BY <1>1, <1>2 DEF GoCountsOK
<1>4. ASSUME NEW t \in Go!Streams PROVE ReaderInv(t)' /\ GoOutputInv(t)'
  <2>1. ReaderInv(t)'
    BY <1>1 DEF ReaderInv
  <2>2. /\ sent[t] \in Nat /\ hand[t] \in Nat /\ pipe[t] \in Nat
        /\ given[t] = sent[t] + writing[t] + InSlot(t) + hand[t] + pipe[t]
    BY <1>1 DEF GoOutputInv, GoCountsOK
  <2>3. writing'[t] + InSlot(t)' = writing[t] + InSlot(t)
        /\ writing'[t] \in Nat /\ InSlot(t)' \in Nat /\ writing[t] \in Nat /\ InSlot(t) \in Nat
    BY <1>1, <1>2 DEF InSlot, GoCountsOK
  <2>4. GoOutputInv(t)'
    BY <1>1, <2>2, <2>3 DEF GoOutputInv
  <2>. QED
    BY <2>1, <2>4
<1>5. GoWritingInv'
  BY <1>1, <1>2 DEF GoWritingInv, GoCountsOK
<1>6. LarvalInv' /\ GoWaiterInv'
  BY <1>1, <1>2 DEF LarvalInv, GoWaiterInv, Go!AllClosed, GoCountsOK
<1>. QED
  BY <1>3, <1>4, <1>5, <1>6

LEMMA WriteOutputStep ==
    ASSUME GoSessionInv, NEW s \in Go!Streams, Go!WriteOutput(s)
    PROVE  GoSessionInv'
<1>. USE DEF GoSessionInv
<1>1. /\ exec = "writing" /\ writing[s] # 0
      /\ writing' = [writing EXCEPT ![s] = 0]
      /\ UNCHANGED <<session, child, open, given, pipe, reader, hand, slot, waiter, nil,
                     status>>
  <2>1. writing[s] \in Nat
    BY DEF GoCountsOK
  <2>. QED
    BY <2>1 DEF Go!WriteOutput, Go!handlerVars, Go!processVars
<1>2. status = None /\ session # "larval"
  BY <1>1 DEF GoWaiterInv, LarvalInv
<1>3. exec' \in {"select", "returned"}
  BY DEF Go!WriteOutput
<1>4. GoWritingInv'
  BY <1>1, <1>3 DEF GoWritingInv, GoCountsOK
<1>5. LarvalInv' /\ GoWaiterInv'
  BY <1>1, <1>2, <1>3 DEF LarvalInv, GoWaiterInv, Go!AllClosed
<1>6. \A t \in Go!Streams : ReaderInv(t)'
  BY <1>1 DEF ReaderInv
<1>7. CASE sent' = [sent EXCEPT ![s] = @ + writing[s]]
  <2>1. GoCountsOK'
    BY <1>1, <1>7 DEF GoCountsOK
  <2>2. ASSUME NEW t \in Go!Streams PROVE GoOutputInv(t)'
    <3>1. given[t] = sent[t] + writing[t] + InSlot(t) + hand[t] + pipe[t]
      BY <1>1 DEF GoOutputInv
    <3>2. InSlot(t)' = InSlot(t)
      BY <1>1 DEF InSlot
    <3>3. /\ sent[t] \in Nat /\ writing[t] \in Nat /\ sent'[t] \in Nat
          /\ sent'[t] = sent[t] + writing[t] /\ writing'[t] = 0
      <4>1. CASE t = s
        BY <1>1, <1>7, <4>1 DEF GoCountsOK
      <4>2. CASE t # s
        <5>1. writing[t] = 0
          BY <1>1, <4>2 DEF GoWritingInv
        <5>. QED
          BY <1>1, <1>7, <4>2, <5>1 DEF GoCountsOK
      <4>. QED
        BY <4>1, <4>2
    <3>. QED
      BY <1>1, <3>1, <3>2, <3>3 DEF GoOutputInv
  <2>. QED
    BY <1>4, <1>5, <1>6, <2>1, <2>2
<1>8. CASE exec' = "returned" /\ UNCHANGED sent
  <2>1. GoCountsOK'
    BY <1>1, <1>8 DEF GoCountsOK
  <2>2. \A t \in Go!Streams : GoOutputInv(t)'
    BY <1>1, <1>2, <1>8 DEF GoOutputInv
  <2>. QED
    BY <1>4, <1>5, <1>6, <2>1, <2>2
<1>. QED
  BY <1>7, <1>8 DEF Go!WriteOutput

LEMMA TakeStep ==
    ASSUME GoSessionInv, Go!TakeResult \/ \E s \in Go!Streams : Go!TakeClosed(s)
    PROVE  GoSessionInv'
<1>. USE DEF GoSessionInv
<1>1. /\ UNCHANGED <<goCounts, session, child, open, exec, status>> /\ exec = "select"
      /\ waiter' # waiter => waiter = "result" /\ waiter' = "closed"
  BY DEF Go!TakeResult, Go!TakeClosed, Go!handlerVars, Go!processVars, goCounts
<1>2. LarvalInv'
  BY <1>1 DEF goCounts, LarvalInv
<1>3. GoWaiterInv'
  <2>. USE DEF goCounts, GoWaiterInv, Go!AllClosed
  <2>1. CASE Go!TakeResult
    BY <1>1, <2>1 DEF Go!TakeResult, Go!Streams
  <2>2. ASSUME NEW s \in Go!Streams, Go!TakeClosed(s) PROVE GoWaiterInv'
    BY <1>1, <2>2 DEF Go!TakeClosed, Go!Streams
  <2>. QED
    BY <2>1, <2>2
<1>. QED
  BY <1>1, <1>2, <1>3, GoCountsUnchanged, GoReaderUnchanged, GoOutputUnchanged,
     GoWritingUnchanged

LEMMA SendExitStatusStep ==
    ASSUME GoSessionInv, Go!SendExitStatus
    PROVE  GoSessionInv'
<1>. USE DEF GoSessionInv
<1>1. /\ exec = "select" /\ exec' \in {"panicked", "returned"} /\ Go!AllClosed
      /\ exec' = "panicked" => status' = status
      /\ UNCHANGED <<session, child, open, given, pipe, reader, hand, slot, writing, sent,
                     waiter, nil>>
  BY DEF Go!SendExitStatus, Go!handlerVars, Go!processVars
<1>2. session # "larval" /\ status = None
  BY <1>1 DEF LarvalInv, GoWaiterInv
<1>. QED
  BY <1>1, <1>2 DEF GoCountsOK, LarvalInv, ReaderInv, GoOutputInv, GoWritingInv, GoWaiterInv,
     InSlot, Go!AllClosed

LEMMA GoSessionStep == GoSessionInv /\ [Go!Next]_(Go!vars) => GoSessionInv'
<1>. SUFFICES ASSUME GoSessionInv, [Go!Next]_(Go!vars) PROVE GoSessionInv'
  OBVIOUS
<1>1. CASE Go!Handler /\ ~Go!NewCommand
  <2>1. UNCHANGED goOutputVars /\ (child' = "reaped" <=> child = "reaped")
    BY <1>1 DEF Go!Handler, Go!NewPtyReq, Go!NewSignalReq, Go!NewDataReq, Go!StdinWritten,
       Go!OtherMessage, Go!MessageFails, Go!InputFails, Go!InputEOF, goOutputVars,
       Go!processVars, Go!execVars
  <2>. QED
    BY <2>1, GoQuietStep
<1>2. CASE Go!WaitForRunningCommand \/ Go!CommandReads \/ Go!CommandExits \/ Go!PeerLost
           \/ Go!OtherSessionEnds
  <2>1. UNCHANGED goOutputVars /\ (child' = "reaped" <=> child = "reaped")
    BY <1>2 DEF Go!WaitForRunningCommand, Go!CommandReads, Go!CommandExits, Go!PeerLost,
       Go!OtherSessionEnds, goOutputVars, Go!handlerVars, Go!processVars, Go!execVars
  <2>. QED
    BY <2>1, GoQuietStep
<1>3. CASE UNCHANGED Go!vars
  <2>1. UNCHANGED goOutputVars /\ child' = child
    BY <1>3 DEF Go!vars, goOutputVars, Go!handlerVars, Go!processVars, Go!execVars
  <2>. QED
    BY <2>1, GoQuietStep
<1>4. CASE Go!Exec
  BY <1>4, TakeOutputStep, WriteOutputStep, TakeStep, SendExitStatusStep DEF Go!Exec
<1>. QED
  BY <1>1, <1>2, <1>3, <1>4, NewCommandStep, CommandWritesStep, GoStreamClosesStep,
     ReaderReadsStep, ReaderPushesStep, GoWaiterStep
     DEF Go!Next, Go!Handler, Go!Environment, Go!Reader

-----------------------------------------------------------------------------
LEMMA GoFateInitially == Go!Init => GoFateInv
BY DEF Go!Init, GoFateInv

\* execExitStatus once the result of the command has been taken.
LEMMA ExitStatusTaken ==
    ASSUME waiter = "closed"
    PROVE  Go!ExitStatus = IF fate = Killed THEN TooLong ELSE fate
BY Zenon DEF Go!ExitStatus

LEMMA GoFateStep == GoSessionInv /\ GoFateInv /\ [Go!Next]_(Go!vars) => GoFateInv'
<1>. SUFFICES ASSUME GoSessionInv, GoFateInv, [Go!Next]_(Go!vars) PROVE GoFateInv'
  OBVIOUS
<1>. USE DEF GoFateInv
<1>1. CASE Go!NewCommand
  BY <1>1 DEF Go!NewCommand
<1>2. CASE Go!NewSignalReq
  BY <1>2, SessionAssumption DEF Go!NewSignalReq, Go!execVars, SessionAssumption
<1>3. CASE Go!CommandExits
  <2>1. fate' # None
    BY <1>3, SessionAssumption DEF Go!CommandExits, SessionAssumption
  <2>. QED
    BY <1>3, <2>1 DEF Go!CommandExits, Go!handlerVars, Go!execVars
<1>4. CASE Go!CommandWaited
  BY <1>4 DEF Go!CommandWaited, Go!handlerVars
<1>5. CASE Go!SendExitStatus
  <2>1. /\ exec' = "panicked" => status' = status
        /\ exec' # "panicked" => Go!ExitStatus # TooLong /\ status' \in {Go!ExitStatus, None}
        /\ UNCHANGED <<session, child, fate>> /\ Go!AllClosed
    BY <1>5 DEF Go!SendExitStatus, Go!handlerVars, Go!processVars
  <2>2. waiter = "closed" /\ child = "reaped"
    BY <2>1 DEF GoSessionInv, GoWaiterInv, Go!AllClosed
  <2>3. Go!ExitStatus # TooLong => Go!ExitStatus = fate
    BY <2>2, ExitStatusTaken
  <2>. QED
    BY <2>1, <2>2, <2>3
<1>6. CASE Go!Handler /\ ~Go!NewCommand /\ ~Go!NewSignalReq
  <2>1. UNCHANGED <<session, child, fate, status>>
    BY <1>6 DEF Go!Handler, Go!NewPtyReq, Go!NewDataReq, Go!StdinWritten, Go!OtherMessage,
       Go!MessageFails, Go!InputFails, Go!InputEOF, Go!processVars, Go!execVars
  <2>. QED
    BY <2>1
<1>7. CASE Go!WaitForRunningCommand \/ Go!CommandReads \/ Go!PeerLost \/ Go!OtherSessionEnds
           \/ Go!OutputRead \/ Go!TakeResult \/ UNCHANGED Go!vars
  <2>1. UNCHANGED <<session, child, fate, status>>
    BY <1>7 DEF Go!WaitForRunningCommand, Go!CommandReads, Go!PeerLost, Go!OtherSessionEnds,
       Go!OutputRead, Go!TakeResult, Go!vars, Go!handlerVars, Go!processVars, Go!execVars
  <2>. QED
    BY <2>1
<1>8. ASSUME NEW s \in Go!Streams,
             \/ Go!CommandWrites(s) \/ Go!StreamCloses(s) \/ Go!ReaderReads(s)
             \/ Go!ReaderPushes(s) \/ Go!TakeOutput(s) \/ Go!WriteOutput(s)
             \/ Go!TakeClosed(s)
      PROVE  GoFateInv'
  <2>1. UNCHANGED <<session, child, fate, status>>
    BY <1>8 DEF Go!CommandWrites, Go!StreamCloses, Go!ReaderReads, Go!ReaderPushes,
       Go!TakeOutput, Go!WriteOutput, Go!TakeClosed, Go!handlerVars, Go!processVars,
       Go!execVars
  <2>. QED
    BY <2>1
<1>. QED
  BY <1>1, <1>2, <1>3, <1>4, <1>5, <1>6, <1>7, <1>8
     DEF Go!Next, Go!Exec, Go!Waiter, Go!Environment, Go!Reader

-----------------------------------------------------------------------------
LEMMA GoCloseInitially == Go!Init => GoCloseInv
BY DEF Go!Init, GoCloseInv

LEMMA GoCloseStep ==
    GoSessionInv /\ GoFateInv /\ GoCloseInv /\ [Go!Next]_(Go!vars) => GoCloseInv'
<1>. SUFFICES ASSUME GoSessionInv, GoFateInv, GoCloseInv, [Go!Next]_(Go!vars)
              PROVE  GoCloseInv'
  OBVIOUS
<1>. USE DEF GoCloseInv
<1>1. CASE Go!NewCommand
  BY <1>1 DEF Go!NewCommand, Go!NextMessage
<1>2. CASE Go!SendExitStatus
  <2>1. /\ UNCHANGED <<loop, end, stream>>
        /\ exec' = "panicked" => status' = status
        /\ exec = "select" /\ Go!AllClosed
        /\ exec' # "panicked" => /\ Go!ExitStatus # TooLong
                                 /\ status' = IF stream = "open" THEN Go!ExitStatus ELSE None
    BY <1>2 DEF Go!SendExitStatus, Go!handlerVars
  <2>2. waiter = "closed" /\ fate # None /\ status = None
    BY <2>1 DEF GoSessionInv, GoWaiterInv, Go!AllClosed, GoFateInv
  <2>3. Go!ExitStatus # TooLong => Go!ExitStatus # None
    BY <2>2, ExitStatusTaken
  <2>. QED
    BY <2>1, <2>2, <2>3
<1>3. CASE Go!TakeResult
  BY <1>3 DEF Go!TakeResult, Go!handlerVars
<1>4. ASSUME NEW s \in Go!Streams,
             Go!TakeOutput(s) \/ Go!WriteOutput(s) \/ Go!TakeClosed(s)
      PROVE  GoCloseInv'
  BY <1>4 DEF Go!TakeOutput, Go!WriteOutput, Go!TakeClosed, Go!handlerVars
<1>5. CASE Go!Handler /\ ~Go!NewCommand
  <2>. USE DEF Go!Returns, Go!NextMessage
  <2>0. UNCHANGED <<exec, status>>
    BY <1>5 DEF Go!Handler, Go!NewPtyReq, Go!NewSignalReq, Go!NewDataReq, Go!StdinWritten,
       Go!OtherMessage, Go!MessageFails, Go!InputFails, Go!InputEOF, Go!execVars
  <2>1. CASE Go!NewPtyReq \/ Go!NewSignalReq \/ Go!NewDataReq \/ Go!StdinWritten
             \/ Go!OtherMessage
    BY <2>0, <2>1 DEF Go!NewPtyReq, Go!NewSignalReq, Go!NewDataReq, Go!StdinWritten,
       Go!OtherMessage
  <2>2. CASE Go!MessageFails \/ Go!InputFails \/ Go!InputEOF
    BY <2>0, <2>2 DEF Go!MessageFails, Go!InputFails, Go!InputEOF
  <2>. QED
    BY <1>5, <2>1, <2>2 DEF Go!Handler
<1>6. CASE Go!WaitForRunningCommand
  BY <1>6 DEF Go!WaitForRunningCommand, Go!Returns, Go!execVars
<1>7. CASE Go!PeerLost
  BY <1>7 DEF Go!PeerLost, Go!handlerVars, Go!execVars
<1>8. CASE Go!Waiter \/ Go!CommandReads \/ Go!CommandExits \/ Go!OtherSessionEnds
           \/ UNCHANGED Go!vars
  BY <1>8 DEF Go!Waiter, Go!OutputRead, Go!CommandWaited, Go!CommandReads, Go!CommandExits,
     Go!OtherSessionEnds, Go!vars, Go!handlerVars, Go!execVars
<1>9. ASSUME NEW s \in Go!Streams,
             Go!CommandWrites(s) \/ Go!StreamCloses(s) \/ Go!Reader(s)
      PROVE  GoCloseInv'
  BY <1>9 DEF Go!CommandWrites, Go!StreamCloses, Go!Reader, Go!ReaderReads,
     Go!ReaderPushes, Go!handlerVars, Go!execVars
<1>. QED
  BY <1>1, <1>2, <1>3, <1>4, <1>5, <1>6, <1>7, <1>8, <1>9
     DEF Go!Next, Go!Exec, Go!Environment

-----------------------------------------------------------------------------
(* The two servers together *)

\* The invariant of the server that runs.
ServerInv ==
    /\ impl \in {"go", "rust"}
    /\ impl = "go" => GoSessionInv /\ GoFateInv /\ GoCloseInv
    /\ impl = "rust" => RustSessionInv /\ RustFateInv

LEMMA ServerInitially == Init => ServerInv
BY RustSessionInitially, RustFateInitially, GoSessionInitially, GoFateInitially,
   GoCloseInitially DEF Init, ServerInv

LEMMA ServerStep == ServerInv /\ [Next]_vars => ServerInv'
<1>. SUFFICES ASSUME ServerInv, [Next]_vars PROVE ServerInv'
  OBVIOUS
<1>1. impl' = impl
  BY DEF Next, GoStep, RustStep, vars
<1>2. CASE impl = "go"
  <2>1. [Go!Next]_(Go!vars)
    BY <1>2 DEF Next, GoStep, RustStep, vars, bothVars, goVars, Go!vars, Go!handlerVars,
       Go!processVars, Go!execVars
  <2>. QED
    BY <1>1, <1>2, <2>1, GoSessionStep, GoFateStep, GoCloseStep DEF ServerInv
<1>3. CASE impl = "rust"
  <2>1. [Rust!Next]_(Rust!vars)
    BY <1>3 DEF Next, GoStep, RustStep, vars, bothVars, rustVars, Rust!vars
  <2>. QED
    BY <1>1, <1>3, <2>1, RustSessionStep, RustFateStep DEF ServerInv
<1>. QED
  BY <1>2, <1>3 DEF ServerInv

LEMMA ServerInvHolds == Spec => []ServerInv
BY ServerInitially, ServerStep, PTL DEF Spec

\* When the exit status is on the channel all output is there: the Go server has drained
\* both readers and their channels (execCmdInBackground), the Rust server has joined the
\* pumps (pump_process_output), one of which may have lost its output with the channel.
THEOREM StatusComesLast == Spec => []OutputBeforeStatus
<1>1. GoSessionInv => Go!OutputBeforeStatus
  <2>. SUFFICES ASSUME GoSessionInv, status # None PROVE sent = given /\ open = {}
    BY DEF Go!OutputBeforeStatus
  <2>. USE DEF GoSessionInv
  <2>1. \A s \in Go!Streams : reader[s] = "closed" /\ slot[s] = None
    BY DEF GoWaiterInv, Go!AllClosed
  <2>2. \A s \in Go!Streams : s \notin open /\ pipe[s] = 0 /\ hand[s] = 0
    BY <2>1 DEF ReaderInv
  <2>3. \A s \in Go!Streams : sent[s] = given[s]
    BY <2>1, <2>2 DEF GoOutputInv, InSlot, GoCountsOK, GoWritingInv, GoWaiterInv
  <2>4. sent = given
    BY <2>3 DEF GoCountsOK
  <2>. QED
    BY <2>2, <2>4 DEF GoCountsOK
<1>2. RustSessionInv => Rust!OutputBeforeStatus
  <2>. SUFFICES ASSUME RustSessionInv, status # None PROVE
           /\ \A s \in Rust!Streams : pump[s] \in {"none", "done", "failed"}
           /\ peer = "open" => sent = given
    BY DEF Rust!OutputBeforeStatus
  <2>1. \A s \in Rust!Streams : pump[s] \in Finished
    BY DEF RustSessionInv, RustWaiterInv
  <2>2. peer = "open" => \A s \in Rust!Streams : sent[s] = given[s]
    BY <2>1 DEF RustSessionInv, RustOutputInv, RustCountsOK, Finished
  <2>3. peer = "open" => sent = given
    BY <2>2 DEF RustSessionInv, RustCountsOK
  <2>. QED
    BY <2>1, <2>3 DEF Finished
<1>3. ServerInv => OutputBeforeStatus
  BY <1>1, <1>2 DEF ServerInv, OutputBeforeStatus
<1>. QED
  BY <1>3, ServerInvHolds, PTL

\* The status is the command's (Go: never the 0 that execExitStatus starts with; Rust:
\* status.code().unwrap_or(1).max(0) is 0 only for a process that exited with 0).
THEOREM StatusTold == Spec => []StatusIsTrue
<1>1. GoFateInv => Go!StatusIsTrue
  BY DEF GoFateInv, Go!StatusIsTrue
<1>2. RustFateInv => Rust!NoFalseSuccess
  <2>1. None # 0
    BY SessionAssumption DEF SessionAssumption
  <2>. QED
    BY <2>1 DEF RustFateInv, Rust!NoFalseSuccess, Rust!ExitStatus
<1>3. ServerInv => StatusIsTrue
  BY <1>1, <1>2 DEF ServerInv, StatusIsTrue
<1>. QED
  BY <1>3, ServerInvHolds, PTL

\* waitForRunningCommandAfterInputEOF: after the client's EOF the Go server closes the
\* session only behind the exit status, whoever stops reading meanwhile.
THEOREM ClosedOnlyAfterStatus == Spec => []ClosedAfterStatus
<1>1. ServerInv => ClosedAfterStatus
  BY DEF ServerInv, GoCloseInv, ClosedAfterStatus, Go!ClosedAfterStatus
<1>. QED
  BY <1>1, ServerInvHolds, PTL

\* The exit status is the last thing a session says: once it is on the channel it stays,
\* no output follows it and the command's fate does not change under it.
NothingFollowsStatus ==
    [][status # None => UNCHANGED <<status, fate, sent, given>>]_vars

\* The readers and pumps have ended, so no step of either server adds to what was sent.
THEOREM StatusIsFinal == Spec => NothingFollowsStatus
<1>1. ASSUME GoSessionInv, GoFateInv, [Go!Next]_(Go!vars), status # None
      PROVE  UNCHANGED <<status, fate, sent, given>>
  <2>1. /\ exec = "returned" /\ child = "reaped" /\ session # "larval"
        /\ \A s \in Go!Streams : reader[s] = "closed" /\ s \notin open
    BY <1>1 DEF GoSessionInv, GoWaiterInv, Go!AllClosed, ReaderInv, GoFateInv
  <2>2. CASE Go!Handler \/ Go!WaitForRunningCommand
    BY <2>1, <2>2 DEF Go!Handler, Go!NewPtyReq, Go!NewCommand, Go!NewSignalReq,
       Go!NewDataReq, Go!StdinWritten, Go!OtherMessage, Go!MessageFails, Go!InputFails,
       Go!InputEOF, Go!WaitForRunningCommand, Go!processVars, Go!execVars
  <2>3. CASE Go!Exec
    BY <2>1, <2>3 DEF Go!Exec, Go!TakeResult, Go!SendExitStatus, Go!TakeOutput,
       Go!WriteOutput, Go!TakeClosed
  <2>4. CASE Go!Waiter \/ Go!Environment
    BY <2>1, <2>4 DEF Go!Waiter, Go!OutputRead, Go!CommandWaited, Go!Environment,
       Go!CommandReads, Go!CommandExits, Go!PeerLost, Go!OtherSessionEnds,
       Go!CommandWrites, Go!StreamCloses, Go!processVars, Go!execVars
  <2>5. ASSUME NEW s \in Go!Streams, Go!Reader(s) PROVE FALSE
    BY <2>1, <2>5 DEF Go!Reader, Go!ReaderReads, Go!ReaderPushes
  <2>6. CASE UNCHANGED Go!vars
    BY <2>6 DEF Go!vars, Go!processVars, Go!execVars
  <2>. QED
    BY <1>1, <2>2, <2>3, <2>4, <2>5, <2>6 DEF Go!Next
<1>2. ASSUME RustSessionInv, RustFateInv, [Rust!Next]_(Rust!vars), status # None
      PROVE  UNCHANGED <<status, fate, sent, given>>
  <2>1. /\ waiter = "done" /\ child = "reaped" /\ session # "none"
        /\ \A s \in Rust!Streams : pump[s] \in Finished
        /\ \A s \in Rust!Streams : pump[s] = "failed" \/ s \notin open
    BY <1>2 DEF RustSessionInv, RustWaiterInv, RustOutputInv, RustFateInv, Finished
  <2>2. CASE Rust!Handler
    BY <2>1, <2>2 DEF Rust!Handler, Rust!Refuse, Rust!Pty, Rust!Start, Rust!Refused,
       Rust!RequestFails, Rust!Signal, Rust!WindowChange, Rust!ForwardAgent, Rust!Data,
       Rust!WriteInput, Rust!InputEnds, Rust!outputVars
  <2>3. CASE Rust!Waiter
    BY <2>1, <2>3 DEF Rust!Waiter, Rust!Reap, Rust!JoinPump, Rust!SendStatus, Rust!Streams
  <2>4. CASE Rust!ProcessReads \/ Rust!ProcessExits \/ Rust!PeerLost
    BY <2>1, <2>4 DEF Rust!ProcessReads, Rust!ProcessExits, Rust!PeerLost, Rust!outputVars
  <2>5. ASSUME NEW s \in Rust!Streams,
               \/ Rust!ProcessWrites(s) \/ Rust!StreamCloses(s)
               \/ Rust!PumpReads(s) \/ Rust!PumpWrites(s)
        PROVE  UNCHANGED <<status, fate, sent, given>>
    BY <2>1, <2>5 DEF Rust!ProcessWrites, Rust!StreamCloses, Rust!PumpReads,
       Rust!PumpWrites, Finished
  <2>6. CASE UNCHANGED Rust!vars
    BY <2>6 DEF Rust!vars
  <2>. QED
    BY <1>2, <2>2, <2>3, <2>4, <2>5, <2>6 DEF Rust!Next
<1>3. ServerInv /\ [Next]_vars =>
          [status # None => UNCHANGED <<status, fate, sent, given>>]_vars
  <2>. SUFFICES ASSUME ServerInv, [Next]_vars, status # None
                PROVE  UNCHANGED <<status, fate, sent, given>>
    OBVIOUS
  <2>1. CASE impl = "go"
    <3>1. [Go!Next]_(Go!vars)
      BY <2>1 DEF Next, GoStep, RustStep, vars, bothVars, goVars, Go!vars, Go!handlerVars,
         Go!processVars, Go!execVars
    <3>. QED
      BY <1>1, <2>1, <3>1 DEF ServerInv
  <2>2. CASE impl = "rust"
    <3>1. [Rust!Next]_(Rust!vars)
      BY <2>2 DEF Next, GoStep, RustStep, vars, bothVars, rustVars, Rust!vars
    <3>. QED
      BY <1>2, <2>2, <3>1 DEF ServerInv
  <2>. QED
    BY <2>1, <2>2 DEF ServerInv
<1>. QED
  BY <1>3, ServerInvHolds, PTL DEF Spec, NothingFollowsStatus
=============================================================================
