------------------------------ MODULE MCRouting ------------------------------
(***************************************************************************)
(* The routing of datagrams in both implementations, each under its own    *)
(* questions.  impl, chosen at the start, says which of the two runs; the  *)
(* variables of the other stay as they were.                               *)
(***************************************************************************)
EXTENDS GoRouting

VARIABLES
    impl,   \* "go" or "rust"
    met, held, step, known, parked, gone, got,  \* of RustRouting, as named below
    target, pending, current, own, adopted, ready

Rust == INSTANCE RustRouting WITH
    routed <- met, hand <- held, rpc <- step, channels <- known,
    dangling <- parked, stopped <- gone, recvd <- got

rustVars == <<met, held, step, known, parked, gone, got, target, pending, current,
              own, adopted, ready>>
bothVars == <<impl, vars, rustVars>>

BothInit == impl \in {"go", "rust"} /\ Init /\ Rust!Init

BothNext ==
    /\ UNCHANGED impl
    /\ \/ impl = "go" /\ Next /\ UNCHANGED rustVars
       \/ impl = "rust" /\ Rust!Next /\ UNCHANGED vars

\* The fairness of GoRouting or of RustRouting, whichever runs.
BothFairness ==
    /\ WF_vars(impl = "go" /\ RouterRuns)
    /\ WF_rustVars(impl = "rust" /\ Rust!RouterRuns)
    /\ \A c \in Channels :
          /\ WF_vars(impl = "go" /\ ReceiveDatagram(c))
          /\ WF_rustVars(impl = "rust" /\ Rust!SetDatagramQueue(c))
          /\ WF_rustVars(impl = "rust" /\ Rust!ReceiveDatagram(c))

BothSpec == BothInit /\ [][BothNext]_bothVars /\ BothFairness

\* A handler of the Rust server gets the datagrams of its channel in the order in
\* which the router met them and none twice, whichever of the three queues each
\* went through; and none is parked where the registered channel will not look
\* for it, although the router looks the channel up, parks the datagram and
\* replaces the queue in separate critical sections.
RustInOrder == Rust!InOrder /\ Rust!OneHome

\* The Rust router goes back to its loop while every handler runs, however full
\* the queues are, with one exception: it has cloned a queue that add_channel then
\* replaced, which no handler reads, so that no room is ever made in it.
RouterStuckOnlyOnReplacedQueue ==
    (step # "idle") ~> (step = "idle" \/ gone # {} \/ Rust!OnReplacedQueue)
=============================================================================
