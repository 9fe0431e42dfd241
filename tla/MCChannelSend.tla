---------------------------- MODULE MCChannelSend ----------------------------
(***************************************************************************)
(* The send side of a channel in both implementations under the same       *)
(* questions.  impl, chosen at the start, says which of the two runs; the  *)
(* lock of the Rust stream and sendMutex are the same variable.            *)
(***************************************************************************)
EXTENDS GoChannelSend

CONSTANTS
    Tasks,          \* the Writers of RustChannelSend
    Main, Eager,
    MaxTaskWrites   \* its MaxWrites

ASSUME TasksAssumption ==
    /\ Main \in Eager
    /\ Eager \subseteq Tasks
    /\ NoOne \notin Tasks
    /\ MaxTaskWrites \in Nat

VARIABLE impl   \* "go" or "rust"

bothVars == <<impl, vars>>

Rust == INSTANCE RustChannelSend WITH
    Writers <- Tasks, MaxWrites <- MaxTaskWrites, send <- mutex

BothInit ==
    \/ impl = "go" /\ Init
    \/ impl = "rust" /\ Rust!Init

BothNext ==
    /\ UNCHANGED impl
    /\ \/ impl = "go" /\ Next
       \/ impl = "rust" /\ Rust!Next

\* The step of a writer that has begun a write.
GoAdvance(w) ==
    \/ SendHeader(w) \/ HeaderSent(w) \/ HeaderFails(w)
    \/ SendMessage(w) \/ MessageFails(w) \/ Return(w)

\* The fairness of GoChannelSend or of RustChannelSend, whichever runs.
BothFairness ==
    /\ \A w \in Writers : WF_vars(impl = "go" /\ GoAdvance(w))
    /\ \A w \in Tasks : SF_vars(impl = "rust" /\ Rust!Advance(w))

BothSpec == BothInit /\ [][BothNext]_bothVars /\ BothFairness

\* Whatever fails, the lock on the stream is released, so that a writer that
\* waits for it gets its turn; and a write of the Rust channel, which waits for
\* the lock twice, returns.
WritesReturn ==
    /\ (mutex # NoOne) ~> (mutex = NoOne)
    /\ \A w \in Tasks :
          (impl = "rust" /\ pc[w] # "idle") ~> (impl = "rust" /\ pc[w] = "idle")
=============================================================================
