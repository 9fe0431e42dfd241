------------------------------- MODULE WriteData -------------------------------
(***************************************************************************)
(* The packetisation loop of a channel write: Channel::write_data of the   *)
(* Rust implementation and channelImpl.WriteData of the Go one.  A buffer  *)
(* is cut into data messages that should fit the packet size the peer      *)
(* advertised.  Only lengths are modelled; impl says whose arithmetic is   *)
(* used.  One step writes one message.                                     *)
(***************************************************************************)
EXTENDS Wire

CONSTANTS
    PacketSizes,  \* the packet sizes a peer may advertise
    DataSizes     \* the lengths of buffer that may be written

ASSUME WriteAssumption ==
    /\ PacketSizes \subseteq Nat
    /\ DataSizes \subseteq Nat

\* SSH_EXTENDED_DATA_NONE and SSH_EXTENDED_DATA_STDERR
DataTypes == {0, 1}

VARIABLES
    impl,    \* the implementation this channel belongs to
    max,     \* max_packet_size of the channel
    type,    \* the data type of this write
    left,    \* bytes of the buffer that are not on the stream yet
    last,    \* encoded length of the last message written, 0 before the first
    status   \* "running", "ok" or "error"

writeVars == <<impl, max, type, left, last, status>>

-----------------------------------------------------------------------------
(* Encoded lengths *)

\* Message type (94 or 95) and, for extended data, the data type.
Prefix(t) == IF t = 0 THEN VarIntLen(94) ELSE VarIntLen(95) + VarIntLen(t)

\* Encoded length of a data message of type t with n bytes of data.
DataMessageLen(t, n) == Prefix(t) + VarIntLen(n) + n

-----------------------------------------------------------------------------
(* What the two implementations allow in one message *)

\* Whether the size is accepted: checked_sub, or validatePacketSize.
Accepted ==
    IF impl = "go" THEN ValidPacketSize(max) ELSE DataMessageLen(type, 0) <= max

\* Mutant of GoOverhead: only the empty message is accounted for.
GoOverheadOfEmptyMessage(t) == DataMessageLen(t, 0)

\* The empty message and room for the largest length prefix.
GoOverhead(t) == DataMessageLen(t, 0) + 7

\* Mutant of RustPayload: a packet without room for data holds no data.
RustPayloadZero(m, t) == m - DataMessageLen(t, 0)

\* Mutant of RustPayload: the overhead of the message is forgotten.
RustPayloadWhole(m, t) == m

\* max_payload.max(1)
RustPayload(m, t) ==
    IF m > DataMessageLen(t, 0) THEN m - DataMessageLen(t, 0) ELSE 1

\* Bytes of data in the next message.  Where Go's unsigned difference wraps, it
\* is larger than any buffer.
Payload ==
    LET room == IF impl = "rust" THEN RustPayload(max, type)
                ELSE IF GoOverhead(type) <= max THEN max - GoOverhead(type)
                ELSE left
    IN  IF room <= left THEN room ELSE left

-----------------------------------------------------------------------------

WriteInit ==
    /\ impl \in Impls
    /\ max \in PacketSizes
    /\ type \in DataTypes
    /\ left \in DataSizes
    /\ last = 0
    /\ status = "running"

\* Rust refuses the size before the loop, Go in each round of it.
Reject ==
    /\ status = "running"
    /\ ~Accepted
    /\ impl = "rust" \/ left > 0
    /\ status' = "error"
    /\ UNCHANGED <<impl, max, type, left, last>>

\* One message is written on the stream.
WriteMessage ==
    /\ status = "running"
    /\ Accepted
    /\ left > 0
    /\ last' = DataMessageLen(type, Payload)
    /\ left' = left - Payload
    /\ UNCHANGED <<impl, max, type, status>>

\* The stream does not take the message, or not all of it.
WriteFails ==
    /\ status = "running"
    /\ Accepted
    /\ left > 0
    /\ status' = "error"
    /\ UNCHANGED <<impl, max, type, left, last>>

Return ==
    /\ status = "running"
    /\ impl = "go" \/ Accepted
    /\ left = 0
    /\ status' = "ok"
    /\ UNCHANGED <<impl, max, type, left, last>>

WriteNext == Reject \/ WriteMessage \/ WriteFails \/ Return

\* The task that writes runs while its stream takes data; nothing makes a stream
\* fail.
WriteSpec ==
    /\ WriteInit
    /\ [][WriteNext]_writeVars
    /\ WF_writeVars(Reject \/ WriteMessage \/ Return)

-----------------------------------------------------------------------------

\* The lengths stay natural numbers: the buffer is never advanced past its end,
\* which would be a panic of the slice expression.
TypeOK ==
    /\ impl \in Impls
    /\ max \in Nat
    /\ type \in DataTypes
    /\ left \in Nat
    /\ last \in Nat
    /\ status \in {"running", "ok", "error"}

\* GO_VALIDATION.md: data encoding "stays within the advertised packet size".
\* No message that is put on the stream is longer than the packet size.
PacketBounded == last <= max

\* The same of the messages of the Go implementation, which reserves room for
\* the largest length prefix.
GoPacketBounded == impl = "go" => PacketBounded

\* A message of write_data is longer than the packet size by at most a length
\* prefix: only one byte is reserved for it, and a packet size that leaves no
\* room for data still carries one byte of it.
OverrunBounded == last <= max + VarIntLen(max)

\* The loop ends for every packet size and buffer: each round advances.
Finishes == <>(status # "running")
=============================================================================
