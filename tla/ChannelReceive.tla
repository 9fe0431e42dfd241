---------------------------- MODULE ChannelReceive ----------------------------
(***************************************************************************)
(* One direction of a channel's stream: what a peer of either              *)
(* implementation writes, and the reader of either implementation, field   *)
(* by field.  The reader of a channel that the peer opened starts with the *)
(* header (read_incoming_channel, acceptSSHChannel), waits in the accept   *)
(* queue until the application accepts it, and then takes messages; the    *)
(* reader of a channel that it opened itself starts with messages.  The    *)
(* stream may end in the middle of a message or be reset.                  *)
(***************************************************************************)
EXTENDS Messages

CONSTANTS
    Headers,     \* the headers a peer may send
    Inputs,      \* the other messages
    MaxString,   \* MAX_SSH_STRING_LEN and MaxSSHStringLength, scaled down
    MaxMessages  \* bound: messages on the stream, the header included

\* Numbers that have a varint: those below 2^62.
IsVarInt(n) == n \in Nat /\ (n \div 1073741824) \div 4 < 1073741824

\* Whether message m has for this field what its type can hold.
HasKind(field, m) ==
    LET v == m[field[2]] IN
    /\ field[1] \in {"int", "protocol", "family"} => IsVarInt(v)
    /\ field[1] = "string" => v \in Seq(Nat) /\ IsVarInt(Len(v))
    /\ field[1] = "bool" => v \in BOOLEAN
    /\ field[1] = "octets" => v \in Seq(Nat) /\ Len(v) = (IF m.family = 4 THEN 4 ELSE 16)
    /\ field[1] = "port" => v \in Seq(Nat) /\ Len(v) = 2

\* A record of the fields of its layout.
WellFormed(m) ==
    LET layout == WriteLayout("rust", m) IN
    /\ m = [x \in DOMAIN m |-> m[x]]
    /\ DOMAIN m = {layout[i][2] : i \in 1 .. Len(layout)}
    /\ \A i \in 1 .. Len(layout) : HasKind(layout[i], m)

ASSUME ReceiveAssumption ==
    /\ \A m \in Headers :
          /\ "frame" \in DOMAIN m
          /\ "family" \in DOMAIN m <=> m.channel_type \in {DirectTcp, DirectUdp}
          /\ WellFormed(m)
    /\ \A m \in Inputs :
          /\ "frame" \notin DOMAIN m
          /\ "request" \in DOMAIN m <=> m.type = SSH_MSG_CHANNEL_REQUEST
          /\ WellFormed(m)

VARIABLES
    from, to,     \* the implementations of the writer and of the reader
    opened,       \* 1 if the reader opened the channel
    waiting,      \* 1 while wait_for_confirmation has not returned
    sent,         \* the messages written in full
    wire,         \* the octets written
    end,          \* "open", "fin" or "reset"
    pos,          \* octets the reader has taken
    todo,         \* the fields it has to read for the current message
    msg,          \* the fields it has read of it
    got,          \* the header and messages given to the application
    state,        \* "reading", "queued", or how it ended: "eof", "error", "panic"
    confirm_sent, \* 0 or 1
    misread       \* 1 once a Read returned less than asked for and was taken as full

peer == <<sent, wire, end>>
ends == <<from, to, opened>>
vars == <<from, to, opened, waiting, sent, wire, end, pos, todo, msg, got, state,
          confirm_sent, misread>>

Message == <<Int("type")>>

NoFields == [x \in {} |-> 0]

-----------------------------------------------------------------------------
(* What is on the stream behind pos *)

\* Whether the varint behind the first p octets is there.
VarIntThere(p) == p < Len(wire) /\ p + VarIntSize(wire, p + 1) <= Len(wire)

VarInt == ReadVarInt(wire, pos + 1)
VarIntEnd == pos + VarIntSize(wire, pos + 1)

\* Octets of the address, by the family that was read before it.
AddressLen == IF msg.family = 4 THEN 4 ELSE 16

\* Whether there is enough of the field to read it or to refuse it.
Complete(field) ==
    CASE field[1] \in {"int", "protocol", "family"} -> VarIntThere(pos)
      [] field[1] = "string" ->
            VarIntThere(pos) /\ (VarInt > MaxString \/ VarIntEnd + VarInt <= Len(wire))
      [] field[1] = "bool" -> pos + 1 <= Len(wire)
      [] field[1] = "octets" -> pos + AddressLen <= Len(wire)
      [] field[1] = "port" -> pos + 2 <= Len(wire)

\* Octets asked for in one call of Read.
Wanted(field) == IF field[1] = "octets" THEN AddressLen ELSE 2

\* The position behind the field.
FieldEnd(field) ==
    CASE field[1] \in {"int", "protocol", "family"} -> VarIntEnd
      [] field[1] = "string" -> VarIntEnd + VarInt
      [] field[1] = "bool" -> pos + 1
      [] field[1] \in {"octets", "port"} -> pos + Wanted(field)

FieldValue(field) ==
    CASE field[1] \in {"int", "protocol", "family"} -> VarInt
      [] field[1] = "string" -> SubSeq(wire, VarIntEnd + 1, VarIntEnd + VarInt)
      [] field[1] = "bool" -> wire[pos + 1] # 0
      [] field[1] \in {"octets", "port"} -> SubSeq(wire, pos + 1, pos + Wanted(field))

-----------------------------------------------------------------------------
(* What the reader makes of a field *)

InHeader == "frame" \in DOMAIN msg \/ (todo # <<>> /\ todo[1] = Int("frame"))

KnownRequests == IF to = "rust" THEN RustRequestTypes ELSE GoRequestTypes

\* Whether a complete field is refused: the length of a string, an octet that
\* is no bool (any octet is one for Go's binary.Read), an unknown family or
\* protocol, a frame that is not ours, a packet size out of bounds (only Go
\* checks it here), and a request type that is not known, which is looked up
\* behind want_reply.
Refused(field) ==
    \/ field[1] = "string" /\ VarInt > MaxString
    \/ field[1] = "bool" /\ to = "rust" /\ wire[pos + 1] \notin {0, 1}
    \/ field[1] = "family" /\ VarInt \notin {4, 6}
    \/ field[1] = "protocol" /\ VarInt \notin {0, 1}
    \/ field = Int("frame") /\ VarInt # FrameType
    \/ field = Int("max_packet_size") /\ InHeader /\ to = "go" /\ ~ValidPacketSize(VarInt)
    \/ field = Bool("want_reply") /\ msg.request \notin KnownRequests

\* The fields that follow from the value v of this one.
Continuation(field, v) ==
    CASE field = Int("type") ->
            IF to = "rust" THEN RustReadMessage(v) ELSE GoBody(v).parse
      [] field = Bool("want_reply") ->
            IF to = "rust" THEN RustReadRequest(msg.request)
            ELSE GoRequest(msg.request).parse
      [] field = Int("max_packet_size") /\ InHeader
            /\ msg.channel_type \in {DirectTcp, DirectUdp} ->
            IF to = "rust" THEN RustReadTarget ELSE GoTarget.parse
      [] OTHER -> <<>>

-----------------------------------------------------------------------------

Init ==
    /\ from \in Impls
    /\ to \in Impls
    /\ opened \in {0, 1}
    \* only the Rust server's agent forwarding waits for the confirmation
    /\ waiting \in (IF to = "rust" THEN {0, opened} ELSE {0})
    /\ sent = <<>>
    /\ wire = <<>>
    /\ end = "open"
    /\ pos = 0
    /\ todo = IF opened = 1 THEN Message
              ELSE IF to = "rust" THEN RustReadHeader ELSE GoHeader.parse
    /\ msg = NoFields
    /\ got = <<>>
    /\ state = "reading"
    /\ confirm_sent = opened
    /\ misread = 0

\* The header is the first thing on the stream of a channel the peer opened;
\* the Go implementation has no sender of a forwarding request.
MaySend(m) ==
    /\ end = "open"
    /\ Len(sent) < MaxMessages
    /\ m \in IF opened = 0 /\ sent = <<>> THEN Headers ELSE Inputs
    /\ "request" \in DOMAIN m /\ m.request = ForwardPort => from = "rust"

Send(m) ==
    /\ MaySend(m)
    /\ sent' = Append(sent, m)
    /\ wire' = wire \o Encode(from, m)
    /\ UNCHANGED <<ends, waiting, end, pos, todo, msg, got, state, confirm_sent, misread>>

\* The writer stops behind the first n octets of a message, and the stream ends.
Cut(m, n) ==
    /\ MaySend(m)
    /\ wire' = wire \o SubSeq(Encode(from, m), 1, n)
    /\ end' = "fin"
    /\ UNCHANGED <<ends, waiting, sent, pos, todo, msg, got, state, confirm_sent, misread>>

Finish ==
    /\ end = "open"
    /\ end' = "fin"
    /\ UNCHANGED <<ends, waiting, sent, wire, pos, todo, msg, got, state, confirm_sent,
                   misread>>

Reset ==
    /\ end \in {"open", "fin"}
    /\ state = "reading"
    /\ end' = "reset"
    /\ UNCHANGED <<ends, waiting, sent, wire, pos, todo, msg, got, state, confirm_sent,
                   misread>>

Advance(field, v, p) ==
    /\ msg' = [x \in DOMAIN msg \cup {field[2]} |-> IF x = field[2] THEN v ELSE msg[x]]
    /\ todo' = Tail(todo) \o Continuation(field, v)
    /\ pos' = p
    /\ UNCHANGED <<got, state>>

Stop(how) ==
    /\ state' = how
    /\ UNCHANGED <<pos, todo, msg, got>>

\* An unknown message type is an error of the Rust reader; ParseMessage panics.
ReadField ==
    /\ state = "reading"
    /\ todo # <<>>
    /\ Complete(todo[1])
    /\ LET field == todo[1] IN
       IF Refused(field) THEN Stop("error")
       ELSE IF field = Int("type") /\ VarInt \notin KnownTypes
       THEN Stop(IF to = "rust" THEN "error" ELSE "panic")
       ELSE Advance(field, FieldValue(field), FieldEnd(field))
    /\ UNCHANGED <<ends, waiting, peer, confirm_sent, misread>>

\* parseForwardingHeader calls Read once for the address and once for the port
\* and looks at the error only: a frame that ends early leaves the rest of the
\* buffer zero, and the rest of the field on the stream.
ShortRead(n) ==
    /\ state = "reading"
    /\ todo # <<>>
    /\ to = "go" /\ todo[1][1] \in {"octets", "port"}
    /\ n < Wanted(todo[1])
    /\ pos + n <= Len(wire)
    /\ Advance(todo[1],
               [i \in 1 .. Wanted(todo[1]) |-> IF i <= n THEN wire[pos + i] ELSE 0],
               pos + n)
    /\ misread' = 1
    /\ UNCHANGED <<ends, waiting, peer, confirm_sent>>

\* Read returns io.EOF together with the last octets of the stream, so a target
\* that is complete is refused when the end of the stream arrived with it.
ReadAtEnd ==
    /\ state = "reading"
    /\ todo # <<>>
    /\ to = "go" /\ todo[1][1] \in {"octets", "port"}
    /\ end = "fin"
    /\ Len(wire) \in pos + 1 .. pos + Wanted(todo[1])
    /\ Stop("error")
    /\ UNCHANGED <<ends, waiting, peer, confirm_sent, misread>>

\* How the end of the stream inside a field is reported: read_exact fails with
\* UnexpectedEof, at the end of a message too; the Go
\* readers return io.EOF as it is, but wrap it in InvalidSSHString for a string.
\* A header that ends early is refused by both.
EndOfStream(field) ==
    IF InHeader \/ (to = "go" /\ field[1] = "string") THEN "error" ELSE "eof"

\* Mutant of ReadFails: the reader waits for more of a stream that has ended.
ReadFailsOnReset ==
    /\ state = "reading"
    /\ todo # <<>>
    /\ end = "reset"
    /\ Stop("error")
    /\ UNCHANGED <<ends, waiting, peer, confirm_sent, misread>>

\* Mutant of ReadFails: a reset is reported like the end of the stream.
ReadFailsAsEnd ==
    /\ state = "reading"
    /\ todo # <<>>
    /\ end = "reset" \/ (end = "fin" /\ ~Complete(todo[1]))
    /\ Stop(EndOfStream(todo[1]))
    /\ UNCHANGED <<ends, waiting, peer, confirm_sent, misread>>

\* The stream has ended before the field has; a reset also drops what is there.
ReadFails ==
    /\ state = "reading"
    /\ todo # <<>>
    /\ \/ end = "fin" /\ ~Complete(todo[1]) /\ Stop(EndOfStream(todo[1]))
       \/ end = "reset" /\ Stop("error")
    /\ UNCHANGED <<ends, waiting, peer, confirm_sent, misread>>

\* The next message.
Again(delivered) ==
    /\ got' = delivered
    /\ msg' = NoFields
    /\ todo' = Message
    /\ UNCHANGED <<pos, state>>

\* A complete header goes to the accept queue.
QueueChannel ==
    /\ state = "reading"
    /\ todo = <<>>
    /\ InHeader
    /\ state' = "queued"
    /\ UNCHANGED <<ends, waiting, peer, pos, todo, msg, got, confirm_sent, misread>>

\* accept_channel_with_metadata and AcceptChannel: the channel is confirmed and
\* given to the application.  If that fails the Rust application gets the error
\* instead; Go ignores the error and leaves confirmSent false.
AcceptChannel ==
    /\ state = "queued"
    /\ \/ confirm_sent' = 1 /\ state' = "reading"
       \/ confirm_sent' = 0 /\ state' = IF to = "rust" THEN "error" ELSE "reading"
    /\ got' = IF state' = "error" THEN got ELSE <<msg>>
    /\ msg' = NoFields
    /\ todo' = Message
    /\ UNCHANGED <<ends, waiting, peer, pos, misread>>

\* wait_for_confirmation, next_message and NextMessage behind the parser.
TakeMessage ==
    /\ state = "reading"
    /\ todo = <<>>
    /\ ~InHeader
    /\ \/ /\ msg.type = SSH_MSG_CHANNEL_OPEN_CONFIRMATION
          /\ IF to = "go" /\ ~ValidPacketSize(msg.max_packet_size)
             THEN Stop("error") /\ UNCHANGED waiting
             ELSE Again(got) /\ waiting' = 0
       \/ /\ msg.type = SSH_MSG_CHANNEL_OPEN_FAILURE
          /\ Stop("error")
          /\ UNCHANGED waiting
       \/ /\ msg.type \notin {SSH_MSG_CHANNEL_OPEN_CONFIRMATION,
                              SSH_MSG_CHANNEL_OPEN_FAILURE}
          /\ IF waiting = 1 \/ confirm_sent = 0 THEN Stop("error")
             ELSE Again(Append(got, msg))
          /\ UNCHANGED waiting
    /\ UNCHANGED <<ends, peer, confirm_sent, misread>>

Read == ReadField \/ (\E n \in 1 .. 15 : ShortRead(n)) \/ ReadAtEnd \/ ReadFails

Reader == Read \/ QueueChannel \/ AcceptChannel \/ TakeMessage

Next ==
    \/ \E m \in Headers \cup Inputs :
          Send(m) \/ \E n \in 1 .. Len(Encode(from, m)) - 1 : Cut(m, n)
    \/ Finish
    \/ Reset
    \/ Reader

\* The task or goroutine that reads a channel is scheduled as long as it can
\* read; nothing obliges the peer to do anything.
Spec == Init /\ [][Next]_vars /\ WF_vars(Reader)

-----------------------------------------------------------------------------

\* What the application should see of the stream: the confirmation is for the
\* channel itself.
ForApplication(m) ==
    "frame" \in DOMAIN m \/ m.type # SSH_MSG_CHANNEL_OPEN_CONFIRMATION

Deliverable ==
    LET upto[i \in 0 .. Len(sent)] ==
            IF i = 0 THEN <<>>
            ELSE IF ForApplication(sent[i]) THEN Append(upto[i - 1], sent[i])
            ELSE upto[i - 1]
    IN  upto[Len(sent)]

\* Whatever the application of either implementation is given was written by the
\* peer, whichever implementation that is: the same header and messages with the
\* same fields, in the same order, and never a message that was cut short.  A
\* target that parseForwardingHeader read in part is the exception.
DeliveredAsSent ==
    misread = 0 =>
        /\ Len(got) <= Len(Deliverable)
        /\ \A i \in DOMAIN got : got[i] = Deliverable[i]

\* A reader that reports the end of the stream (UnexpectedEof, io.EOF), which its
\* callers take for the regular end of the channel, has given the application every
\* message that was written in full.
EndIsTrue == state = "eof" /\ misread = 0 => got = Deliverable

\* ParseMessage panics on a type it does not know.  Only a peer that sends such a
\* type, or a target that was read in part, brings it there: no legal sequence of
\* messages of either implementation does.
PanicOnUnknownTypeOnly ==
    state = "panic" =>
        \/ misread = 1
        \/ \E i \in DOMAIN sent :
               "type" \in DOMAIN sent[i] /\ sent[i].type \notin KnownTypes

\* Every channel whose stream has ended ends at its reader, however the stream
\* was cut: no read waits for octets that cannot come.
ReaderEnds == end # "open" ~> state \in {"eof", "error", "panic"}
=============================================================================
