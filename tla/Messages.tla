------------------------------- MODULE Messages -------------------------------
(***************************************************************************)
(* The messages of a channel and how each implementation lays them out:    *)
(* the fields in the order in which they are written and in which they are *)
(* read, each with its kind.  A message is a record of its fields.  Names  *)
(* of requests and of channel types are strings of one octet.              *)
(***************************************************************************)
EXTENDS Wire

CONSTANT FrameType  \* SSH_FRAME_TYPE: any number whose varint takes 8 octets

SSH_MSG_CHANNEL_OPEN_CONFIRMATION == 91
SSH_MSG_CHANNEL_OPEN_FAILURE == 92
SSH_MSG_CHANNEL_DATA == 94
SSH_MSG_CHANNEL_EXTENDED_DATA == 95
SSH_MSG_CHANNEL_REQUEST == 98

KnownTypes ==
    {SSH_MSG_CHANNEL_OPEN_CONFIRMATION, SSH_MSG_CHANNEL_OPEN_FAILURE,
     SSH_MSG_CHANNEL_DATA, SSH_MSG_CHANNEL_EXTENDED_DATA, SSH_MSG_CHANNEL_REQUEST}

\* Request types
Pty == <<1>>
X11 == <<2>>
Shell == <<3>>
Exec == <<4>>
Subsystem == <<5>>
WindowChange == <<6>>
Signal == <<7>>
ExitStatus == <<8>>
ExitSignal == <<9>>
ForwardPort == <<10>>

\* Channel types
Session == <<1>>
DirectTcp == <<2>>
DirectUdp == <<3>>

Int(name) == <<"int", name>>
Str(name) == <<"string", name>>
Bool(name) == <<"bool", name>>
Protocol == <<"protocol", "protocol">>
Family == <<"family", "family">>
Address == <<"octets", "address">>
Port == <<"port", "port">>

-----------------------------------------------------------------------------
(* What the Rust implementation writes: encode of each type *)

\* Mutant of RustChannelOpenConfirmation: a window size is written too.
RustChannelOpenConfirmationWindow == <<Int("max_packet_size"), Int("max_packet_size")>>

RustChannelOpenConfirmation == <<Int("max_packet_size")>>

RustChannelOpenFailure ==
    <<Int("reason_code"), Str("error_message_utf8"), Str("language_tag")>>

RustDataOrExtendedData(type) ==
    IF type = SSH_MSG_CHANNEL_DATA THEN <<Str("data")>>
    ELSE <<Int("data_type"), Str("data")>>

RustChannelRequest == <<Str("request"), Bool("want_reply")>>

RustPtyRequest ==
    <<Str("term"), Int("char_width"), Int("char_height"), Int("pixel_width"),
      Int("pixel_height"), Str("encoded_terminal_modes")>>

RustX11Request ==
    <<Bool("single_connection"), Str("x11_authentication_protocol"),
      Str("x11_authentication_cookie"), Int("x11_screen_number")>>

RustExecRequest == <<Str("command")>>

RustSubsystemRequest == <<Str("subsystem_name")>>

RustWindowChangeRequest ==
    <<Int("char_width"), Int("char_height"), Int("pixel_width"), Int("pixel_height")>>

RustSignalRequest == <<Str("signal_name_without_sig")>>

RustExitStatusRequest == <<Int("exit_status")>>

RustExitSignalRequest ==
    <<Str("signal_name_without_sig"), Bool("core_dumped"), Str("error_message_utf8"),
      Str("language_tag")>>

RustForwardingRequest == <<Protocol, Family, Address, Port>>

\* ChannelRequest::encode_payload; nothing for a type it does not know.
RustRequest(request) ==
    CASE request = Pty -> RustPtyRequest
      [] request = X11 -> RustX11Request
      [] request = Exec -> RustExecRequest
      [] request = Subsystem -> RustSubsystemRequest
      [] request = WindowChange -> RustWindowChangeRequest
      [] request = Signal -> RustSignalRequest
      [] request = ExitStatus -> RustExitStatusRequest
      [] request = ExitSignal -> RustExitSignalRequest
      [] request = ForwardPort -> RustForwardingRequest
      [] OTHER -> <<>>

\* Message::encode, behind the message type.
RustBody(type) ==
    CASE type = SSH_MSG_CHANNEL_REQUEST -> RustChannelRequest
      [] type = SSH_MSG_CHANNEL_OPEN_CONFIRMATION -> RustChannelOpenConfirmation
      [] type = SSH_MSG_CHANNEL_OPEN_FAILURE -> RustChannelOpenFailure
      [] type \in {SSH_MSG_CHANNEL_DATA, SSH_MSG_CHANNEL_EXTENDED_DATA} ->
            RustDataOrExtendedData(type)
      [] OTHER -> <<>>

\* ChannelHeader::encode
RustHeader ==
    <<Int("frame"), Int("conversation"), Str("channel_type"), Int("max_packet_size")>>

\* build_forwarding_additional_bytes
RustTarget == <<Family, Address, Port>>

-----------------------------------------------------------------------------
(* What it reads from a channel *)

\* parse_message, behind the message type
RustReadMessage(type) ==
    CASE type = SSH_MSG_CHANNEL_REQUEST -> <<Str("request"), Bool("want_reply")>>
      [] type = SSH_MSG_CHANNEL_OPEN_CONFIRMATION -> <<Int("max_packet_size")>>
      [] type = SSH_MSG_CHANNEL_OPEN_FAILURE ->
            <<Int("reason_code"), Str("error_message_utf8"), Str("language_tag")>>
      [] type = SSH_MSG_CHANNEL_DATA -> <<Str("data")>>
      [] type = SSH_MSG_CHANNEL_EXTENDED_DATA -> <<Int("data_type"), Str("data")>>

RustRequestTypes ==
    {Pty, X11, Shell, Exec, Subsystem, WindowChange, Signal, ExitStatus, ExitSignal,
     ForwardPort}

\* read_channel_request, behind the request type and want_reply
RustReadRequest(request) ==
    CASE request = Pty ->
            <<Str("term"), Int("char_width"), Int("char_height"), Int("pixel_width"),
              Int("pixel_height"), Str("encoded_terminal_modes")>>
      [] request = X11 ->
            <<Bool("single_connection"), Str("x11_authentication_protocol"),
              Str("x11_authentication_cookie"), Int("x11_screen_number")>>
      [] request = Shell -> <<>>
      [] request = Exec -> <<Str("command")>>
      [] request = Subsystem -> <<Str("subsystem_name")>>
      [] request = WindowChange ->
            <<Int("char_width"), Int("char_height"), Int("pixel_width"),
              Int("pixel_height")>>
      [] request = Signal -> <<Str("signal_name_without_sig")>>
      [] request = ExitStatus -> <<Int("exit_status")>>
      [] request = ExitSignal ->
            <<Str("signal_name_without_sig"), Bool("core_dumped"),
              Str("error_message_utf8"), Str("language_tag")>>
      [] request = ForwardPort -> <<Protocol, Family, Address, Port>>

\* read_incoming_channel
RustReadHeader ==
    <<Int("frame"), Int("conversation"), Str("channel_type"), Int("max_packet_size")>>

\* read_forwarding_target
RustReadTarget == <<Family, Address, Port>>

-----------------------------------------------------------------------------
(* The Go implementation: Write and Parse of each type *)

GoChannelOpenConfirmation ==
    [write |-> <<Int("max_packet_size")>>, parse |-> <<Int("max_packet_size")>>]

GoChannelOpenFailure ==
    [write |-> <<Int("reason_code"), Str("error_message_utf8"), Str("language_tag")>>,
     parse |-> <<Int("reason_code"), Str("error_message_utf8"), Str("language_tag")>>]

GoDataOrExtendedData(type) ==
    IF type = SSH_MSG_CHANNEL_DATA
    THEN [write |-> <<Str("data")>>, parse |-> <<Str("data")>>]
    ELSE [write |-> <<Int("data_type"), Str("data")>>,
          parse |-> <<Int("data_type"), Str("data")>>]

GoChannelRequest ==
    [write |-> <<Str("request"), Bool("want_reply")>>,
     parse |-> <<Str("request"), Bool("want_reply")>>]

GoPtyRequest ==
    [write |-> <<Str("term"), Int("char_width"), Int("char_height"),
                 Int("pixel_width"), Int("pixel_height"),
                 Str("encoded_terminal_modes")>>,
     parse |-> <<Str("term"), Int("char_width"), Int("char_height"),
                 Int("pixel_width"), Int("pixel_height"),
                 Str("encoded_terminal_modes")>>]

GoX11Request ==
    [write |-> <<Bool("single_connection"), Str("x11_authentication_protocol"),
                 Str("x11_authentication_cookie"), Int("x11_screen_number")>>,
     parse |-> <<Bool("single_connection"), Str("x11_authentication_protocol"),
                 Str("x11_authentication_cookie"), Int("x11_screen_number")>>]

GoShellRequest == [write |-> <<>>, parse |-> <<>>]

GoExecRequest == [write |-> <<Str("command")>>, parse |-> <<Str("command")>>]

GoSubsystemRequest ==
    [write |-> <<Str("subsystem_name")>>, parse |-> <<Str("subsystem_name")>>]

GoWindowChangeRequest ==
    [write |-> <<Int("char_width"), Int("char_height"), Int("pixel_width"),
                 Int("pixel_height")>>,
     parse |-> <<Int("char_width"), Int("char_height"), Int("pixel_width"),
                 Int("pixel_height")>>]

GoSignalRequest ==
    [write |-> <<Str("signal_name_without_sig")>>,
     parse |-> <<Str("signal_name_without_sig")>>]

GoExitStatusRequest ==
    [write |-> <<Int("exit_status")>>, parse |-> <<Int("exit_status")>>]

\* Mutant of GoExitSignalRequest: the last two strings are read in the other order.
GoExitSignalRequestSwapped ==
    [write |-> <<Str("signal_name_without_sig"), Bool("core_dumped"),
                 Str("error_message_utf8"), Str("language_tag")>>,
     parse |-> <<Str("signal_name_without_sig"), Bool("core_dumped"),
                 Str("language_tag"), Str("error_message_utf8")>>]

GoExitSignalRequest ==
    [write |-> <<Str("signal_name_without_sig"), Bool("core_dumped"),
                 Str("error_message_utf8"), Str("language_tag")>>,
     parse |-> <<Str("signal_name_without_sig"), Bool("core_dumped"),
                 Str("error_message_utf8"), Str("language_tag")>>]

\* The keys of ChannelRequestParseFuncs
GoRequestTypes ==
    {Pty, X11, Shell, Exec, Subsystem, WindowChange, Signal, ExitStatus, ExitSignal}

\* ChannelRequestParseFuncs, and the Write of the same types; nothing for a type
\* that is not in the map.
GoRequest(request) ==
    CASE request = Pty -> GoPtyRequest
      [] request = X11 -> GoX11Request
      [] request = Exec -> GoExecRequest
      [] request = Subsystem -> GoSubsystemRequest
      [] request = WindowChange -> GoWindowChangeRequest
      [] request = Signal -> GoSignalRequest
      [] request = ExitStatus -> GoExitStatusRequest
      [] request = ExitSignal -> GoExitSignalRequest
      [] OTHER -> GoShellRequest

\* ParseMessage, behind the message type
GoBody(type) ==
    CASE type = SSH_MSG_CHANNEL_REQUEST -> GoChannelRequest
      [] type = SSH_MSG_CHANNEL_OPEN_CONFIRMATION -> GoChannelOpenConfirmation
      [] type = SSH_MSG_CHANNEL_OPEN_FAILURE -> GoChannelOpenFailure
      [] type \in {SSH_MSG_CHANNEL_DATA, SSH_MSG_CHANNEL_EXTENDED_DATA} ->
            GoDataOrExtendedData(type)
      [] OTHER -> [write |-> <<>>, parse |-> <<>>]

\* buildHeader; the frame type in front of parseHeader is read by serveConnection.
GoHeader ==
    [write |-> <<Int("frame"), Int("conversation"), Str("channel_type"),
                 Int("max_packet_size")>>,
     parse |-> <<Int("frame"), Int("conversation"), Str("channel_type"),
                 Int("max_packet_size")>>]

\* buildForwardingChannelAdditionalBytes and parseForwardingHeader
GoTarget == [write |-> <<Family, Address, Port>>, parse |-> <<Family, Address, Port>>]

-----------------------------------------------------------------------------

\* The fields of message m as implementation impl writes them.
WriteLayout(impl, m) ==
    IF "frame" \in DOMAIN m
    THEN IF impl = "rust"
         THEN RustHeader \o (IF "family" \in DOMAIN m THEN RustTarget ELSE <<>>)
         ELSE GoHeader.write \o (IF "family" \in DOMAIN m THEN GoTarget.write ELSE <<>>)
    ELSE <<Int("type")>> \o
         (IF impl = "rust" THEN RustBody(m.type) ELSE GoBody(m.type).write) \o
         (IF "request" \notin DOMAIN m THEN <<>>
          ELSE IF impl = "rust" THEN RustRequest(m.request)
          ELSE GoRequest(m.request).write)

EncodeField(field, value) ==
    CASE field[1] \in {"int", "protocol", "family"} -> AppendVarInt(value)
      [] field[1] = "string" -> AppendSSHString(value)
      [] field[1] = "bool" -> <<IF value THEN 1 ELSE 0>>
      [] field[1] \in {"octets", "port"} -> value

Encode(impl, m) ==
    LET layout == WriteLayout(impl, m)
        bytes[i \in 0 .. Len(layout)] ==
            IF i = 0 THEN <<>>
            ELSE bytes[i - 1] \o EncodeField(layout[i], m[layout[i][2]])
    IN  bytes[Len(layout)]
=============================================================================
