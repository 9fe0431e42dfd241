--------------------------- MODULE MCChannelReceive ---------------------------
(***************************************************************************)
(* Messages of every kind.  The numbers lie on both sides of the lengths   *)
(* of a varint, one string is longer than MaxString allows, one message    *)
(* type and one request type are known to nobody, and the packet sizes are *)
(* legal, too small for Go, and large.                                     *)
(***************************************************************************)
EXTENDS ChannelReceive, TLC

a == <<11>>
b == <<12, 13>>

Request(request, reply) ==
    [type |-> SSH_MSG_CHANNEL_REQUEST, request |-> request, want_reply |-> reply]

MCHeaders ==
    {[frame |-> FrameType, conversation |-> 4, channel_type |-> Session,
      max_packet_size |-> n] : n \in {63, 64}}
    \cup
    {[frame |-> FrameType, conversation |-> 64, channel_type |-> DirectTcp,
      max_packet_size |-> 30000, family |-> 4, address |-> <<10, 0, 0, 1>>,
      port |-> <<0, 22>>],
     [frame |-> FrameType, conversation |-> 0, channel_type |-> DirectUdp,
      max_packet_size |-> 16384, family |-> 6,
      address |-> [i \in 1 .. 16 |-> i], port |-> <<31, 22>>]}

MCRequests ==
    {Request(Pty, TRUE) @@
        [term |-> a, char_width |-> 80, char_height |-> 24, pixel_width |-> 16383,
         pixel_height |-> 16384, encoded_terminal_modes |-> b],
     Request(X11, FALSE) @@
        [single_connection |-> TRUE, x11_authentication_protocol |-> a,
         x11_authentication_cookie |-> b, x11_screen_number |-> 63],
     Request(Shell, TRUE),
     Request(Exec, TRUE) @@ [command |-> b],
     Request(Subsystem, FALSE) @@ [subsystem_name |-> <<>>],
     Request(WindowChange, FALSE) @@
        [char_width |-> 64, char_height |-> 63, pixel_width |-> 0, pixel_height |-> 1],
     Request(Signal, FALSE) @@ [signal_name_without_sig |-> a],
     Request(ExitStatus, FALSE) @@ [exit_status |-> 255],
     Request(ExitSignal, FALSE) @@
        [signal_name_without_sig |-> a, core_dumped |-> FALSE,
         error_message_utf8 |-> b, language_tag |-> a],
     Request(ForwardPort, TRUE) @@
        [protocol |-> 1, family |-> 4, address |-> <<10, 0, 0, 2>>, port |-> <<0, 23>>],
     Request(<<15>>, TRUE)}

MCInputs ==
    MCRequests \cup
    {[type |-> SSH_MSG_CHANNEL_OPEN_CONFIRMATION, max_packet_size |-> 30000],
     [type |-> SSH_MSG_CHANNEL_OPEN_CONFIRMATION, max_packet_size |-> 1],
     [type |-> SSH_MSG_CHANNEL_OPEN_FAILURE, reason_code |-> 1,
      error_message_utf8 |-> b, language_tag |-> <<>>],
     [type |-> SSH_MSG_CHANNEL_DATA, data |-> b],
     [type |-> SSH_MSG_CHANNEL_DATA, data |-> <<1, 2, 3, 4>>],
     [type |-> SSH_MSG_CHANNEL_EXTENDED_DATA, data_type |-> 1, data |-> a],
     [type |-> 96]}
=============================================================================
