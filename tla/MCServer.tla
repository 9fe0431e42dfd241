--------------------------------- MODULE MCServer ---------------------------------
(***************************************************************************)
(* Three streams for RustServer: channels of every kind, together with a   *)
(* stream that stops the router or a channel that the others wait for.     *)
(***************************************************************************)
EXTENDS RustServer, TLC

CONSTANTS s1, s2, s3

MCAssignments ==
    { (s1 :> "session") @@ (s2 :> "stalled"), (s1 :> "session") @@ (s2 :> "foreign"),
      (s1 :> "udp") @@ (s2 :> "cut"), (s2 :> "session") @@ (s3 :> "other"),
      (s2 :> "tcp"), (s3 :> "tcp") }

\* Datagrams go to s1: one that is parked, one for the queue of the channel and one for
\* which there is no room; to s3, those for its queue.  The messages of a TCP forwarding
\* go to s2.
MCMaxDatagrams == (s1 :> 3) @@ (s2 :> 0) @@ (s3 :> 2)
MCMaxData == (s1 :> 0) @@ (s2 :> 2) @@ (s3 :> 0)
=================================================================================
