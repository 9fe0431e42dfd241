------------------------------ MODULE MCGoServer ------------------------------
(***************************************************************************)
(* Two connections; on the first two conversations, and two streams for    *)
(* the first of them, a session and a forwarding channel.                  *)
(***************************************************************************)
EXTENDS GoServer

CONSTANTS k1, k2, v1, v2, s1, s2

MCOn == [v \in Convs |-> k1]

MCTo == [s \in Streams |-> v1]
=============================================================================
