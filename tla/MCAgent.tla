--------------------------------- MODULE MCAgent ---------------------------------
(***************************************************************************)
(* Two connections to the agent socket, for the ways a client runs a       *)
(* session.                                                                *)
(***************************************************************************)
EXTENDS RustAgent

CONSTANTS p1, p2

Config(capture, terminal, forward, agent_socket, procs) ==
    [capture |-> capture, terminal |-> terminal, forward |-> forward,
     agent_socket |-> agent_socket, procs |-> procs, agent_ends |-> ~capture,
     datagrams |-> ~capture, half_closes |-> ~capture]

\* A captured session has neither a terminal nor input, and so leaves room for two
\* connections.  The half-closed ones, the refusing agent and the datagrams are with the
\* sessions on a terminal.
MCConfigs ==
    { Config(FALSE, TRUE, TRUE, TRUE, {p1}), Config(FALSE, TRUE, TRUE, FALSE, {p1}),
      Config(FALSE, TRUE, FALSE, FALSE, {}), Config(TRUE, FALSE, TRUE, TRUE, {p1, p2}),
      Config(TRUE, FALSE, FALSE, FALSE, {}) }
=================================================================================
