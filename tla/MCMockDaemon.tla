---------------------------- MODULE MCMockDaemon ----------------------------
(***************************************************************************)
(* Two clients at a time, on the machine a reset switches away from.       *)
(***************************************************************************)
EXTENDS MockDaemon

\* The requests that change anything, and a set_host that is refused.
MCRequests ==
  [op : {"reconnect", "reset", "yes", "set_host"}, host : {Unknown}]
    \cup [op : {"set_host"}, host : Hosts] \cup [op : {"set_input"}, host : {Other}]
=============================================================================
