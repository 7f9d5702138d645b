------------------------------ MODULE MCDaemon ------------------------------
(***************************************************************************)
(* Small instances of the daemon: the sets of requests its clients send.   *)
(* Of the requests that take the same path through dispatch, one is sent.  *)
(***************************************************************************)
EXTENDS Daemon

Plain(ops) == [op : ops, host : {Unknown}]
SetHost(hosts) == [op : {"set_host"}, host : hosts]
Away == SetHost({Other(MyHost)})

\* A set_host to no host at all is refused; "set" stands for "get input" too.
EveryRequest ==
  Plain({"state", "reconnect", "shutdown", "query", "set", "reset", "set_host"})
    \cup SetHost(Hosts) \cup [op : {"set_input"}, host : {Other(MyHost)}]

StoppingRequests == Plain({"shutdown"}) \cup Away
=============================================================================
