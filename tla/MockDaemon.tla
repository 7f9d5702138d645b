----------------------------- MODULE MockDaemon -----------------------------
(***************************************************************************)
(* The daemon started with --mock: the mock branches of internal/daemon on *)
(* the simulated switch and client of internal/mock/device.go.             *)
(*                                                                         *)
(* Each call of the mock client is atomic under its mutex, and no mutation *)
(* of the state waits for one, so a step is one such call or one setState. *)
(* The switch is part of the process: a new process has a new one.         *)
(* cycle_on_active keeps its default here, which starts no cycles.         *)
(***************************************************************************)
EXTENDS Integers

CONSTANTS
  MyHost,    \* the host input of this machine
  Handlers,  \* handler goroutines, as many as connections at a time
  Requests   \* the requests that command-line clients send

Hosts == 1..2
Unknown == 0
Other == 3 - MyHost  \* the other machine's

Switching == {"set_host", "set_input"}
Ops == {"state", "reconnect", "query", "set", "reset", "yes"} \cup Switching
RequestType == [op : Ops, host : Hosts \cup {Unknown}]

Main == "main"
Poll == "poll"
Threads == {Main, Poll} \cup Handlers

ASSUME MockAssumption ==
  /\ MyHost \in Hosts
  /\ {Main, Poll} \cap Handlers = {}
  /\ Requests \subseteq RequestType
  /\ \A r \in Requests : r.op = "set_input" => r.host \in Hosts

VARIABLES
  host,       \* Device.host, the input the mock switch has selected
  connected,  \* Client.connected
  view,       \* the published state
  pc,         \* where each goroutine is
  req,        \* the request each handler serves
  cancelled   \* the daemon's context is done

vars == <<host, connected, view, pc, req, cancelled>>

View == [connected : BOOLEAN, iAmActive : BOOLEAN, activeHost : Hosts \cup {Unknown}]
InitialView == [connected |-> FALSE, iAmActive |-> FALSE, activeHost |-> Unknown]
ActiveView == [connected |-> TRUE, iAmActive |-> TRUE, activeHost |-> MyHost]
AwayView == [connected |-> FALSE, iAmActive |-> FALSE, activeHost |-> Other]

StateRequest == [op |-> "state", host |-> Unknown]

TypeOK ==
  /\ host \in Hosts
  /\ {connected, cancelled} \subseteq BOOLEAN
  /\ view \in View
  /\ req \in [Handlers -> RequestType]

Init ==
  /\ host = MyHost
  /\ connected = FALSE
  /\ view = InitialView
  /\ pc = [t \in Threads |-> IF t = Main THEN "close" ELSE "idle"]
  /\ req = [h \in Handlers |-> StateRequest]
  /\ cancelled = FALSE

Goto(t, label) == pc' = [pc EXCEPT ![t] = label]

Return(t) ==
  CASE t = Main -> "start"
    [] t = Poll -> "idle"
    [] OTHER -> "respond"

-----------------------------------------------------------------------------
(* The mock client *)

\* The adapter is there only while the switch has selected this machine.
PortPresent == host = MyHost
Live == connected /\ PortPresent

Disconnect(t, next) ==
  /\ connected' = FALSE
  /\ Goto(t, next)
  /\ UNCHANGED <<host, view, req, cancelled>>

-----------------------------------------------------------------------------
(* tryConnect and refreshFromDevice *)

Close(t) == pc[t] = "close" /\ Disconnect(t, "open")

Open(t) ==
  /\ pc[t] = "open"
  /\ connected' = PortPresent
  /\ Goto(t, IF PortPresent THEN "probe" ELSE "downZero")
  /\ UNCHANGED <<host, view, req, cancelled>>

Probe(t) ==
  /\ pc[t] = "probe"
  /\ Goto(t, IF Live THEN "query" ELSE "downKeep")
  /\ UNCHANGED <<host, connected, view, req, cancelled>>

\* "get input" is answered only here, and so always names this machine.
Query(t) ==
  /\ pc[t] = "query"
  /\ \/ Live /\ Goto(t, "publish") /\ UNCHANGED <<host, connected, view, req, cancelled>>
     \/ ~Live /\ Disconnect(t, "drop")

Drop(t) == pc[t] = "drop" /\ Disconnect(t, "downKeep")

Publish(t, v) ==
  /\ view' = v
  /\ Goto(t, Return(t))
  /\ UNCHANGED <<host, connected, req, cancelled>>

DownKeepsActive(v) == [v EXCEPT !.connected = FALSE]  \* mutant: iAmActive kept
Down(v) == [v EXCEPT !.connected = FALSE, !.iAmActive = FALSE]

PublishActive(t) == pc[t] = "publish" /\ Publish(t, ActiveView)
PublishDown(t) == pc[t] = "downKeep" /\ Publish(t, Down(view))
PublishNoPort(t) ==
  pc[t] = "downZero" /\ Publish(t, [Down(view) EXCEPT !.activeHost = Unknown])

-----------------------------------------------------------------------------
(* pollOnce *)

PollOnceKeeping(t) ==  \* mutant: an absent port is left to the next refresh
  /\ Goto(t, IF PortPresent THEN "connected" ELSE Return(t))
  /\ UNCHANGED <<host, connected, view, req, cancelled>>

PollOnce(t) ==
  /\ Goto(t, IF PortPresent THEN "connected" ELSE "gone")
  /\ UNCHANGED <<host, connected, view, req, cancelled>>

Connected(t) ==
  /\ pc[t] = "connected"
  /\ Goto(t, IF Live THEN "probe" ELSE "close")
  /\ UNCHANGED <<host, connected, view, req, cancelled>>

Gone(t) == pc[t] = "gone" /\ Disconnect(t, "downOther")
PublishOther(t) == pc[t] = "downOther" /\ Publish(t, AwayView)

\* The ticker fires; it may do so once more over a done context.
Tick ==
  /\ pc[Poll] = "idle"
  /\ pc[Main] \in {"serve", "closing"}
  /\ \/ PollOnce(Poll)
     \/ cancelled /\ Goto(Poll, "exited") /\ UNCHANGED <<host, connected, view, req, cancelled>>

PollAfterError(h) == pc[h] = "poll" /\ PollOnce(h)

-----------------------------------------------------------------------------
(* dispatch *)

RouteUnvalidated(r) ==  \* mutant: setHost takes any host
  CASE r.op = "state" -> "respond"
    [] r.op = "reconnect" -> "close"
    [] OTHER -> "check"

Route(r) ==
  CASE r.op = "state" \/ (r.op = "set_host" /\ r.host \notin Hosts) -> "respond"
    [] r.op = "reconnect" -> "close"
    [] OTHER -> "check"

Accept(h) ==
  /\ pc[Main] = "serve"
  /\ pc[h] = "idle"
  /\ \E r \in Requests :
       /\ req' = [req EXCEPT ![h] = r]
       /\ Goto(h, Route(r))
  /\ UNCHANGED <<host, connected, view, cancelled>>

Check(h) ==
  /\ pc[h] = "check"
  /\ Goto(h, IF view.connected THEN "send" ELSE "respond")
  /\ UNCHANGED <<host, connected, view, req, cancelled>>

\* The input the mock switch selects: a confirmed reset selects host 1, and so does
\* a bare "yes", which the mock takes for a confirmation whatever came before.
Selected(r) ==
  CASE r.op \in Switching -> r.host
    [] r.op \in {"reset", "yes"} -> 1
    [] OTHER -> host

\* A "yes" is not seen to change anything, so nothing is refreshed after it.
OnReply(r) ==
  CASE r.op = "set_host" -> "switchOk"
    [] r.op \in {"query", "yes"} -> "respond"
    [] OTHER -> "probe"

OnError(r) == IF r.op = "set_host" THEN "switchErr" ELSE "poll"

SendAnywhere(h) ==  \* mutant: a command needs no port
  /\ pc[h] = "send"
  /\ \/ /\ connected
        /\ host' = Selected(req[h])
        /\ connected' = (req[h].op \in Switching => host' = MyHost)
        /\ Goto(h, OnReply(req[h]))
        /\ UNCHANGED <<view, req, cancelled>>
     \/ ~connected /\ Disconnect(h, OnError(req[h]))

\* Only "set input" that switches away disconnects the client at once.
Send(h) ==
  /\ pc[h] = "send"
  /\ \/ /\ Live
        /\ host' = Selected(req[h])
        /\ connected' = (req[h].op \in Switching => host' = MyHost)
        /\ Goto(h, OnReply(req[h]))
        /\ UNCHANGED <<view, req, cancelled>>
     \/ ~Live /\ Disconnect(h, OnError(req[h]))

\* setHost publishes what it was asked for, even when its command failed.
PublishSwitchErr(h) ==
  /\ pc[h] = "switchErr"
  /\ Publish(h, [connected  |-> FALSE,
                 iAmActive  |-> req[h].host = MyHost,
                 activeHost |-> req[h].host])

PublishSwitchHere(h) ==
  /\ pc[h] = "switchOk"
  /\ req[h].host = MyHost
  /\ Publish(h, [view EXCEPT !.iAmActive = TRUE, !.activeHost = MyHost])

PublishSwitchAway(h) ==
  /\ pc[h] = "switchOk"
  /\ req[h].host # MyHost
  /\ view' = AwayView
  /\ connected' = FALSE
  /\ Goto(h, "respond")
  /\ UNCHANGED <<host, req, cancelled>>

Respond(h) ==
  /\ pc[h] = "respond"
  /\ Goto(h, "idle")
  /\ req' = [req EXCEPT ![h] = StateRequest]
  /\ UNCHANGED <<host, connected, view, cancelled>>

-----------------------------------------------------------------------------
(* The end of the process, and the next one. *)

\* A signal, or the timer of a shutdown request, cancels the context.
Cancel ==
  /\ ~cancelled
  /\ cancelled' = TRUE
  /\ UNCHANGED <<host, connected, view, pc, req>>

StartServing ==
  /\ pc[Main] = "start"
  /\ Goto(Main, "serve")
  /\ UNCHANGED <<host, connected, view, req, cancelled>>

StopServing ==
  /\ pc[Main] = "serve"
  /\ cancelled
  /\ Goto(Main, "closing")
  /\ UNCHANGED <<host, connected, view, req, cancelled>>

Exit == pc[Main] = "closing" /\ Disconnect(Main, "exited")

Restart ==
  /\ pc[Main] = "exited"
  /\ host' = MyHost
  /\ connected' = FALSE
  /\ view' = InitialView
  /\ pc' = [t \in Threads |-> IF t = Main THEN "close" ELSE "idle"]
  /\ req' = [h \in Handlers |-> StateRequest]
  /\ cancelled' = FALSE

-----------------------------------------------------------------------------

Alive == pc[Main] # "exited"

Thread(t) ==
  \/ Close(t) \/ Open(t) \/ Probe(t) \/ Query(t) \/ Drop(t)
  \/ PublishActive(t) \/ PublishDown(t) \/ PublishNoPort(t)

\* What the poll loop and a handler whose command failed have in common.
Polling(t) == Connected(t) \/ Gone(t) \/ PublishOther(t)

MainThread == Alive /\ (Thread(Main) \/ StartServing \/ StopServing \/ Exit)
PollThread == Alive /\ (Tick \/ Polling(Poll) \/ Thread(Poll))

Handler(h) ==
  /\ Alive
  /\ \/ Thread(h) \/ Polling(h) \/ PollAfterError(h)
     \/ Check(h) \/ Send(h)
     \/ PublishSwitchErr(h) \/ PublishSwitchHere(h) \/ PublishSwitchAway(h)
     \/ Respond(h)

Next ==
  \/ MainThread
  \/ PollThread
  \/ \E h \in Handlers : Accept(h) \/ Handler(h)
  \/ Cancel
  \/ Restart

Spec == Init /\ [][Next]_vars

\* The goroutines run; nobody has to call, cancel or start a new process.
Fairness ==
  /\ WF_vars(MainThread)
  /\ WF_vars(PollThread)
  /\ \A h \in Handlers : WF_vars(Handler(h))

FairSpec == Spec /\ Fairness

-----------------------------------------------------------------------------

\* "Cannot switch back without serial": once the mock switch has left this
\* machine, no command already past its checks brings it back, only the switch
\* of a new process starts out here.
NoSwitchBack ==
  [][host = Other => \/ host' = Other
                     \/ pc[Main] = "exited"]_vars

\* What `status` prints in the end is where the mock switch is: "connected=false,
\* active_host=2" after a switch away by set_host, a raw command or a reset,
\* whatever polls and reconnects were under way.
StatusFollows ==
  <>[](pc[Main] = "serve" /\ \A h \in Handlers : pc[h] = "idle") =>
  <>[](view = IF host = MyHost THEN ActiveView ELSE AwayView)

\* To its clients the mock is a daemon like any other.
Server == INSTANCE StateServer WITH serving <- pc[Main] = "serve"
ServerSpec == Server!Spec

=============================================================================
