------------------------------- MODULE Daemon -------------------------------
(***************************************************************************)
(* The daemon of internal/daemon/daemon.go on real hardware: the main      *)
(* goroutine that connects and then waits for cancellation, the poll loop, *)
(* one goroutine per IPC connection, and the power-cycle goroutine that    *)
(* considerUSBCycle starts.  They share the published state (under mu),    *)
(* the cycle gate (under cycleMu) and the serial client (KvmLink).         *)
(*                                                                         *)
(* Every point where the code takes or drops a mutex, or calls the client, *)
(* is a label of pc; what runs between two such points is one step.        *)
(***************************************************************************)
EXTENDS KvmLink

CONSTANTS
  Requests,       \* the IPC requests clients may send
  CycleOnActive,  \* config cycle_on_active
  CycleSides,     \* sides to power-cycle, from config cycle_side
  PortSides,      \* sides on which config cycle_port names a port
  CycleConfigOK,  \* do cycle_side and cycle_restore parse?
  Signals         \* may the process be sent SIGINT or SIGTERM?

Ops == {"state", "reconnect", "shutdown", "set_host",
        "query", "get_input", "set", "set_input", "reset"}
RequestType == [op : Ops, host : Hosts \cup {Unknown}]

ASSUME DaemonAssumption ==
  /\ Requests \subseteq RequestType
  /\ Requests # {}
  /\ \A r \in Requests : r.op = "set_input" => r.host \in Hosts
  /\ CycleOnActive \in BOOLEAN
  /\ CycleSides \subseteq {"rx", "tx"}
  /\ CycleSides # {}
  /\ PortSides \subseteq {"rx", "tx"}
  /\ {CycleConfigOK, Signals} \subseteq BOOLEAN
  /\ Cyclers # {}

VARIABLES
  pc,           \* where each goroutine is
  req,          \* the request each handler serves
  view,         \* Daemon.state, the published view of the switch
  mu,           \* Daemon.mu: its writer, or NoOne
  snap,         \* did the state each goroutine last published say "active"?
  portKnown,    \* is cfg.Port set, by the user or by an earlier connect?
  sawInactive,  \* Daemon.sawInactive
  cycling,      \* Daemon.cycling
  stopping,     \* a shutdown request is about to cancel the context
  cancelled     \* the daemon's context is done

gateVars == <<sawInactive, cycling>>
ctxVars == <<stopping, cancelled>>
vars == <<linkVars, pc, req, view, mu, snap, portKnown, gateVars, ctxVars>>

NoRequest == [op |-> "state", host |-> Unknown]

ThreadLabels ==
  {"idle", "poll", "close", "open", "probe", "query", "drop",
   "downKeep", "downZero", "downOther", "publish", "switchOk", "switchErr",
   "consider", "check", "send", "respond", "serve", "closing", "exited"}
Stages == {"rxOff", "txOff", "rxOn", "txOn"}
CyclerLabels == {"idle", "begin", "sleep", "end"} \cup Stages

\* The labels at which a goroutine issues a serial command.
CommandLabels == {"query", "send"} \cup Stages

View == [connected : BOOLEAN, iAmActive : BOOLEAN,
         activeHost : Hosts \cup {Unknown}]

TypeOK ==
  /\ LinkTypeOK
  /\ pc \in [Users -> ThreadLabels \cup CyclerLabels]
  /\ \A t \in Threads : pc[t] \in ThreadLabels
  /\ \A c \in Cyclers : pc[c] \in CyclerLabels
  /\ req \in [Handlers -> RequestType]
  /\ view \in View
  /\ mu \in Threads \cup {NoOne}
  /\ snap \in [Threads -> BOOLEAN]
  /\ portKnown \in BOOLEAN
  /\ sawInactive \in BOOLEAN
  /\ cycling \in BOOLEAN
  /\ stopping \in BOOLEAN
  /\ cancelled \in BOOLEAN

-----------------------------------------------------------------------------
(* A process starts in tryConnect with everything but the switch reset. *)

InitialView == [connected |-> FALSE, iAmActive |-> FALSE, activeHost |-> Unknown]

InitialPC(u) == IF u = Main THEN "close" ELSE "idle"

Init ==
  /\ LinkInit
  /\ pc = [u \in Users |-> InitialPC(u)]
  /\ req = [h \in Handlers |-> NoRequest]
  /\ view = InitialView
  /\ mu = NoOne
  /\ snap = [t \in Threads |-> FALSE]
  /\ portKnown \in BOOLEAN
  /\ sawInactive = FALSE
  /\ cycling = FALSE
  /\ stopping = FALSE
  /\ cancelled = FALSE

Goto(u, label) == pc' = [pc EXCEPT ![u] = label]

\* Where tryConnect, refreshFromDevice and setState return to.
Return(t) ==
  CASE t = Main -> "serve"
    [] t = Poll -> "idle"
    [] OTHER -> "respond"

Active(v) == v.connected /\ v.iAmActive

-----------------------------------------------------------------------------
(* tryConnect *)

\* t.Close() before looking for the port.
Close(t) ==
  /\ pc[t] = "close"
  /\ CloseClient
  /\ Goto(t, "open")
  /\ UNCHANGED <<req, view, mu, snap, portKnown, gateVars, ctxVars>>

\* FindPort has no configured path and enumerates no adapter.
FindFails(t) ==
  /\ pc[t] = "open"
  /\ ~portKnown
  /\ ~plugged
  /\ Goto(t, "downZero")
  /\ UNCHANGED <<linkVars, req, view, mu, snap, portKnown, gateVars, ctxVars>>

\* The port opens and its path is remembered for the next poll.
Open(t) ==
  /\ pc[t] = "open"
  /\ OpenClient
  /\ portKnown' = TRUE
  /\ Goto(t, "probe")
  /\ UNCHANGED <<req, view, mu, snap, gateVars, ctxVars>>

\* The port is gone, held by another process, or not yet accessible.
OpenFails(t) ==
  /\ pc[t] = "open"
  /\ OpenClientFails
  /\ Goto(t, "downZero")
  /\ UNCHANGED <<req, view, mu, snap, portKnown, gateVars, ctxVars>>

-----------------------------------------------------------------------------
(* refreshFromDevice *)

\* refreshFromDevice first asks Connected().
Probe(t) ==
  /\ pc[t] = "probe"
  /\ ClientFree
  /\ Goto(t, IF port = "nil" THEN "downKeep" ELSE "query")
  /\ UNCHANGED <<linkVars, req, view, mu, snap, portKnown, gateVars, ctxVars>>

\* "get input" goes out, or fails because the client lost its handle.
Query(t) ==
  /\ pc[t] = "query"
  /\ \/ WriteGetInput(t) /\ UNCHANGED pc
     \/ (NotConnected \/ WriteFails) /\ Goto(t, "drop")
  /\ UNCHANGED <<req, view, mu, snap, portKnown, gateVars, ctxVars>>

QueryAnswered(t) ==
  /\ pc[t] = "query"
  /\ \/ ReadGetInput(t) /\ Goto(t, "publish")
     \/ ReadGetInputFails(t) /\ Goto(t, "drop")
  /\ UNCHANGED <<req, view, mu, snap, portKnown, gateVars, ctxVars>>

\* The error path closes whatever handle the client has by now.
Drop(t) ==
  /\ pc[t] = "drop"
  /\ CloseClient
  /\ Goto(t, "downKeep")
  /\ UNCHANGED <<req, view, mu, snap, portKnown, gateVars, ctxVars>>

-----------------------------------------------------------------------------
(* setState: the mutation under mu, then considerUSBCycle on the snapshot. *)

\* A mutation that calls nothing takes and drops mu in one step.
SetState(t, v) ==
  /\ mu = NoOne
  /\ view' = v
  /\ snap' = [snap EXCEPT ![t] = Active(v)]
  /\ Goto(t, "consider")
  /\ UNCHANGED <<linkVars, req, mu, portKnown, gateVars, ctxVars>>

DownKeepsActive(v) == [v EXCEPT !.connected = FALSE]  \* mutant: iAmActive kept

Down(v) == [v EXCEPT !.connected = FALSE, !.iAmActive = FALSE]

\* refreshFromDevice without an answer keeps the last active host.
PublishDown(t) ==
  /\ pc[t] = "downKeep"
  /\ SetState(t, Down(view))

\* tryConnect without a port forgets it.
PublishNoPort(t) ==
  /\ pc[t] = "downZero"
  /\ SetState(t, [Down(view) EXCEPT !.activeHost = Unknown])

\* pollOnce without any adapter to look for assumes the other host.
PublishOther(t) ==
  /\ pc[t] = "downOther"
  /\ SetState(t, [Down(view) EXCEPT !.activeHost = Other(MyHost)])

\* setHost whose command failed trusts the switch to have happened.
PublishSwitchErr(t) ==
  /\ pc[t] = "switchErr"
  /\ SetState(t, [connected  |-> FALSE,
                  iAmActive  |-> req[t].host = MyHost,
                  activeHost |-> req[t].host])

\* The other two mutations call the client while they hold mu.
LockState(t) ==
  /\ pc[t] \in {"publish", "switchOk"}
  /\ mu = NoOne
  /\ mu' = t
  /\ UNCHANGED <<linkVars, pc, req, view, snap, portKnown, gateVars, ctxVars>>

KeepStateLocked(t, v) ==  \* mutant: a mutation that never unlocks
  /\ view' = v
  /\ snap' = [snap EXCEPT ![t] = Active(v)]
  /\ mu' = mu
  /\ Goto(t, "consider")
  /\ UNCHANGED <<req, portKnown, gateVars, ctxVars>>

UnlockState(t, v) ==
  /\ view' = v
  /\ snap' = [snap EXCEPT ![t] = Active(v)]
  /\ mu' = NoOne
  /\ Goto(t, "consider")
  /\ UNCHANGED <<req, portKnown, gateVars, ctxVars>>

GarbledIsOther(t) == IF reply[t] \in Hosts THEN reply[t] ELSE Other(MyHost)  \* mutant

\* An answer that names no host still counts as this machine being active.
AnsweredHost(t) == IF reply[t] \in Hosts THEN reply[t] ELSE MyHost

\* refreshFromDevice with an answer; the mutation reads the client's Path().
PublishAnswer(t) ==
  /\ pc[t] = "publish"
  /\ mu = t
  /\ ClientFree
  /\ ForgetReply(t)
  /\ UNCHANGED <<input, plugged, port, clientMu>>
  /\ UnlockState(t, [connected  |-> TRUE,
                     iAmActive  |-> AnsweredHost(t) = MyHost,
                     activeHost |-> AnsweredHost(t)])

\* setHost to this machine: the link stays as it is.
PublishSwitchHere(t) ==
  /\ pc[t] = "switchOk"
  /\ mu = t
  /\ req[t].host = MyHost
  /\ UNCHANGED linkVars
  /\ UnlockState(t, [view EXCEPT !.iAmActive = TRUE, !.activeHost = MyHost])

\* setHost away from this machine: the mutation closes the client.
PublishSwitchAway(t) ==
  /\ pc[t] = "switchOk"
  /\ mu = t
  /\ req[t].host # MyHost
  /\ CloseClient
  /\ UnlockState(t, [connected  |-> FALSE,
                     iAmActive  |-> FALSE,
                     activeHost |-> req[t].host])

\* The snapshot is a local copy; it goes with the call.
Considered(t) == snap' = [snap EXCEPT ![t] = FALSE]

\* considerUSBCycle arms the gate on an inactive snapshot ...
ConsiderInactive(t) ==
  /\ pc[t] = "consider"
  /\ ~snap[t]
  /\ sawInactive' = TRUE
  /\ Considered(t)
  /\ Goto(t, Return(t))
  /\ UNCHANGED <<linkVars, req, view, mu, portKnown, cycling, ctxVars>>

CycleAlthoughCycling == CycleOnActive /\ sawInactive  \* mutant: no check of the flag
CycleUnreported == CycleOnActive /\ ~cycling          \* mutant: no check of the report

ShouldCycle == CycleOnActive /\ sawInactive /\ ~cycling

\* ... leaves it alone on an active one that has no reason to cycle ...
ConsiderActive(t) ==
  /\ pc[t] = "consider"
  /\ snap[t]
  /\ ~ShouldCycle
  /\ Considered(t)
  /\ Goto(t, Return(t))
  /\ UNCHANGED <<linkVars, req, view, mu, portKnown, gateVars, ctxVars>>

\* ... and otherwise disarms it and starts a power cycle.
StartCycle(t) ==
  /\ pc[t] = "consider"
  /\ snap[t]
  /\ ShouldCycle
  /\ sawInactive' = FALSE
  /\ cycling' = TRUE
  /\ Considered(t)
  /\ \E c \in Cyclers :
       /\ pc[c] = "idle"
       /\ pc' = [pc EXCEPT ![c] = "begin", ![t] = Return(t)]
  /\ UNCHANGED <<linkVars, req, view, mu, portKnown, ctxVars>>

-----------------------------------------------------------------------------
(* pollLoop and pollOnce *)

\* The poll loop runs from the end of the first tryConnect to the exit.
Polling == pc[Poll] = "idle" /\ pc[Main] \in {"serve", "closing"}

\* The loop picks the done context and returns.
PollQuits ==
  /\ Polling
  /\ cancelled
  /\ Goto(Poll, "exited")
  /\ UNCHANGED <<linkVars, req, view, mu, snap, portKnown, gateVars, ctxVars>>

\* An open port is refreshed, a closed one is looked for and reconnected.
PollOnce(t) ==
  /\ ClientFree
  /\ \/ port # "nil" /\ Goto(t, "probe") /\ UNCHANGED portKnown
     \/ /\ port = "nil"
        /\ portKnown \/ plugged
        /\ portKnown' = TRUE
        /\ Goto(t, "close")
     \/ /\ port = "nil"
        /\ ~portKnown /\ ~plugged
        /\ Goto(t, "downOther")
        /\ UNCHANGED portKnown
  /\ UNCHANGED <<linkVars, req, view, mu, snap, gateVars, ctxVars>>

\* The ticker fires; the loop may still pick a tick over a done context.
Tick == Polling /\ PollOnce(Poll)

\* A handler polls once after a command that failed.
PollAfterError(h) == pc[h] = "poll" /\ PollOnce(h)

-----------------------------------------------------------------------------
(* serve, handleConn and dispatch *)

Commands == {"query", "get_input", "set", "set_input", "reset"}

\* What dispatch calls.  setHost and runCommand validate before they check.
RouteUnvalidated(r) ==  \* mutant: setHost takes any host
  CASE r.op = "reconnect" -> "close"
    [] r.op = "set_host" -> "check"
    [] r.op \in Commands -> "check"
    [] OTHER -> "respond"

Route(r) ==
  CASE r.op = "reconnect" -> "close"
    [] r.op = "set_host" /\ r.host \in Hosts -> "check"
    [] r.op \in Commands -> "check"
    [] OTHER -> "respond"

\* serve accepts a connection while the listener is open.
Accept(h) ==
  /\ pc[Main] = "serve"
  /\ pc[h] = "idle"
  /\ \E r \in Requests :
       /\ req' = [req EXCEPT ![h] = r]
       /\ stopping' = (stopping \/ r.op = "shutdown")
       /\ Goto(h, Route(r))
  /\ UNCHANGED <<linkVars, view, mu, snap, portKnown, gateVars, cancelled>>

\* setHost and runCommand refuse when the published state is disconnected.
Check(h) ==
  /\ pc[h] = "check"
  /\ mu = NoOne
  /\ Goto(h, IF view.connected THEN "send" ELSE "respond")
  /\ UNCHANGED <<linkVars, req, view, mu, snap, portKnown, gateVars, ctxVars>>

\* The input the handler's command may leave selected.  A reset selects host
\* 1 once its confirmation is heard; it may fail before that.
Wanted(r) ==
  CASE r.op \in {"set_host", "set_input"} -> {r.host}
    [] r.op = "reset" -> {input, "host1"}
    [] OTHER -> {input}

\* setHost publishes a failed command as a switch, runCommand polls again.
OnError(r) == IF r.op = "set_host" THEN "switchErr" ELSE "poll"

\* runCommand refreshes after "set ..." and "get input".
OnReply(r) ==
  CASE r.op = "set_host" -> "switchOk"
    [] r.op = "query" -> "respond"
    [] OTHER -> "probe"

Send(h) ==
  /\ pc[h] = "send"
  /\ \/ Write(h, Wanted(req[h])) /\ UNCHANGED pc
     \/ (NotConnected \/ WriteFails) /\ Goto(h, OnError(req[h]))
  /\ UNCHANGED <<req, view, mu, snap, portKnown, gateVars, ctxVars>>

SendAnswered(h) ==
  /\ pc[h] = "send"
  /\ \/ ReadReply(h) /\ Goto(h, OnReply(req[h]))
     \/ ReadFails(h) /\ Goto(h, OnError(req[h]))
     \/ req[h].op = "reset" /\ ConfirmFails(h) /\ Goto(h, OnError(req[h]))
  /\ UNCHANGED <<req, view, mu, snap, portKnown, gateVars, ctxVars>>

\* The response carries a copy of the state; the connection is then closed.
Respond(h) ==
  /\ pc[h] = "respond"
  /\ mu = NoOne
  /\ Goto(h, "idle")
  /\ req' = [req EXCEPT ![h] = NoRequest]
  /\ UNCHANGED <<linkVars, view, mu, snap, portKnown, gateVars, ctxVars>>

-----------------------------------------------------------------------------
(* cycleUSBAfterSwitch *)

FirstOf(rx, tx) == IF "rx" \in CycleSides THEN rx ELSE tx
ThenTX(tx, next) == IF "tx" \in CycleSides THEN tx ELSE next

NextStage(stage) ==
  CASE stage = "begin" -> FirstOf("rxOff", "txOff")
    [] stage = "rxOff" -> ThenTX("txOff", "sleep")
    [] stage = "txOff" -> "sleep"
    [] stage = "sleep" -> FirstOf("rxOn", "txOn")
    [] stage = "rxOn" -> ThenTX("txOn", "end")
    [] OTHER -> "end"

\* A failed "off" abandons the cycle, a failed restore is only logged.
FailedStage(stage) == IF stage \in {"rxOff", "txOff"} THEN "end" ELSE NextStage(stage)

PortInRange(stage) ==
  (IF stage \in {"rxOff", "rxOn"} THEN "rx" ELSE "tx") \in PortSides

CycleBegins(c) ==
  /\ pc[c] = "begin"
  /\ Goto(c, IF CycleConfigOK THEN NextStage("begin") ELSE "end")
  /\ UNCHANGED <<linkVars, req, view, mu, snap, portKnown, gateVars, ctxVars>>

CycleCommand(c) ==
  /\ pc[c] \in Stages
  /\ \/ PortInRange(pc[c]) /\ Write(c, {input}) /\ UNCHANGED pc
     \/ /\ PortInRange(pc[c])
        /\ NotConnected \/ WriteFails
        /\ Goto(c, FailedStage(pc[c]))
     \/ /\ ~PortInRange(pc[c])
        /\ Goto(c, FailedStage(pc[c]))
        /\ UNCHANGED linkVars
  /\ UNCHANGED <<req, view, mu, snap, portKnown, gateVars, ctxVars>>

CycleAnswered(c) ==
  /\ pc[c] \in Stages
  /\ \/ ReadReply(c) /\ Goto(c, NextStage(pc[c]))
     \/ ReadFails(c) /\ Goto(c, FailedStage(pc[c]))
  /\ UNCHANGED <<req, view, mu, snap, portKnown, gateVars, ctxVars>>

CycleWakes(c) ==
  /\ pc[c] = "sleep"
  /\ Goto(c, NextStage("sleep"))
  /\ UNCHANGED <<linkVars, req, view, mu, snap, portKnown, gateVars, ctxVars>>

LeaveCycling(c) ==  \* mutant: an early return skips the reset
  /\ pc[c] = "end"
  /\ cycling' = cycling
  /\ Goto(c, "idle")
  /\ UNCHANGED <<linkVars, req, view, mu, snap, portKnown, sawInactive, ctxVars>>

\* The deferred function lets the next cycle start.
CycleEnds(c) ==
  /\ pc[c] = "end"
  /\ cycling' = FALSE
  /\ Goto(c, "idle")
  /\ UNCHANGED <<linkVars, req, view, mu, snap, portKnown, sawInactive, ctxVars>>

-----------------------------------------------------------------------------
(* Start after cancellation, Shutdown, and the supervisor's restart. *)

CancelContext ==
  /\ ~cancelled
  /\ cancelled' = TRUE
  /\ UNCHANGED <<linkVars, pc, req, view, mu, snap, portKnown, gateVars, stopping>>

\* SIGINT or SIGTERM.
Signal == Signals /\ CancelContext

\* The goroutine a shutdown request leaves behind wakes after 50 ms.
ShutdownTimer == stopping /\ CancelContext

\* Shutdown cancels and closes the listener ...
StopServing ==
  /\ pc[Main] = "serve"
  /\ cancelled
  /\ Goto(Main, "closing")
  /\ UNCHANGED <<linkVars, req, view, mu, snap, portKnown, gateVars, ctxVars>>

\* ... then closes the client, and the process exits with all its goroutines.
Exit ==
  /\ pc[Main] = "closing"
  /\ CloseClient
  /\ Goto(Main, "exited")
  /\ UNCHANGED <<req, view, mu, snap, portKnown, gateVars, ctxVars>>

\* A new process; cfg.Port is again what the configuration says.
Restart ==
  /\ pc[Main] = "exited"
  /\ pc' = [u \in Users |-> InitialPC(u)]
  /\ req' = [h \in Handlers |-> NoRequest]
  /\ view' = InitialView
  /\ port' = "nil"
  /\ clientMu' = NoOne
  /\ reply' = [t \in Threads |-> Unknown]
  /\ mu' = NoOne
  /\ snap' = [t \in Threads |-> FALSE]
  /\ portKnown' \in BOOLEAN
  /\ sawInactive' = FALSE
  /\ cycling' = FALSE
  /\ stopping' = FALSE
  /\ cancelled' = FALSE
  /\ UNCHANGED <<input, plugged>>

-----------------------------------------------------------------------------

Connecting(t) == Close(t) \/ FindFails(t) \/ Open(t) \/ OpenFails(t)

Refreshing(t) == Probe(t) \/ Query(t) \/ QueryAnswered(t) \/ Drop(t)

Publishing(t) ==
  \/ PublishDown(t) \/ PublishNoPort(t) \/ PublishOther(t)
  \/ LockState(t) \/ PublishAnswer(t)

Considering(t) == ConsiderInactive(t) \/ ConsiderActive(t) \/ StartCycle(t)

\* What the main, poll and handler goroutines have in common.
Thread(t) ==
  Connecting(t) \/ Refreshing(t) \/ Publishing(t) \/ Considering(t)

Handler(h) ==
  \/ Thread(h)
  \/ Check(h) \/ Send(h) \/ SendAnswered(h) \/ PollAfterError(h) \/ Respond(h)
  \/ PublishSwitchErr(h) \/ PublishSwitchHere(h) \/ PublishSwitchAway(h)

Cycler(c) ==
  CycleBegins(c) \/ CycleCommand(c) \/ CycleAnswered(c) \/ CycleWakes(c) \/ CycleEnds(c)

PollThread == Tick \/ PollQuits \/ Thread(Poll)

MainThread == Thread(Main) \/ StopServing \/ Exit

Alive == pc[Main] # "exited"

Running ==
  \/ MainThread
  \/ PollThread
  \/ \E h \in Handlers : Accept(h) \/ Handler(h)
  \/ \E c \in Cyclers : Cycler(c)
  \/ Signal
  \/ ShutdownTimer

Surroundings ==
  Environment /\ UNCHANGED <<pc, req, view, mu, snap, portKnown, gateVars, ctxVars>>

Next ==
  \/ Alive /\ Running
  \/ Surroundings
  \/ Restart

Spec == Init /\ [][Next]_vars

(* Every goroutine that can run infinitely often runs: the Go scheduler is   *)
(* fair and a sync.Mutex hands itself to its longest waiter.  The port opens *)
(* in the end if it is there to be opened again and again.  Nobody has to    *)
(* send a request or a signal, move the switch or restart the process.       *)
Fairness ==
  /\ SF_vars(Alive /\ MainThread)
  /\ SF_vars(Alive /\ PollThread)
  /\ SF_vars(Alive /\ Open(Poll))
  /\ \A h \in Handlers : SF_vars(Alive /\ Handler(h))
  /\ \A c \in Cyclers : SF_vars(Alive /\ Cycler(c))
  /\ WF_vars(Alive /\ ShutdownTimer)

FairSpec == Spec /\ Fairness

-----------------------------------------------------------------------------
(* Safety *)

\* A handle that carries a command stays that command's handle until its
\* reply is read: no other goroutine closes or replaces it in between, the
\* adapter alone may take it away (client.go holds Client.mu across both).
HandleStable ==
  [][clientMu # NoOne => \/ clientMu' = NoOne
                         \/ clientMu' = clientMu /\ port' \in {port, "dead"}]_vars

\* At most one power cycle runs, and the flag says whether one does: two
\* would interleave one's "off" with the other's restore.
RunningCycles == {c \in Cyclers : pc[c] # "idle"}

OneCycle ==
  /\ cycling <=> RunningCycles # {}
  /\ \A c, d \in RunningCycles : c = d

\* What status and tray are shown never contradicts itself, whoever of the
\* poll loop, the handlers and the mutations of setHost wrote last: active
\* means active on my_host, and a connected machine is active exactly there.
ViewCoherent ==
  /\ view.iAmActive => view.activeHost = MyHost
  /\ view.connected => (view.iAmActive <=> view.activeHost = MyHost)

\* Power cycles as the configuration promises them: one at a time, each paid
\* for by a report of inactivity made since the one before it started.
Gate == INSTANCE CycleGate WITH
          armed <- sawInactive, running <- RunningCycles, enabled <- CycleOnActive
GateSpec == Gate!Spec

\* What a client is told: any coherent state, from a daemon that serves or not.
Server == INSTANCE StateServer WITH serving <- pc[Main] = "serve"
ServerSpec == Server!Spec

-----------------------------------------------------------------------------
(* Liveness *)

Quiet == \A h \in Handlers : pc[h] = "idle"

\* Once the switch stays here, polling finds that out and keeps saying so.
ConvergesActive ==
  <>[](plugged /\ input = MyHost /\ Quiet /\ Alive /\ ~cancelled)
    => <>[](Active(view) /\ view.activeHost = MyHost)

\* Once the adapter is gone for good, the view stops claiming this machine.
ConvergesInactive ==
  <>[](~plugged /\ Quiet /\ Alive /\ ~cancelled)
    => <>[](~view.connected /\ ~view.iAmActive /\ view.activeHost # MyHost)

\* With cycle_on_active set, a machine that stays active has its reports of
\* inactivity answered by a power cycle, even one that found a cycle running.
CycleServed ==
  <>[](plugged /\ input = MyHost /\ Quiet /\ Alive /\ ~cancelled) => <>[](~sawInactive)

\* Every request is answered, however the goroutines contend for the two
\* mutexes, unless the process ends first.
RequestServed == \A h \in Handlers : pc[h] # "idle" ~> (pc[h] = "idle" \/ ~Alive)

\* A cancelled daemon closes its listener and its port and exits, whatever
\* its other goroutines are in the middle of.
ShutdownCompletes == (stopping \/ cancelled) ~> ~Alive

-----------------------------------------------------------------------------
(* What the repository says and the code does not do. *)

\* "Expected disconnected after switching away": once the view shows the other
\* host and the switch is still there, nothing shows this machine active again.
StaysAway ==
  [][view.activeHost = Other(MyHost) /\ input = Other(MyHost) => ~Active(view')]_vars

=============================================================================
