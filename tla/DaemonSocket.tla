---------------------------- MODULE DaemonSocket ----------------------------
(***************************************************************************)
(* Who owns the daemon's Unix socket: processes that start a daemon        *)
(* (orei-kvm daemon), or a daemon and the tray beside it (daemon --tray,   *)
(* tray), or the tray alone, and that stop or crash at any time.           *)
(*                                                                         *)
(* A process claims the path by looking for a socket file, asking whoever  *)
(* listens there whether it is up, removing a stale file and binding its   *)
(* own: four system calls that nothing makes atomic.  `file` names the     *)
(* process whose socket the path leads to, alive or not.                   *)
(***************************************************************************)

CONSTANTS
  Procs,      \* processes; one that exited may be started again
  TrayProcs,  \* those started with a tray
  NoProc,
  Overlap     \* may a process start or stop while another one does?

ASSUME DaemonSocketAssumption ==
  /\ TrayProcs \subseteq Procs
  /\ NoProc \notin Procs
  /\ Overlap \in BOOLEAN

VARIABLES
  file,      \* whose socket is at the path, or NoProc
  pc,        \* where each process's Start is
  ui,        \* where its tray is
  cancelled  \* is its context done?

vars == <<file, pc, ui, cancelled>>

Claiming == {"stat", "ping", "remove", "bind", "chmod"}
Closing == {"unlink", "clear"}

TypeOK ==
  /\ file \in Procs \cup {NoProc}
  /\ pc \in [Procs -> {"off", "connect", "serve", "done"} \cup Claiming \cup Closing]
  /\ ui \in [Procs -> {"none", "wait", "tray", "quit"}]
  /\ cancelled \in [Procs -> BOOLEAN]

Init ==
  /\ file = NoProc
  /\ pc = [p \in Procs |-> "off"]
  /\ ui = [p \in Procs |-> "none"]
  /\ cancelled = [p \in Procs |-> FALSE]

Goto(p, label) == pc' = [pc EXCEPT ![p] = label]

\* The ping is answered: the path leads to a daemon that accepts connections.
Up == \E q \in Procs : file = q /\ pc[q] = "serve"

\* Nobody listens there.  A daemon between bind and accept keeps the caller
\* waiting in its backlog, so the ping has neither answer yet.
Down == \A q \in Procs : file = q => pc[q] \notin {"chmod", "connect", "serve"}

\* With Overlap = FALSE, something starts and stops the processes in turn.
Settled(q) == pc[q] \in {"off", "done"} \/ (pc[q] = "serve" /\ ~cancelled[q])

Undisturbed(p) == Overlap \/ \A q \in Procs \ {p} : Settled(q)

-----------------------------------------------------------------------------
(* Start: RemoveStaleSocket, Listen, Chmod, then serving *)

Launch(p) ==
  /\ pc[p] = "off"
  /\ Undisturbed(p)
  /\ Goto(p, "stat")
  /\ ui' = [ui EXCEPT ![p] = IF p \in TrayProcs THEN "wait" ELSE "none"]
  /\ UNCHANGED <<file, cancelled>>

\* orei-kvm tray finds a daemon up and only attaches to it.
LaunchTrayOnly(p) ==
  /\ p \in TrayProcs
  /\ pc[p] = "off"
  /\ Up
  /\ Goto(p, "done")
  /\ ui' = [ui EXCEPT ![p] = "tray"]
  /\ UNCHANGED <<file, cancelled>>

Stat(p) ==
  /\ pc[p] = "stat"
  /\ Goto(p, IF file = NoProc THEN "bind" ELSE "ping")
  /\ UNCHANGED <<file, ui, cancelled>>

\* "daemon already running"
PingUp(p) ==
  /\ pc[p] = "ping"
  /\ Up
  /\ Goto(p, "done")
  /\ UNCHANGED <<file, ui, cancelled>>

PingUnasked(p) ==  \* mutant: the socket is removed without asking who listens
  /\ pc[p] = "ping"
  /\ Goto(p, "remove")
  /\ UNCHANGED <<file, ui, cancelled>>

PingDown(p) ==
  /\ pc[p] = "ping"
  /\ Down
  /\ Goto(p, "remove")
  /\ UNCHANGED <<file, ui, cancelled>>

StaleKept(p) ==  \* mutant: the stale file is left where it is
  /\ pc[p] = "remove"
  /\ Goto(p, "bind")
  /\ UNCHANGED <<file, ui, cancelled>>

\* os.Remove takes whatever is at the path by now, and fails if nothing is.
Remove(p) ==
  /\ pc[p] = "remove"
  /\ Goto(p, IF file = NoProc THEN "done" ELSE "bind")
  /\ file' = NoProc
  /\ UNCHANGED <<ui, cancelled>>

\* net.Listen fails if something is at the path.
Bind(p) ==
  /\ pc[p] = "bind"
  /\ Goto(p, IF file = NoProc THEN "chmod" ELSE "done")
  /\ file' = IF file = NoProc THEN p ELSE file
  /\ UNCHANGED <<ui, cancelled>>

\* os.Chmod goes by the path too.
Chmod(p) ==
  /\ pc[p] = "chmod"
  /\ Goto(p, IF file = NoProc THEN "done" ELSE "connect")
  /\ UNCHANGED <<file, ui, cancelled>>

\* tryConnect is over; the accept loop starts.
Serve(p) ==
  /\ pc[p] = "connect"
  /\ Goto(p, "serve")
  /\ UNCHANGED <<file, ui, cancelled>>

-----------------------------------------------------------------------------
(* Stopping *)

\* SIGINT, SIGTERM, or a shutdown request over the socket.
Cancel(p) ==
  /\ pc[p] \notin {"off", "done"}
  /\ ~cancelled[p]
  /\ Undisturbed(p)
  /\ cancelled' = [cancelled EXCEPT ![p] = TRUE]
  /\ UNCHANGED <<file, pc, ui>>

\* Shutdown closes the listener, which unlinks the path it was bound to ...
Unlink(p) ==
  /\ pc[p] = "serve"
  /\ cancelled[p]
  /\ Goto(p, "unlink")
  /\ file' = NoProc
  /\ UNCHANGED <<ui, cancelled>>

\* ... then the serial port ...
CloseTransport(p) ==
  /\ pc[p] = "unlink"
  /\ Goto(p, "clear")
  /\ UNCHANGED <<file, ui, cancelled>>

\* ... and removes the path once more.
Clear(p) ==
  /\ pc[p] = "clear"
  /\ Goto(p, "done")
  /\ file' = NoProc
  /\ UNCHANGED <<ui, cancelled>>

Gone(p) ==
  /\ Goto(p, "off")
  /\ ui' = [ui EXCEPT ![p] = "none"]
  /\ cancelled' = [cancelled EXCEPT ![p] = FALSE]
  /\ UNCHANGED file

\* A daemon without a tray exits when Start returns.
Exit(p) ==
  /\ pc[p] = "done"
  /\ ui[p] = "none"
  /\ Gone(p)

\* The socket file outlives the process.
Crash(p) ==
  /\ pc[p] # "off"
  /\ Gone(p)

-----------------------------------------------------------------------------
(* runDaemonAndTray *)

\* The socket answers, whoever's it is, and the tray opens.
TrayOpens(p) ==
  /\ ui[p] = "wait"
  /\ Up
  /\ ui' = [ui EXCEPT ![p] = "tray"]
  /\ UNCHANGED <<file, pc, cancelled>>

\* Start returned before any daemon was up.
TrayGivesUp(p) ==
  /\ ui[p] = "wait"
  /\ pc[p] = "done"
  /\ ~Up
  /\ Gone(p)

\* Three seconds pass: the process exits without waiting for its daemon.
TrayTimesOut(p) ==
  /\ ui[p] = "wait"
  /\ ~Up
  /\ Gone(p)

TrayQuitsAlone(p) ==  \* mutant: quitting the tray leaves the context alone
  /\ ui[p] = "tray"
  /\ Undisturbed(p)
  /\ ui' = [ui EXCEPT ![p] = "quit"]
  /\ UNCHANGED <<file, pc, cancelled>>

\* The user quits the tray; the context is cancelled.
TrayQuits(p) ==
  /\ ui[p] = "tray"
  /\ Undisturbed(p)
  /\ ui' = [ui EXCEPT ![p] = "quit"]
  /\ cancelled' = [cancelled EXCEPT ![p] = TRUE]
  /\ UNCHANGED <<file, pc>>

\* The process exits once its daemon's Start has returned.
TrayExits(p) ==
  /\ ui[p] = "quit"
  /\ pc[p] = "done"
  /\ Gone(p)

-----------------------------------------------------------------------------

Starting(p) ==
  \/ Stat(p) \/ PingUp(p) \/ PingDown(p) \/ Remove(p) \/ Bind(p) \/ Chmod(p) \/ Serve(p)

Stopping(p) == Unlink(p) \/ CloseTransport(p) \/ Clear(p) \/ Exit(p)

Tray(p) == TrayOpens(p) \/ TrayGivesUp(p) \/ TrayExits(p)

\* What happens from outside, or need not happen.
Outside(p) ==
  \/ Launch(p) \/ LaunchTrayOnly(p) \/ Cancel(p) \/ Crash(p)
  \/ TrayTimesOut(p) \/ TrayQuits(p)

Next == \E p \in Procs : Starting(p) \/ Stopping(p) \/ Tray(p) \/ Outside(p)

Spec == Init /\ [][Next]_vars

\* Each process runs its own steps; nobody has to start, stop or quit one.
Fairness == \A p \in Procs : WF_vars(Starting(p) \/ Stopping(p)) /\ WF_vars(Tray(p))

FairSpec == Spec /\ Fairness

-----------------------------------------------------------------------------

\* "Daemon already running": of the daemons of one socket path, one serves.
OneDaemon ==
  \A p, q \in Procs : pc[p] = "serve" /\ pc[q] = "serve" => p = q

\* A daemon that serves is the one its clients reach, until it stops.
Reachable == \A p \in Procs : pc[p] = "serve" => file = p

\* A start is refused only beside a daemon that is up: a socket file left by
\* a crash, a timeout or a failed start never keeps the next daemon out.  This is
\* said of starts in turn; starts that overlap may fail at each other's hands.
RefusedOnlyIfUp ==
  [][\A p \in Procs :
       pc[p] \in Claiming /\ pc'[p] = "done" => \E q \in Procs \ {p} : pc[q] = "serve"]_vars

\* A process whose tray was quit exits, its own daemon having shut down.
QuitExits == \A p \in Procs : ui[p] = "quit" ~> pc[p] = "off"

=============================================================================
