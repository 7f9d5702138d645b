-------------------------------- MODULE Tray --------------------------------
(***************************************************************************)
(* The system tray (internal/tray/tray.go) beside a daemon of which it     *)
(* knows what StateServer says.                                            *)
(*                                                                         *)
(* One goroutine refreshes the menu every second; each click runs in       *)
(* another, calls the daemon, ignores what it says and refreshes too.      *)
(* Nothing orders them, and apply is several calls of the menu library.    *)
(*                                                                         *)
(* ipc.Call gives up after ten seconds, while the handler goes on and may  *)
(* switch later.  Time is abstracted: any call may be given up at any      *)
(* moment, and so a click may refresh before, while or after its request   *)
(* changes what the daemon publishes.                                      *)
(***************************************************************************)
EXTENDS StateServer, Naturals, FiniteSets

CONSTANTS
  Ticker,    \* the goroutine that refreshes
  Clickers   \* the goroutines that clicks run on

ASSUME TrayAssumption == MyHost \in Hosts /\ Unknown \notin Hosts /\ Ticker \notin Clickers

Callers == {Ticker} \cup Clickers

VARIABLES
  menu,   \* what the tray shows: title, icon, host items checked and enabled
  at,     \* where each goroutine is
  heard   \* the state it was told

vars == <<serving, view, menu, at, heard>>
server == <<serving, view>>

(* What a state looks like *)

StatusLabel(v) ==
  CASE v.connected /\ v.activeHost # Unknown -> IF v.iAmActive THEN "this machine" ELSE "other"
    [] ~v.connected -> "inactive"
    [] OTHER -> "unknown"

Icon(v) ==
  CASE v.activeHost \in Hosts -> v.activeHost
    [] v.connected -> "unknown"
    [] OTHER -> "inactive"

MenuOf(v) ==
  [title |-> StatusLabel(v), icon |-> Icon(v),
   checked |-> {v.activeHost} \cap Hosts, enabled |-> v.connected]

\* What onReady shows before the first refresh.
FirstMenu == [title |-> "unknown", icon |-> "unknown", checked |-> {}, enabled |-> TRUE]

TrayInit ==
  /\ Init
  /\ menu = FirstMenu
  /\ at = [g \in Callers |-> "idle"]
  /\ heard = [g \in Callers |-> NothingKnown]

Step(g, label, next) == at[g] = label /\ at' = [at EXCEPT ![g] = next]

-----------------------------------------------------------------------------
(* Ticks and clicks *)

\* The first refresh and those of the ticker.
Tick == Step(Ticker, "idle", "ask") /\ UNCHANGED <<server, menu, heard>>

\* A host item, while it is enabled, asks the daemon to switch, Refresh asks it
\* to reconnect: the daemon may publish anything for it, now, later or never.
Click(g) == Step(g, "idle", "ask") /\ UNCHANGED <<server, menu, heard>>

-----------------------------------------------------------------------------
(* refresh *)

Told(g) ==
  /\ serving
  /\ Step(g, "ask", "clear")
  /\ heard' = [heard EXCEPT ![g] = view]
  /\ UNCHANGED <<server, menu>>

\* Nobody listens, the connection breaks, or the deadline passes.
Untold(g) == Step(g, "ask", "disable") /\ UNCHANGED <<server, menu, heard>>

KeepEnabled(g) ==  \* mutant: only the title tells of the error
  /\ Step(g, "disable", "idle")
  /\ menu' = [menu EXCEPT !.title = "error", !.icon = "inactive"]
  /\ UNCHANGED <<server, heard>>

\* The marks stay as they are.
Disable(g) ==
  /\ Step(g, "disable", "idle")
  /\ menu' = [menu EXCEPT !.title = "error", !.icon = "inactive", !.enabled = FALSE]
  /\ UNCHANGED <<server, heard>>

-----------------------------------------------------------------------------
(* apply *)

KeepMarks(g) ==  \* mutant: nothing is unchecked
  /\ Step(g, "clear", "mark")
  /\ menu' = [menu EXCEPT !.title = StatusLabel(heard[g])]
  /\ UNCHANGED <<server, heard>>

Clear(g) ==
  /\ Step(g, "clear", "mark")
  /\ menu' = [menu EXCEPT !.title = StatusLabel(heard[g]), !.checked = {}]
  /\ UNCHANGED <<server, heard>>

MarkConnected(g) ==  \* mutant: a machine that is away marks nothing
  /\ Step(g, "mark", "enable")
  /\ menu' = [menu EXCEPT !.icon = Icon(heard[g]),
                          !.checked = IF heard[g].connected THEN @ \cup MenuOf(heard[g]).checked ELSE @]
  /\ UNCHANGED <<server, heard>>

Mark(g) ==
  /\ Step(g, "mark", "enable")
  /\ menu' = [menu EXCEPT !.icon = Icon(heard[g]), !.checked = @ \cup MenuOf(heard[g]).checked]
  /\ UNCHANGED <<server, heard>>

Enable(g) ==
  /\ Step(g, "enable", "idle")
  /\ menu' = [menu EXCEPT !.enabled = heard[g].connected]
  /\ heard' = [heard EXCEPT ![g] = NothingKnown]
  /\ UNCHANGED server

-----------------------------------------------------------------------------

Refresh(g) ==
  Told(g) \/ Untold(g) \/ Disable(g) \/ Clear(g) \/ Mark(g) \/ Enable(g)

TrayNext ==
  \/ Next /\ UNCHANGED <<menu, at, heard>>
  \/ Tick
  \/ \E g \in Clickers : Click(g)
  \/ \E g \in Callers : Refresh(g)

TraySpec == TrayInit /\ [][TrayNext]_vars

(* Every goroutine runs, and the deadline ends a call that nobody answers.  A  *)
(* request for the state waits only for the daemon's mutex, so while there is  *)
(* a daemon the ticker is not left without an answer for ever.                 *)
Fairness ==
  /\ WF_vars(Tick)
  /\ \A g \in Callers : WF_vars(Refresh(g))
  /\ SF_vars(Told(Ticker))

FairTraySpec == TraySpec /\ Fairness

-----------------------------------------------------------------------------

Resting == \A g \in Callers : at[g] \in {"idle", "ask"}

\* When the daemon's state no longer changes, nobody clicks and answers come in
\* time, the tray ends up showing that state between refreshes, whatever older
\* answers and half-done updates of other goroutines were still to come.
MenuFollows ==
  /\ <>[](serving /\ at[Ticker] # "disable" /\ \A g \in Clickers : at[g] = "idle")
  /\ <>[][FALSE]_server
  => <>[](Resting => menu = MenuOf(view))

\* Without a daemon nothing can be clicked on in the end but Refresh and Quit,
\* even if the last answers are still being applied, and the title says why.
MenuGoesDead ==
  <>[]~serving => <>[](~menu.enabled /\ menu.title = "error")

\* Two updates that overlap may check both hosts; however much the user clicks,
\* a menu that can be used does not stay like that.
TwoMarksGo ==
  Cardinality(menu.checked) > 1 ~> (Cardinality(menu.checked) <= 1 \/ ~menu.enabled)

=============================================================================
