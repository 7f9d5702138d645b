------------------------------ MODULE UsbCycle ------------------------------
(***************************************************************************)
(* Power cycles of the switch's USB device ports: force them off, wait,    *)
(* restore them.  Three drivers run one: the daemon after a switch         *)
(* (cycleUSBAfterSwitch), the command line on its own serial link          *)
(* (Device.CycleRXUSBD and CycleTXUSBD) and the command line through the   *)
(* daemon's socket (doUSBCycle).  They validate differently, order their   *)
(* commands differently and give up differently, and they may overlap.     *)
(*                                                                         *)
(* A command that gets no answer is no error to them: the read gives an    *)
(* empty text at its deadline, which is taken for success.                 *)
(*                                                                         *)
(* A cycle is a program of steps <<"off", side>>, <<"sleep", side>> and    *)
(* <<"on", side>>, consumed from the front.                                *)
(***************************************************************************)
EXTENDS Integers, Sequences

CONSTANTS
  Cycles,       \* the cycles that may be run, each once
  Plans,        \* what they may be asked to do
  AdapterPort,  \* the device port the serial adapter sits on, or NoPort
  NoPort,
  LinkDrops,    \* may the serial link be lost, and come back?
  Kills         \* may a process be killed in the middle of its cycle?

Sides == {"rx", "tx"}
Drivers == {"daemon", "direct", "socket"}
Modes == {"off", "follow", "on"}
PlanType == [driver : Drivers, sides : SUBSET Sides, port : Int, delay : Int, restore : Modes]

LastPort(side) == IF side = "rx" THEN 4 ELSE 2
Ports == {p \in Sides \X (1..4) : p[2] <= LastPort(p[1])}

ASSUME UsbCycleAssumption ==
  /\ Plans \subseteq PlanType
  /\ AdapterPort \in Ports \cup {NoPort}
  /\ NoPort \notin Ports
  /\ {LinkDrops, Kills} \subseteq BOOLEAN

VARIABLES
  power,       \* the power mode of each device port
  linked,      \* does the switch hear commands?
  plan,        \* what each cycle was asked to do
  phase,       \* "idle", "running" or "done"
  todo,        \* the steps each cycle has left
  failed,      \* did the cycle report an error?
  unconfirmed  \* the sides whose restore it took for done without an answer

vars == <<power, linked, plan, phase, todo, failed, unconfirmed>>

TypeOK ==
  /\ power \in [Ports -> Modes]
  /\ linked \in BOOLEAN
  /\ plan \in [Cycles -> PlanType]
  /\ phase \in [Cycles -> {"idle", "running", "done"}]
  /\ todo \in [Cycles -> Seq({"off", "sleep", "on"} \X Sides)]
  /\ failed \in [Cycles -> BOOLEAN]
  /\ unconfirmed \in [Cycles -> SUBSET Sides]

NoPlan == [driver |-> "daemon", sides |-> {}, port |-> 0, delay |-> 0, restore |-> "on"]

Init ==
  /\ power = [p \in Ports |-> "on"]
  /\ linked = TRUE
  /\ plan = [c \in Cycles |-> NoPlan]
  /\ phase = [c \in Cycles |-> "idle"]
  /\ todo = [c \in Cycles |-> <<>>]
  /\ failed = [c \in Cycles |-> FALSE]
  /\ unconfirmed = [c \in Cycles |-> {}]

-----------------------------------------------------------------------------
(* What a plan amounts to *)

\* ValidateRXPort and ValidateTXPort.
ValidPort(side, port) == port \in 0..LastPort(side)

\* A command names one port of a side, or 0 for all of them.
Named(side, port) ==
  {p \in Ports : p[1] = side /\ (port = 0 \/ p[2] = port)}

Covered(c) == UNION {Named(side, plan[c].port) : side \in plan[c].sides}

\* The daemon checks side and restore mode; the command line also checks the
\* port against every side first, and the direct driver the delay.
Accepted(p) ==
  /\ p.restore # "off"
  /\ p.driver = "daemon" => p.sides # {}
  /\ p.driver # "daemon" => \A side \in p.sides : ValidPort(side, p.port)
  /\ p.driver = "direct" => p.delay >= 0

\* A negative delay means the default to the daemon, none to the others.
Sleeps(p) == IF p.driver = "daemon" THEN p.delay # 0 ELSE p.delay > 0

Sleep(p, side) == IF Sleeps(p) THEN <<<<"sleep", side>>>> ELSE <<>>

\* rx comes first.
Each(kind, sides) ==
  LET One(side) == IF side \in sides THEN <<<<kind, side>>>> ELSE <<>>
  IN  One("rx") \o One("tx")

\* The daemon turns both sides off, sleeps once and restores both; the command
\* line finishes one side before it starts the other.
SideProgram(p, side) ==
  IF side \in p.sides THEN <<<<"off", side>>>> \o Sleep(p, side) \o <<<<"on", side>>>>
  ELSE <<>>

DaemonSkipsTX(p) ==  \* mutant: the restore of the second side is forgotten
  Each("off", p.sides) \o Sleep(p, "rx")
    \o Each("on", IF "rx" \in p.sides THEN {"rx"} ELSE p.sides)

DaemonProgram(p) == Each("off", p.sides) \o Sleep(p, "rx") \o Each("on", p.sides)

Program(p) ==
  IF p.driver = "daemon" THEN DaemonProgram(p)
  ELSE SideProgram(p, "rx") \o SideProgram(p, "tx")

-----------------------------------------------------------------------------
(* Running it *)

\* considerUSBCycle starts no cycle while the daemon's last one runs.
GateOpen(p) ==
  p.driver = "daemon" =>
    \A c \in Cycles : phase[c] = "running" => plan[c].driver # "daemon"

Start(c) ==
  /\ phase[c] = "idle"
  /\ \E p \in Plans :
       /\ GateOpen(p)
       /\ plan' = [plan EXCEPT ![c] = p]
       /\ \/ /\ Accepted(p)
             /\ phase' = [phase EXCEPT ![c] = "running"]
             /\ todo' = [todo EXCEPT ![c] = Program(p)]
             /\ UNCHANGED failed
          \/ /\ ~Accepted(p) \/ (p.driver = "direct" /\ ~linked)
             /\ phase' = [phase EXCEPT ![c] = "done"]
             /\ failed' = [failed EXCEPT ![c] = TRUE]
             /\ UNCHANGED todo
  /\ UNCHANGED <<power, linked, unconfirmed>>

Upcoming(c) == Head(todo[c])
Kind(c) == Upcoming(c)[1]
Side(c) == Upcoming(c)[2]

Running(c) == phase[c] = "running" /\ todo[c] # <<>>
Advance(c) == todo' = [todo EXCEPT ![c] = Tail(@)]

SetPowerAll(c) ==  \* mutant: the port number is ignored
  LET mode == IF Kind(c) = "off" THEN "off" ELSE plan[c].restore
  IN  power' = [p \in Ports |-> IF p \in Named(Side(c), 0) THEN mode ELSE power[p]]

SetPowerOn(c) ==  \* mutant: the restore mode is ignored
  LET mode == IF Kind(c) = "off" THEN "off" ELSE "on"
  IN  power' = [p \in Ports |->
                  IF p \in Named(Side(c), plan[c].port) THEN mode ELSE power[p]]

\* SetRXUSBD and SetTXUSBD: the modes that take effect on the switch.
SetPower(c) ==
  LET mode == IF Kind(c) = "off" THEN "off" ELSE plan[c].restore
  IN  power' = [p \in Ports |->
                  IF p \in Named(Side(c), plan[c].port) THEN mode ELSE power[p]]

\* Once its own port is off, the adapter is gone.
Reachable(modes) == AdapterPort = NoPort \/ modes[AdapterPort] # "off"

\* The command is heard and its answer read.
Answered(c) ==
  /\ Running(c)
  /\ Kind(c) # "sleep"
  /\ ValidPort(Side(c), plan[c].port)
  /\ linked
  /\ SetPower(c)
  /\ linked' = Reachable(power')
  /\ Advance(c)
  /\ UNCHANGED <<plan, phase, failed, unconfirmed>>

\* The command is written and the read ends without its answer, at the deadline
\* or with an error that is not taken for a disconnect: whether the switch heard
\* it or not, the driver goes on.
Silence(c) ==
  /\ Running(c)
  /\ Kind(c) # "sleep"
  /\ ValidPort(Side(c), plan[c].port)
  /\ IF linked THEN SetPower(c) /\ linked' = Reachable(power')
               ELSE UNCHANGED <<power, linked>>
  /\ Advance(c)
  /\ unconfirmed' = [unconfirmed EXCEPT ![c] =
       IF Kind(c) = "on" THEN @ \cup {Side(c)} ELSE @]
  /\ UNCHANGED <<plan, phase, failed>>

\* A failed "off" abandons the cycle.  So does a failed restore, except the
\* daemon's, which goes on to the other side.
GiveUp(c) ==
  /\ failed' = [failed EXCEPT ![c] = TRUE]
  /\ todo' = [todo EXCEPT ![c] =
       IF Kind(c) = "on" /\ plan[c].driver = "daemon" THEN Tail(@) ELSE <<>>]
  /\ UNCHANGED <<plan, phase, unconfirmed>>

\* The command is refused by validation, or the port of a switch that is away
\* reports an error.
Unheard(c) ==
  /\ Running(c)
  /\ Kind(c) # "sleep"
  /\ ~linked \/ ~ValidPort(Side(c), plan[c].port)
  /\ GiveUp(c)
  /\ UNCHANGED <<power, linked>>

\* The command is heard but the port reports an error before its answer comes.
Unanswered(c) ==
  /\ Running(c)
  /\ Kind(c) # "sleep"
  /\ ValidPort(Side(c), plan[c].port)
  /\ linked
  /\ SetPower(c)
  /\ LinkDrops \/ ~Reachable(power')
  /\ linked' = FALSE
  /\ GiveUp(c)

Wake(c) ==
  /\ Running(c)
  /\ Kind(c) = "sleep"
  /\ Advance(c)
  /\ UNCHANGED <<power, linked, plan, phase, failed, unconfirmed>>

End(c) ==
  /\ phase[c] = "running"
  /\ todo[c] = <<>>
  /\ phase' = [phase EXCEPT ![c] = "done"]
  /\ UNCHANGED <<power, linked, plan, todo, failed, unconfirmed>>

\* The process running the cycle exits in the middle of it.
Kill(c) ==
  /\ Kills
  /\ phase[c] = "running"
  /\ phase' = [phase EXCEPT ![c] = "done"]
  /\ todo' = [todo EXCEPT ![c] = <<>>]
  /\ failed' = [failed EXCEPT ![c] = TRUE]
  /\ UNCHANGED <<power, linked, plan, unconfirmed>>

LinkChanges ==
  /\ LinkDrops
  /\ linked' \in {FALSE, Reachable(power)}
  /\ UNCHANGED <<power, plan, phase, todo, failed, unconfirmed>>

Step(c) ==
  Answered(c) \/ Silence(c) \/ Unheard(c) \/ Unanswered(c) \/ Wake(c) \/ End(c)

\* Every cycle has run.
Finished == (\A c \in Cycles : phase[c] = "done") /\ UNCHANGED vars

Next ==
  \/ \E c \in Cycles : Start(c) \/ Step(c) \/ Kill(c)
  \/ LinkChanges
  \/ Finished

Spec == Init /\ [][Next]_vars

-----------------------------------------------------------------------------

Owes(c, p) == \E i \in DOMAIN todo[c] : todo[c][i] = <<"on", p[1]>>

\* A port that is off is about to be restored by a cycle on it, or a cycle on
\* it reported an error or restored it without an answer: nothing else leaves a
\* port down, however two cycles overlap.
OffIsOwed ==
  \A p \in Ports : power[p] = "off" =>
    \E c \in Cycles :
      /\ p \in Covered(c)
      /\ Owes(c, p) \/ failed[c] \/ p[1] \in unconfirmed[c]

\* A cycle of one port leaves the others alone, so the keyboard stays up.
OnlyCovered ==
  \A p \in Ports : power[p] # "on" => \E c \in Cycles : p \in Covered(c)

\* A cycle that reports no error and met no other cycle on its ports leaves
\* them in the mode it was asked to restore, on every side whose restore was
\* answered.
DoneMeansRestored ==
  \A c \in Cycles :
    /\ phase[c] = "done" /\ ~failed[c]
    /\ \A d \in Cycles \ {c} : Covered(c) \cap Covered(d) = {}
    => \A p \in Covered(c) : p[1] \notin unconfirmed[c] => power[p] = plan[c].restore

\* "A cycle must bring ports back up": once all have run on a link that holds,
\* no port is off.
BroughtBack ==
  (\A c \in Cycles : phase[c] = "done") => \A p \in Ports : power[p] # "off"

=============================================================================
