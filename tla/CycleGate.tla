----------------------------- MODULE CycleGate -----------------------------
(***************************************************************************)
(* What cycle_on_active promises of automatic power cycles, without the    *)
(* goroutines, mutexes and serial commands that bring it about.            *)
(***************************************************************************)

CONSTANTS
  Cyclers,  \* goroutines a cycle may run on
  enabled   \* is cycle_on_active set?

VARIABLES
  armed,    \* has this machine been reported inactive since the last start?
  running   \* the power cycles under way

vars == <<armed, running>>

Init == armed = FALSE /\ running = {}

\* This machine is reported inactive.
NoteInactive ==
  /\ armed' = TRUE
  /\ UNCHANGED running

\* It is reported active again: one cycle starts, and the report is spent.
Start ==
  /\ enabled /\ armed /\ running = {}
  /\ armed' = FALSE
  /\ \E c \in Cyclers : running' = {c}

\* The cycle ends, whether or not it brought the ports back.
Finish ==
  /\ running # {}
  /\ running' = {}
  /\ UNCHANGED armed

\* A new process remembers neither.
Restart ==
  /\ armed' = FALSE
  /\ running' = {}

Next == NoteInactive \/ Start \/ Finish \/ Restart

Spec == Init /\ [][Next]_vars

=============================================================================
