------------------------- MODULE DaemonSocketProofs -------------------------
(***************************************************************************)
(* Theorems about the daemon's socket, for any number of processes that    *)
(* start and stop in turn and crash at any time.                           *)
(***************************************************************************)
EXTENDS DaemonSocket, TLAPS

\* Of two processes one is neither starting nor stopping.
InTurn == \A p, q \in Procs : p # q => Settled(p) \/ Settled(q)

\* What a process between two system calls may rely on at the socket path.
FileKnown ==
  \A p \in Procs :
    /\ pc[p] \in {"chmod", "connect", "serve"} => file = p
    /\ pc[p] \in {"bind", "unlink", "clear"} => file = NoProc
    /\ pc[p] \in {"ping", "remove"} => file # NoProc
    /\ pc[p] = "remove" => \A q \in Procs : pc[q] # "serve"

SocketInv == TypeOK /\ InTurn /\ FileKnown

USE DEF Claiming, Closing, Goto

-----------------------------------------------------------------------------

LEMMA InitSocket == Init => SocketInv
BY DaemonSocketAssumption
DEF DaemonSocketAssumption, Init, SocketInv, TypeOK, InTurn, Settled, FileKnown

LEMMA GoneType ==
  ASSUME TypeOK, NEW p \in Procs, Gone(p)
  PROVE  TypeOK'
BY DEF Gone, TypeOK

\* Every step keeps the types.
LEMMA NextType == TypeOK /\ [Next]_vars => TypeOK'
<1>. SUFFICES ASSUME TypeOK, [Next]_vars PROVE TypeOK'
  OBVIOUS
<1>1. CASE UNCHANGED vars
  BY <1>1 DEF vars, TypeOK
<1>2. ASSUME NEW p \in Procs, Starting(p) PROVE TypeOK'
  BY <1>2 DEF Starting, Stat, PingUp, PingDown, Remove, Bind, Chmod, Serve, TypeOK
<1>3. ASSUME NEW p \in Procs, Stopping(p) PROVE TypeOK'
  BY <1>3, GoneType DEF Stopping, Unlink, CloseTransport, Clear, Exit, TypeOK
<1>4. ASSUME NEW p \in Procs, Tray(p) PROVE TypeOK'
  BY <1>4, GoneType DEF Tray, TrayOpens, TrayGivesUp, TrayExits, TypeOK
<1>5. ASSUME NEW p \in Procs, Outside(p) PROVE TypeOK'
  BY <1>5, GoneType
  DEF Outside, Launch, LaunchTrayOnly, Cancel, Crash, TrayTimesOut, TrayQuits, TypeOK
<1>. QED BY <1>1, <1>2, <1>3, <1>4, <1>5 DEF Next

-----------------------------------------------------------------------------
(* Each process, while it starts or stops, finds the others settled, and     *)
(* leaves the path as their own claims describe it.                          *)

LEMMA GoneInv ==
  ASSUME SocketInv, NEW p \in Procs, Gone(p)
  PROVE  InTurn' /\ FileKnown'
<1>1. /\ \A q \in Procs : pc'[q] = IF q = p THEN "off" ELSE pc[q]
      /\ \A q \in Procs : cancelled'[q] = IF q = p THEN FALSE ELSE cancelled[q]
      /\ file' = file
  BY DEF Gone, SocketInv, TypeOK
<1>2. InTurn'
  BY <1>1 DEF SocketInv, InTurn, Settled
<1>3. FileKnown'
  BY <1>1 DEF SocketInv, FileKnown
<1>. QED BY <1>2, <1>3

LEMMA StartingInv ==
  ASSUME SocketInv, NEW p \in Procs, Starting(p)
  PROVE  InTurn' /\ FileKnown'
<1>. USE DaemonSocketAssumption DEF DaemonSocketAssumption, SocketInv, TypeOK
<1>0. ~Settled(p)
  BY DEF Settled, Starting, Stat, PingUp, PingDown, Remove, Bind, Chmod, Serve
<1>1. \A q \in Procs \ {p} : Settled(q)
  BY <1>0 DEF InTurn
<1>2. UNCHANGED cancelled /\ \E l : pc' = [pc EXCEPT ![p] = l]
  BY DEF Starting, Stat, PingUp, PingDown, Remove, Bind, Chmod, Serve
<1>3. InTurn'
  BY <1>1, <1>2 DEF InTurn, Settled
<1>4. FileKnown'
  <2>1. CASE Stat(p)  BY <1>1, <2>1 DEF Stat, FileKnown, Settled
  <2>2. CASE PingUp(p)  BY <1>1, <2>2 DEF PingUp, FileKnown, Settled
  <2>3. CASE PingDown(p)
    <3>1. \A q \in Procs : pc[q] # "serve"
      BY <2>3 DEF PingDown, Down, FileKnown
    <3>. QED BY <1>1, <2>3, <3>1 DEF PingDown, FileKnown, Settled
  <2>4. CASE Remove(p)  BY <1>1, <2>4 DEF Remove, FileKnown, Settled
  <2>5. CASE Bind(p)  BY <1>1, <2>5 DEF Bind, FileKnown, Settled
  <2>6. CASE Chmod(p)  BY <1>1, <2>6 DEF Chmod, FileKnown, Settled
  <2>7. CASE Serve(p)  BY <1>1, <2>7 DEF Serve, FileKnown, Settled
  <2>. QED BY <2>1, <2>2, <2>3, <2>4, <2>5, <2>6, <2>7 DEF Starting
<1>. QED BY <1>3, <1>4

LEMMA StoppingInv ==
  ASSUME SocketInv, NEW p \in Procs, Stopping(p)
  PROVE  InTurn' /\ FileKnown'
<1>. USE DaemonSocketAssumption DEF DaemonSocketAssumption, SocketInv, TypeOK
<1>1. CASE Exit(p)
  BY <1>1, GoneInv DEF Exit
<1>2. CASE Unlink(p) \/ CloseTransport(p) \/ Clear(p)
  <2>1. ~Settled(p) /\ UNCHANGED cancelled /\ \E l : pc' = [pc EXCEPT ![p] = l]
    BY <1>2 DEF Settled, Unlink, CloseTransport, Clear
  <2>2. \A q \in Procs \ {p} : Settled(q)
    BY <2>1 DEF InTurn
  <2>3. InTurn'
    BY <2>1, <2>2 DEF InTurn, Settled
  <2>4. FileKnown'
    BY <1>2, <2>2 DEF Unlink, CloseTransport, Clear, FileKnown, Settled
  <2>. QED BY <2>3, <2>4
<1>. QED BY <1>1, <1>2 DEF Stopping

LEMMA TrayInv ==
  ASSUME SocketInv, NEW p \in Procs, Tray(p)
  PROVE  InTurn' /\ FileKnown'
<1>1. CASE TrayOpens(p)
  BY <1>1 DEF TrayOpens, SocketInv, InTurn, Settled, FileKnown
<1>. QED BY <1>1, GoneInv DEF Tray, TrayGivesUp, TrayExits

LEMMA OutsideInv ==
  ASSUME ~Overlap, SocketInv, NEW p \in Procs, Outside(p)
  PROVE  InTurn' /\ FileKnown'
<1>. USE DEF SocketInv, TypeOK
<1>1. CASE Launch(p)
  <2>1. \A q \in Procs \ {p} : Settled(q)
    BY <1>1 DEF Launch, Undisturbed
  <2>. QED BY <1>1, <2>1 DEF Launch, InTurn, Settled, FileKnown
<1>2. CASE LaunchTrayOnly(p)
  BY <1>2 DEF LaunchTrayOnly, InTurn, Settled, FileKnown
<1>3. CASE Cancel(p) \/ TrayQuits(p)
  <2>1. \A q \in Procs \ {p} : Settled(q)
    BY <1>3 DEF Cancel, TrayQuits, Undisturbed
  <2>2. UNCHANGED <<file, pc>> /\ cancelled' = [cancelled EXCEPT ![p] = TRUE]
    BY <1>3 DEF Cancel, TrayQuits
  <2>. QED BY <2>1, <2>2 DEF InTurn, Settled, FileKnown
<1>4. CASE Crash(p) \/ TrayTimesOut(p)
  BY <1>4, GoneInv DEF Crash, TrayTimesOut
<1>. QED BY <1>1, <1>2, <1>3, <1>4 DEF Outside

LEMMA NextSocket == ~Overlap /\ SocketInv /\ [Next]_vars => SocketInv'
<1>. SUFFICES ASSUME ~Overlap, SocketInv, [Next]_vars PROVE SocketInv'
  OBVIOUS
<1>1. TypeOK'
  BY NextType DEF SocketInv
<1>2. InTurn' /\ FileKnown'
  <2>1. CASE UNCHANGED vars
    BY <2>1 DEF vars, SocketInv, InTurn, Settled, FileKnown
  <2>. QED BY <2>1, StartingInv, StoppingInv, TrayInv, OutsideInv DEF Next
<1>. QED BY <1>1, <1>2 DEF SocketInv

-----------------------------------------------------------------------------

\* Every variable keeps its type, however processes overlap and crash.
THEOREM TypeCorrect == Spec => []TypeOK
<1>1. Init => TypeOK
  BY InitSocket DEF SocketInv
<1>. QED BY <1>1, NextType, PTL DEF Spec

\* The path is what every process takes it for, as long as none starts or stops
\* while another does; crashes do not matter.
THEOREM SocketCorrect ==
  ASSUME Overlap = FALSE
  PROVE  Spec => []SocketInv
<1>1. SocketInv /\ [Next]_vars => SocketInv'
  BY NextSocket
<1>. QED BY <1>1, InitSocket, PTL DEF Spec

\* Of any number of daemons started and stopped in turn, one serves.
THEOREM OneDaemonServes ==
  ASSUME Overlap = FALSE
  PROVE  Spec => []OneDaemon
<1>1. SocketInv => OneDaemon
  BY DEF SocketInv, FileKnown, OneDaemon
<1>. QED BY <1>1, SocketCorrect, PTL

\* It is the one at the path.
THEOREM ServerIsReachable ==
  ASSUME Overlap = FALSE
  PROVE  Spec => []Reachable
<1>1. SocketInv => Reachable
  BY DEF SocketInv, FileKnown, Reachable
<1>. QED BY <1>1, SocketCorrect, PTL

\* If processes start and stop in turn, a start fails only because another daemon
\* answers: what a crash left behind never makes a remove, a bind or a chmod fail.
\* Of starts that overlap, each of the three may fail though no daemon answers.
THEOREM RefusalMeansUp ==
  ASSUME Overlap = FALSE
  PROVE  Spec => RefusedOnlyIfUp
<1>. DEFINE Refusal == \A p \in Procs :
       pc[p] \in Claiming /\ pc'[p] = "done" => \E q \in Procs \ {p} : pc[q] = "serve"
<1>1. SocketInv /\ [Next]_vars => [Refusal]_vars
  <2>. SUFFICES ASSUME SocketInv, [Next]_vars,
                       NEW p \in Procs, pc[p] \in Claiming, pc'[p] = "done"
                PROVE  \E q \in Procs \ {p} : pc[q] = "serve"
    OBVIOUS
  <2>. USE DEF SocketInv, TypeOK
  <2>1. CASE UNCHANGED vars
    BY <2>1 DEF vars
  <2>2. ASSUME NEW r \in Procs, \/ Starting(r) \/ Stopping(r) \/ Tray(r) \/ Outside(r)
        PROVE  r = p
    <3>1. r # p => pc'[p] = pc[p]
      BY <2>2 DEF Starting, Stat, PingUp, PingDown, Remove, Bind, Chmod, Serve,
        Stopping, Unlink, CloseTransport, Clear, Exit,
        Tray, TrayOpens, TrayGivesUp, TrayExits, Gone,
        Outside, Launch, LaunchTrayOnly, Cancel, Crash, TrayTimesOut, TrayQuits
    <3>. QED BY <3>1
  <2>3. CASE Starting(p)
    <3>1. ~Remove(p) /\ ~Bind(p) /\ ~Chmod(p)
      BY DaemonSocketAssumption DEF DaemonSocketAssumption, Remove, Bind, Chmod, FileKnown
    <3>2. PingUp(p)
      BY <2>3, <3>1 DEF Starting, Stat, PingDown, Serve
    <3>. QED BY <3>2 DEF PingUp, Up
  <2>4. ~Stopping(p) /\ ~Tray(p) /\ ~Outside(p)
    BY DEF Stopping, Unlink, CloseTransport, Clear, Exit,
      Tray, TrayOpens, TrayGivesUp, TrayExits, Gone,
      Outside, Launch, LaunchTrayOnly, Cancel, Crash, TrayTimesOut, TrayQuits
  <2>. QED BY <2>1, <2>2, <2>3, <2>4 DEF Next
<1>. QED BY <1>1, SocketCorrect, PTL DEF Spec, RefusedOnlyIfUp

=============================================================================
