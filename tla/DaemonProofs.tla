---------------------------- MODULE DaemonProofs ----------------------------
(***************************************************************************)
(* Theorems about the daemon, for any number of handlers, either my_host   *)
(* and every configuration of the power cycle.                             *)
(***************************************************************************)
EXTENDS Daemon, TLAPS

LEMMA NamesDiffer ==
  /\ \A c \in Cyclers : c \in Users /\ c \notin Threads
  /\ \A h \in Handlers : h \in Threads /\ h # Main /\ h # Poll
  /\ NoOne \notin Users
  /\ {Main, Poll} \subseteq Threads
  /\ Threads \subseteq Users
BY LinkAssumption DEF LinkAssumption, Users, Threads

-----------------------------------------------------------------------------
(* Type correctness.  What a handler writes to the switch is an input, so    *)
(* the invariant also says what dispatch validated.                         *)

ReqValidated ==
  \A h \in Handlers :
    /\ pc[h] \in {"check", "send"}
    /\ req[h].op \in {"set_host", "set_input"}
    => req[h].host \in Hosts

TypeInv == TypeOK /\ ReqValidated

USE DEF LinkTypeOK, linkVars, gateVars, ctxVars, Replies, View, ThreadLabels,
        CyclerLabels, Stages, ClientFree, Goto

LEMMA InitType == Init => TypeInv
<1>. SUFFICES ASSUME Init PROVE TypeInv
  OBVIOUS
<1>. USE DEF Init, LinkInit
<1>1. LinkTypeOK
  BY LinkAssumption
<1>2. pc \in [Users -> {"close", "idle"}]
  BY DEF InitialPC
<1>3. \A h \in Handlers : pc[h] = "idle"
  BY NamesDiffer DEF InitialPC
<1>4. \A c \in Cyclers : pc[c] = "idle"
  BY NamesDiffer DEF InitialPC
<1>5. NoRequest \in RequestType
  BY DEF NoRequest, RequestType, Ops
<1>6. view \in View
  BY DEF InitialView
<1>7. TypeOK
  BY <1>1, <1>2, <1>4, <1>5, <1>6, NamesDiffer DEF TypeOK
<1>8. ReqValidated
  BY <1>3 DEF ReqValidated
<1>. QED BY <1>7, <1>8 DEF TypeInv

LEMMA ReturnLabel == \A t : Return(t) \in {"serve", "idle", "respond"}
BY DEF Return

\* A goroutine that moves to a label of its own, other than those at which a
\* handler's request is pending, leaves pc well typed and requests validated.
LEMMA MoveType ==
  ASSUME TypeInv, NEW u \in Users, NEW l, Goto(u, l), req' = req,
         u \in Threads => l \in ThreadLabels \ {"check", "send"},
         u \in Cyclers => l \in CyclerLabels
  PROVE  /\ pc' \in [Users -> ThreadLabels \cup CyclerLabels]
         /\ \A t \in Threads : pc'[t] \in ThreadLabels
         /\ \A c \in Cyclers : pc'[c] \in CyclerLabels
         /\ ReqValidated'
<1>. USE NamesDiffer DEF TypeInv, TypeOK
<1>1. u \in Threads \/ u \in Cyclers
  BY DEF Users
<1>2. l \in ThreadLabels \cup CyclerLabels
  BY <1>1
<1>3. \A w \in Users : pc'[w] = IF w = u THEN l ELSE pc[w]
  OBVIOUS
<1>4. \A t \in Threads : pc'[t] \in ThreadLabels
  BY <1>3
<1>5. \A c \in Cyclers : pc'[c] \in CyclerLabels
  BY <1>3
<1>6. ReqValidated'
  BY <1>3 DEF ReqValidated
<1>. QED BY <1>2, <1>4, <1>5, <1>6

LEMMA ConnectingType ==
  ASSUME TypeInv, NEW t \in Threads, Connecting(t)
  PROVE  TypeInv'
<1>. USE NamesDiffer DEF TypeInv, TypeOK, ReqValidated
<1>1. CASE Close(t)  BY <1>1 DEF Close, CloseClient
<1>2. CASE FindFails(t)  BY <1>2 DEF FindFails
<1>3. CASE Open(t)  BY <1>3 DEF Open, OpenClient
<1>4. CASE OpenFails(t)  BY <1>4 DEF OpenFails, OpenClientFails
<1>. QED BY <1>1, <1>2, <1>3, <1>4 DEF Connecting

LEMMA RefreshingType ==
  ASSUME TypeInv, NEW t \in Threads, Refreshing(t)
  PROVE  TypeInv'
<1>. USE NamesDiffer DEF TypeInv, TypeOK, ReqValidated
<1>1. CASE Probe(t)  BY <1>1 DEF Probe
<1>2. CASE Query(t)
  BY <1>2 DEF Query, WriteGetInput, NotConnected, WriteFails
<1>3. CASE QueryAnswered(t)
  BY <1>3 DEF QueryAnswered, ReadGetInput, ReadGetInputFails
<1>4. CASE Drop(t)  BY <1>4 DEF Drop, CloseClient
<1>. QED BY <1>1, <1>2, <1>3, <1>4 DEF Refreshing

LEMMA SetStateType ==
  ASSUME TypeInv, NEW t \in Threads, NEW v \in View, SetState(t, v)
  PROVE  TypeInv'
<1>1. Active(v) \in BOOLEAN  BY DEF Active
<1>. QED BY <1>1, NamesDiffer DEF SetState, TypeInv, TypeOK, ReqValidated

LEMMA UnlockStateType ==
  ASSUME TypeInv, NEW t \in Threads, NEW v \in View, UnlockState(t, v), LinkTypeOK'
  PROVE  TypeInv'
<1>1. Active(v) \in BOOLEAN  BY DEF Active
<1>2. Goto(t, "consider") /\ req' = req /\ t \in Users /\ t \notin Cyclers
  BY NamesDiffer DEF UnlockState
<1>3. snap' \in [Threads -> BOOLEAN] /\ mu' \in Threads \cup {NoOne}
  BY <1>1 DEF UnlockState, TypeInv, TypeOK
<1>4. TypeOK'
  BY <1>2, <1>3, MoveType DEF UnlockState, TypeInv, TypeOK
<1>. QED BY <1>2, <1>4, MoveType DEF TypeInv

LEMMA DownType == ASSUME NEW v \in View PROVE Down(v) \in View
BY DEF Down

LEMMA PublishingType ==
  ASSUME TypeInv, NEW t \in Threads, Publishing(t)
  PROVE  TypeInv'
<1>0. view \in View
  BY DEF TypeInv, TypeOK
<1>1. CASE PublishDown(t)
  BY <1>0, <1>1, DownType, SetStateType DEF PublishDown
<1>2. CASE PublishNoPort(t)
  <2>1. [Down(view) EXCEPT !.activeHost = Unknown] \in View
    BY <1>0, DownType
  <2>. QED BY <1>2, <2>1, SetStateType DEF PublishNoPort
<1>3. CASE PublishOther(t)
  <2>1. [Down(view) EXCEPT !.activeHost = Other(MyHost)] \in View
    BY <1>0, DownType DEF Other, Hosts
  <2>. QED BY <1>3, <2>1, SetStateType DEF PublishOther
<1>4. CASE LockState(t)
  BY <1>4, NamesDiffer DEF LockState, TypeInv, TypeOK, ReqValidated
<1>5. CASE PublishAnswer(t)
  <2>1. AnsweredHost(t) \in Hosts
    BY LinkAssumption DEF AnsweredHost
  <2>2. [connected |-> TRUE, iAmActive |-> AnsweredHost(t) = MyHost,
         activeHost |-> AnsweredHost(t)] \in View
    BY <2>1
  <2>3. LinkTypeOK'
    BY <1>5 DEF PublishAnswer, ForgetReply, TypeInv, TypeOK
  <2>. QED BY <1>5, <2>2, <2>3, UnlockStateType DEF PublishAnswer
<1>. QED BY <1>1, <1>2, <1>3, <1>4, <1>5 DEF Publishing

LEMMA ConsideringType ==
  ASSUME TypeInv, NEW t \in Threads, Considering(t)
  PROVE  TypeInv'
<1>. USE NamesDiffer DEF TypeInv, TypeOK, ReqValidated
<1>0. Return(t) \in ThreadLabels /\ Return(t) \notin {"check", "send"}
  BY DEF Return
<1>1. CASE ConsiderInactive(t)  BY <1>0, <1>1 DEF ConsiderInactive, Considered
<1>2. CASE ConsiderActive(t)  BY <1>0, <1>2 DEF ConsiderActive, Considered
<1>3. CASE StartCycle(t)
  <2>1. PICK c \in Cyclers : pc' = [pc EXCEPT ![c] = "begin", ![t] = Return(t)]
    BY <1>3 DEF StartCycle
  <2>2. pc' \in [Users -> ThreadLabels \cup CyclerLabels]
    BY <1>0, <2>1
  <2>3. (\A u \in Threads : pc'[u] \in ThreadLabels)
          /\ \A d \in Cyclers : pc'[d] \in CyclerLabels
    BY <1>0, <2>1
  <2>4. \A h \in Handlers : pc'[h] \in {"check", "send"} => pc[h] = pc'[h]
    BY <1>0, <2>1
  <2>5. ReqValidated'
    BY <1>3, <2>4 DEF StartCycle
  <2>6. snap' \in [Threads -> BOOLEAN]
    BY <1>3 DEF StartCycle, Considered
  <2>7. /\ sawInactive' \in BOOLEAN /\ cycling' \in BOOLEAN
        /\ UNCHANGED <<linkVars, req, view, mu, portKnown, ctxVars>>
    BY <1>3 DEF StartCycle
  <2>8. TypeOK'
    BY <2>2, <2>3, <2>6, <2>7
  <2>. QED BY <2>5, <2>8
<1>. QED BY <1>1, <1>2, <1>3 DEF Considering

LEMMA PollOnceType ==
  ASSUME TypeInv, NEW t \in Threads, PollOnce(t)
  PROVE  TypeInv'
<1>1. \E l \in {"probe", "close", "downOther"} : Goto(t, l)
  BY DEF PollOnce
<1>2. t \in Users /\ t \notin Cyclers /\ req' = req
  BY NamesDiffer DEF PollOnce
<1>3. portKnown' \in BOOLEAN
  BY DEF PollOnce, TypeInv, TypeOK
<1>4. PICK l \in {"probe", "close", "downOther"} : Goto(t, l)
  BY <1>1
<1>5. /\ pc' \in [Users -> ThreadLabels \cup CyclerLabels]
      /\ \A u \in Threads : pc'[u] \in ThreadLabels
      /\ \A c \in Cyclers : pc'[c] \in CyclerLabels
      /\ ReqValidated'
  BY <1>2, <1>4, MoveType
<1>6. UNCHANGED <<linkVars, req, view, mu, snap, gateVars, ctxVars>>
  BY DEF PollOnce
<1>7. TypeOK'
  BY <1>3, <1>5, <1>6 DEF TypeInv, TypeOK
<1>. QED BY <1>5, <1>7 DEF TypeInv

LEMMA ThreadType ==
  ASSUME TypeInv, NEW t \in Threads, Thread(t)
  PROVE  TypeInv'
BY ConnectingType, RefreshingType, PublishingType, ConsideringType DEF Thread

LEMMA HandlerType ==
  ASSUME TypeInv, NEW h \in Handlers, Accept(h) \/ Handler(h)
  PROVE  TypeInv'
<1>. USE NamesDiffer
<1>0. view \in View /\ req \in [Handlers -> RequestType]
  BY DEF TypeInv, TypeOK
<1>1. CASE Accept(h)
  <2>1. PICK r \in Requests : /\ req' = [req EXCEPT ![h] = r]
                              /\ stopping' = (stopping \/ r.op = "shutdown")
                              /\ pc' = [pc EXCEPT ![h] = Route(r)]
    BY <1>1 DEF Accept
  <2>2. Route(r) \in ThreadLabels
    BY DEF Route
  <2>3. Route(r) \in {"check", "send"} /\ r.op \in {"set_host", "set_input"}
          => r.host \in Hosts
    BY DaemonAssumption DEF Route, Commands, DaemonAssumption
  <2>. QED BY <1>1, <2>1, <2>2, <2>3, DaemonAssumption
           DEF DaemonAssumption, Accept, TypeInv, TypeOK, ReqValidated
<1>2. CASE Check(h)
  BY <1>2 DEF Check, TypeInv, TypeOK, ReqValidated
<1>3. CASE Send(h)
  <2>. USE DEF TypeInv, TypeOK, ReqValidated
  <2>0. OnError(req[h]) \in {"switchErr", "poll"}
    BY DEF OnError
  <2>1. Wanted(req[h]) \subseteq Hosts
    BY <1>3 DEF Wanted, Send, Hosts
  <2>2. CASE Write(h, Wanted(req[h])) /\ UNCHANGED pc
    BY <1>3, <2>1, <2>2 DEF Send, Write
  <2>3. CASE (NotConnected \/ WriteFails) /\ Goto(h, OnError(req[h]))
    BY <1>3, <2>0, <2>3 DEF Send, NotConnected, WriteFails
  <2>. QED BY <1>3, <2>2, <2>3 DEF Send
<1>4. CASE SendAnswered(h)
  <2>0. OnError(req[h]) \in {"switchErr", "poll"}
          /\ OnReply(req[h]) \in {"switchOk", "respond", "probe"}
    BY DEF OnError, OnReply
  <2>. QED BY <1>4, <2>0 DEF SendAnswered, ReadReply, ReadFails, ConfirmFails,
                             TypeInv, TypeOK, ReqValidated
<1>5. CASE PollAfterError(h)
  BY <1>5, PollOnceType DEF PollAfterError
<1>6. CASE Respond(h)
  <2>1. NoRequest \in RequestType
    BY DEF NoRequest, RequestType, Ops
  <2>. QED BY <1>6, <2>1 DEF Respond, TypeInv, TypeOK, ReqValidated
<1>7. CASE PublishSwitchErr(h)
  <2>1. [connected |-> FALSE, iAmActive |-> req[h].host = MyHost,
         activeHost |-> req[h].host] \in View
    BY <1>0 DEF RequestType
  <2>. QED BY <1>7, <2>1, SetStateType DEF PublishSwitchErr
<1>8. CASE PublishSwitchHere(h)
  <2>1. [view EXCEPT !.iAmActive = TRUE, !.activeHost = MyHost] \in View
    BY <1>0, LinkAssumption
  <2>. QED BY <1>8, <2>1, UnlockStateType DEF PublishSwitchHere, TypeInv, TypeOK
<1>9. CASE PublishSwitchAway(h)
  <2>1. [connected |-> FALSE, iAmActive |-> FALSE, activeHost |-> req[h].host] \in View
    BY <1>0 DEF RequestType
  <2>. QED BY <1>9, <2>1, UnlockStateType
           DEF PublishSwitchAway, CloseClient, TypeInv, TypeOK
<1>. QED BY <1>1, <1>2, <1>3, <1>4, <1>5, <1>6, <1>7, <1>8, <1>9, ThreadType DEF Handler

LEMMA CyclerType ==
  ASSUME TypeInv, NEW c \in Cyclers, Cycler(c)
  PROVE  TypeInv'
<1>. USE NamesDiffer DEF TypeInv, TypeOK, ReqValidated
<1>0. \A s : NextStage(s) \in CyclerLabels /\ FailedStage(s) \in CyclerLabels
  BY DEF NextStage, FailedStage, FirstOf, ThenTX
<1>1. CASE CycleBegins(c)  BY <1>0, <1>1 DEF CycleBegins
<1>2. CASE CycleCommand(c)
  BY <1>0, <1>2 DEF CycleCommand, Write, NotConnected, WriteFails
<1>3. CASE CycleAnswered(c)  BY <1>0, <1>3 DEF CycleAnswered, ReadReply, ReadFails
<1>4. CASE CycleWakes(c)  BY <1>0, <1>4 DEF CycleWakes
<1>5. CASE CycleEnds(c)
  <2>1. Goto(c, "idle") /\ req' = req /\ c \in Users /\ c \notin Threads
    BY <1>5 DEF CycleEnds
  <2>2. /\ pc' \in [Users -> ThreadLabels \cup CyclerLabels]
        /\ \A u \in Threads : pc'[u] \in ThreadLabels
        /\ \A d \in Cyclers : pc'[d] \in CyclerLabels
        /\ ReqValidated'
    BY <2>1, MoveType
  <2>3. cycling' \in BOOLEAN
    BY <1>5 DEF CycleEnds
  <2>. QED BY <1>5, <2>2, <2>3 DEF CycleEnds
<1>. QED BY <1>1, <1>2, <1>3, <1>4, <1>5 DEF Cycler

LEMMA PollThreadType ==
  ASSUME TypeInv, PollThread
  PROVE  TypeInv'
<1>1. CASE PollQuits
  BY <1>1, NamesDiffer DEF PollQuits, TypeInv, TypeOK, ReqValidated
<1>. QED BY <1>1, PollOnceType, ThreadType, NamesDiffer DEF PollThread, Tick

LEMMA MainThreadType ==
  ASSUME TypeInv, MainThread
  PROVE  TypeInv'
<1>1. CASE StopServing
  BY <1>1, NamesDiffer DEF StopServing, TypeInv, TypeOK, ReqValidated
<1>2. CASE Exit
  BY <1>2, NamesDiffer DEF Exit, CloseClient, TypeInv, TypeOK, ReqValidated
<1>. QED BY <1>1, <1>2, ThreadType, NamesDiffer DEF MainThread

LEMMA CancelType ==
  ASSUME TypeInv, Signal \/ ShutdownTimer
  PROVE  TypeInv'
<1>1. cancelled' \in BOOLEAN /\ UNCHANGED <<pc, req, view, mu, snap, portKnown, gateVars, stopping>>
  BY DEF Signal, ShutdownTimer, CancelContext
<1>2. UNCHANGED linkVars
  BY DEF Signal, ShutdownTimer, CancelContext
<1>. QED BY <1>1, <1>2 DEF linkVars, gateVars, TypeInv, TypeOK, ReqValidated

LEMMA SurroundingsType ==
  ASSUME TypeInv, Surroundings
  PROVE  TypeInv'
<1>1. plugged' \in BOOLEAN
  BY DEF Surroundings, Environment, PanelSwitch, Unplug, Plug, TypeInv, TypeOK
<1>2. input' \in Hosts
  BY LinkAssumption
  DEF LinkAssumption, Surroundings, Environment, PanelSwitch, Unplug, Plug, TypeInv, TypeOK
<1>3. port' \in {"nil", "live", "dead"} /\ UNCHANGED <<clientMu, reply>>
  BY DEF Surroundings, Environment, PanelSwitch, Unplug, Plug, TypeInv, TypeOK
<1>4. UNCHANGED <<pc, req, view, mu, snap, portKnown, gateVars, ctxVars>>
  BY DEF Surroundings
<1>. QED BY <1>1, <1>2, <1>3, <1>4 DEF TypeInv, TypeOK, ReqValidated

LEMMA RestartType ==
  ASSUME TypeInv, Restart
  PROVE  TypeInv'
<1>1. pc' \in [Users -> {"close", "idle"}]
  BY DEF Restart, InitialPC
<1>2. \A h \in Handlers : pc'[h] = "idle"
  BY NamesDiffer DEF Restart, InitialPC
<1>3. \A c \in Cyclers : pc'[c] = "idle"
  BY NamesDiffer DEF Restart, InitialPC
<1>4. req' \in [Handlers -> RequestType]
  BY DEF Restart, NoRequest, RequestType, Ops
<1>5. view' \in View
  BY DEF Restart, InitialView
<1>6. LinkTypeOK'
  BY DEF Restart, TypeInv, TypeOK
<1>7. /\ {portKnown', sawInactive', cycling', stopping', cancelled'} \subseteq BOOLEAN
      /\ snap' \in [Threads -> BOOLEAN]
  BY DEF Restart
<1>8. mu' \in Threads \cup {NoOne}
  BY DEF Restart
<1>9. /\ pc' \in [Users -> ThreadLabels \cup CyclerLabels]
      /\ \A t \in Threads : pc'[t] \in ThreadLabels
      /\ \A c \in Cyclers : pc'[c] \in CyclerLabels
  BY <1>1, <1>3, NamesDiffer
<1>10. TypeOK'
  BY <1>4, <1>5, <1>6, <1>7, <1>8, <1>9 DEF TypeOK
<1>11. ReqValidated'
  BY <1>2 DEF ReqValidated
<1>. QED BY <1>10, <1>11 DEF TypeInv

LEMMA StutterType ==
  ASSUME TypeInv, UNCHANGED vars
  PROVE  TypeInv'
BY DEF vars, TypeInv, TypeOK, ReqValidated

LEMMA StepType == TypeInv /\ [Next]_vars => TypeInv'
<1>. SUFFICES ASSUME TypeInv, [Next]_vars PROVE TypeInv'
  OBVIOUS
<1>1. CASE MainThread  BY <1>1, MainThreadType
<1>2. CASE PollThread  BY <1>2, PollThreadType
<1>3. CASE \E h \in Handlers : Accept(h) \/ Handler(h)  BY <1>3, HandlerType
<1>4. CASE \E c \in Cyclers : Cycler(c)  BY <1>4, CyclerType
<1>5. CASE Signal \/ ShutdownTimer  BY <1>5, CancelType
<1>6. CASE Surroundings  BY <1>6, SurroundingsType
<1>7. CASE Restart  BY <1>7, RestartType
<1>8. CASE UNCHANGED vars  BY <1>8, StutterType
<1>. QED BY <1>1, <1>2, <1>3, <1>4, <1>5, <1>6, <1>7, <1>8 DEF Next, Running

\* Every variable keeps its type, so what the daemon writes to the switch and
\* publishes is always a host the protocol knows, or "unknown" in the view.
THEOREM TypeCorrect == Spec => []TypeOK
<1>1. TypeInv => TypeOK
  BY DEF TypeInv
<1>. QED BY <1>1, InitType, StepType, PTL DEF Spec

-----------------------------------------------------------------------------
(* What the view says *)

\* Only publications write the view.
LEMMA ViewFrame ==
  ASSUME NEW t \in Threads,
         \/ Connecting(t) \/ Refreshing(t) \/ Considering(t) \/ PollOnce(t) \/ LockState(t)
  PROVE  view' = view
BY DEF Connecting, Close, FindFails, Open, OpenFails,
       Refreshing, Probe, Query, QueryAnswered, Drop,
       Considering, ConsiderInactive, ConsiderActive, StartCycle, PollOnce, LockState

LEMMA HandlerViewFrame ==
  ASSUME NEW h \in Handlers,
         Accept(h) \/ Check(h) \/ Send(h) \/ SendAnswered(h) \/ PollAfterError(h) \/ Respond(h)
  PROVE  view' = view
BY DEF Accept, Check, Send, SendAnswered, PollAfterError, PollOnce, Respond

LEMMA CyclerViewFrame ==
  ASSUME NEW c \in Cyclers, Cycler(c)
  PROVE  view' = view
BY DEF Cycler, CycleBegins, CycleCommand, CycleAnswered, CycleWakes, CycleEnds

LEMMA PublishingView ==
  ASSUME TypeOK, ViewCoherent, NEW t \in Threads, Publishing(t)
  PROVE  ViewCoherent'
<1>0. view \in View
  BY DEF TypeOK
<1>1. CASE PublishDown(t) \/ PublishNoPort(t) \/ PublishOther(t)
  <2>1. ~view'.connected /\ ~view'.iAmActive
    BY <1>0, <1>1 DEF PublishDown, PublishNoPort, PublishOther, SetState, Down
  <2>. QED BY <2>1 DEF ViewCoherent
<1>2. CASE LockState(t)
  BY <1>2, ViewFrame DEF ViewCoherent
<1>3. CASE PublishAnswer(t)
  <2>1. view' = [connected |-> TRUE, iAmActive |-> AnsweredHost(t) = MyHost,
                 activeHost |-> AnsweredHost(t)]
    BY <1>3 DEF PublishAnswer, UnlockState
  <2>. QED BY <2>1 DEF ViewCoherent
<1>. QED BY <1>1, <1>2, <1>3 DEF Publishing

LEMMA HandlerView ==
  ASSUME TypeOK, ViewCoherent, NEW h \in Handlers,
         PublishSwitchErr(h) \/ PublishSwitchHere(h) \/ PublishSwitchAway(h)
  PROVE  ViewCoherent'
<1>1. CASE PublishSwitchErr(h)
  <2>1. view' = [connected |-> FALSE, iAmActive |-> req[h].host = MyHost,
                 activeHost |-> req[h].host]
    BY <1>1 DEF PublishSwitchErr, SetState
  <2>. QED BY <2>1 DEF ViewCoherent
<1>2. CASE PublishSwitchHere(h)
  <2>1. view'.iAmActive /\ view'.activeHost = MyHost
    BY <1>2 DEF PublishSwitchHere, UnlockState, TypeOK
  <2>. QED BY <2>1 DEF ViewCoherent
<1>3. CASE PublishSwitchAway(h)
  <2>1. ~view'.connected /\ ~view'.iAmActive
    BY <1>3 DEF PublishSwitchAway, UnlockState
  <2>. QED BY <2>1 DEF ViewCoherent
<1>. QED BY <1>1, <1>2, <1>3

LEMMA ThreadView ==
  ASSUME TypeOK, ViewCoherent, NEW t \in Threads, Thread(t) \/ PollOnce(t)
  PROVE  ViewCoherent'
BY ViewFrame, PublishingView DEF Thread, ViewCoherent

LEMMA StepView == TypeOK /\ ViewCoherent /\ [Next]_vars => ViewCoherent'
<1>. SUFFICES ASSUME TypeOK, ViewCoherent, [Next]_vars PROVE ViewCoherent'
  OBVIOUS
<1>1. CASE MainThread
  <2>1. CASE StopServing \/ Exit
    BY <2>1 DEF StopServing, Exit, ViewCoherent
  <2>. QED BY <1>1, <2>1, ThreadView, NamesDiffer DEF MainThread
<1>2. CASE PollThread
  <2>1. CASE PollQuits
    BY <2>1 DEF PollQuits, ViewCoherent
  <2>. QED BY <1>2, <2>1, ThreadView, NamesDiffer DEF PollThread, Tick
<1>3. CASE \E h \in Handlers : Accept(h) \/ Handler(h)
  BY <1>3, ThreadView, HandlerView, HandlerViewFrame, NamesDiffer
  DEF Handler, ViewCoherent
<1>4. CASE \E c \in Cyclers : Cycler(c)
  BY <1>4, CyclerViewFrame DEF ViewCoherent
<1>5. CASE Signal \/ ShutdownTimer \/ Surroundings \/ UNCHANGED vars
  BY <1>5 DEF Signal, ShutdownTimer, CancelContext, Surroundings, vars, ViewCoherent
<1>6. CASE Restart
  BY <1>6 DEF Restart, InitialView, ViewCoherent
<1>. QED BY <1>1, <1>2, <1>3, <1>4, <1>5, <1>6 DEF Next, Running

\* Whatever the interleaving of poll loop, handlers and setHost's mutations,
\* the published state is never active on a host other than my_host.
THEOREM ViewIsCoherent == Spec => []ViewCoherent
<1>1. Init => ViewCoherent
  BY DEF Init, InitialView, ViewCoherent
<1>. QED BY <1>1, StepView, TypeCorrect, PTL DEF Spec

-----------------------------------------------------------------------------
(* The cycle gate.  Only considerUSBCycle and the end of a cycle touch it;   *)
(* everything else leaves the flags and the set of running cycles alone.     *)

CyclesKept ==
  /\ UNCHANGED gateVars
  /\ \A c \in Cyclers : pc'[c] = "idle" <=> pc[c] = "idle"

LEMMA KeptMeansStutter ==
  ASSUME OneCycle, CyclesKept
  PROVE  RunningCycles' = RunningCycles /\ UNCHANGED Gate!vars /\ OneCycle'
<1>1. RunningCycles' = RunningCycles
  BY DEF RunningCycles, CyclesKept
<1>. QED BY <1>1 DEF CyclesKept, OneCycle, Gate!vars

LEMMA ThreadKeeps ==
  ASSUME TypeOK, NEW t \in Threads,
         \/ Connecting(t) \/ Refreshing(t) \/ Publishing(t)
         \/ ConsiderActive(t) \/ PollOnce(t)
  PROVE  CyclesKept
<1>. USE NamesDiffer DEF TypeOK, CyclesKept
<1>1. CASE Connecting(t)
  BY <1>1 DEF Connecting, Close, FindFails, Open, OpenFails
<1>2. CASE Refreshing(t)
  BY <1>2 DEF Refreshing, Probe, Query, QueryAnswered, Drop
<1>3. CASE Publishing(t)
  BY <1>3 DEF Publishing, PublishDown, PublishNoPort, PublishOther, LockState,
              PublishAnswer, SetState, UnlockState
<1>4. CASE ConsiderActive(t)
  BY <1>4 DEF ConsiderActive
<1>5. CASE PollOnce(t)
  BY <1>5 DEF PollOnce
<1>. QED BY <1>1, <1>2, <1>3, <1>4, <1>5

LEMMA HandlerKeeps ==
  ASSUME TypeOK, NEW h \in Handlers,
         \/ Accept(h) \/ Check(h) \/ Send(h) \/ SendAnswered(h) \/ Respond(h)
         \/ PublishSwitchErr(h) \/ PublishSwitchHere(h) \/ PublishSwitchAway(h)
  PROVE  CyclesKept
BY NamesDiffer
DEF TypeOK, CyclesKept, Accept, Check, Send, SendAnswered, Respond, PublishSwitchErr,
    PublishSwitchHere, PublishSwitchAway, SetState, UnlockState

LEMMA CyclerKeeps ==
  ASSUME TypeOK, NEW c \in Cyclers,
         CycleBegins(c) \/ CycleCommand(c) \/ CycleAnswered(c) \/ CycleWakes(c)
  PROVE  CyclesKept
<1>1. \A s : NextStage(s) # "idle" /\ FailedStage(s) # "idle"
  BY DEF NextStage, FailedStage, FirstOf, ThenTX
<1>. QED BY <1>1, NamesDiffer
         DEF TypeOK, CyclesKept, CycleBegins, CycleCommand, CycleAnswered, CycleWakes

LEMMA ConsiderInactiveNotes ==
  ASSUME TypeOK, OneCycle, NEW t \in Threads, ConsiderInactive(t)
  PROVE  Gate!NoteInactive /\ OneCycle'
<1>1. RunningCycles' = RunningCycles
  BY NamesDiffer DEF TypeOK, ConsiderInactive, RunningCycles
<1>2. sawInactive' = TRUE /\ cycling' = cycling
  BY DEF ConsiderInactive
<1>. QED BY <1>1, <1>2 DEF Gate!NoteInactive, OneCycle

LEMMA StartCycleStarts ==
  ASSUME TypeOK, OneCycle, NEW t \in Threads, StartCycle(t)
  PROVE  Gate!Start /\ OneCycle'
<1>1. PICK c \in Cyclers : /\ pc[c] = "idle"
                           /\ pc' = [pc EXCEPT ![c] = "begin", ![t] = Return(t)]
  BY DEF StartCycle
<1>2. CycleOnActive /\ sawInactive /\ RunningCycles = {}
  BY DEF StartCycle, ShouldCycle, OneCycle
<1>3. RunningCycles' = {c}
  BY <1>1, <1>2, NamesDiffer DEF TypeOK, RunningCycles
<1>4. sawInactive' = FALSE /\ cycling' = TRUE
  BY DEF StartCycle
<1>. QED BY <1>2, <1>3, <1>4 DEF Gate!Start, OneCycle

LEMMA CycleEndsFinishes ==
  ASSUME TypeOK, OneCycle, NEW c \in Cyclers, CycleEnds(c)
  PROVE  Gate!Finish /\ OneCycle'
<1>1. c \in RunningCycles
  BY DEF CycleEnds, RunningCycles
<1>2. RunningCycles = {c}
  BY <1>1 DEF OneCycle
<1>3. RunningCycles' = {}
  BY <1>2, NamesDiffer DEF TypeOK, CycleEnds, RunningCycles
<1>4. sawInactive' = sawInactive /\ cycling' = FALSE
  BY DEF CycleEnds
<1>. QED BY <1>1, <1>3, <1>4 DEF Gate!Finish, OneCycle

LEMMA RestartRestarts ==
  ASSUME Restart
  PROVE  Gate!Restart /\ OneCycle'
<1>1. RunningCycles' = {}
  BY NamesDiffer DEF Restart, InitialPC, RunningCycles
<1>2. sawInactive' = FALSE /\ cycling' = FALSE
  BY DEF Restart
<1>. QED BY <1>1, <1>2 DEF Gate!Restart, OneCycle

LEMMA ThreadGate ==
  ASSUME TypeOK, OneCycle, NEW t \in Threads, Thread(t) \/ PollOnce(t)
  PROVE  [Gate!Next]_(Gate!vars) /\ OneCycle'
<1>1. CASE ConsiderInactive(t)
  BY <1>1, ConsiderInactiveNotes DEF Gate!Next
<1>2. CASE StartCycle(t)
  BY <1>2, StartCycleStarts DEF Gate!Next
<1>3. CASE \/ Connecting(t) \/ Refreshing(t) \/ Publishing(t)
           \/ ConsiderActive(t) \/ PollOnce(t)
  BY <1>3, ThreadKeeps, KeptMeansStutter
<1>. QED BY <1>1, <1>2, <1>3 DEF Thread, Considering

LEMMA StepGate ==
  ASSUME TypeOK, OneCycle, [Next]_vars
  PROVE  [Gate!Next]_(Gate!vars) /\ OneCycle'
<1>1. CASE MainThread
  <2>1. CASE StopServing \/ Exit
    <3>1. CyclesKept
      BY <2>1, NamesDiffer DEF StopServing, Exit, CyclesKept, TypeOK
    <3>. QED BY <3>1, KeptMeansStutter
  <2>. QED BY <1>1, <2>1, ThreadGate, NamesDiffer DEF MainThread
<1>2. CASE PollThread
  <2>1. CASE PollQuits
    <3>1. CyclesKept
      BY <2>1, NamesDiffer DEF PollQuits, CyclesKept, TypeOK
    <3>. QED BY <3>1, KeptMeansStutter
  <2>. QED BY <1>2, <2>1, ThreadGate, NamesDiffer DEF PollThread, Tick
<1>3. CASE \E h \in Handlers : Accept(h) \/ Handler(h)
  BY <1>3, ThreadGate, HandlerKeeps, KeptMeansStutter, NamesDiffer
  DEF Handler, PollAfterError
<1>4. CASE \E c \in Cyclers : Cycler(c)
  BY <1>4, CyclerKeeps, KeptMeansStutter, CycleEndsFinishes DEF Cycler, Gate!Next
<1>5. CASE Signal \/ ShutdownTimer \/ Surroundings \/ UNCHANGED vars
  <2>1. CyclesKept
    BY <1>5 DEF Signal, ShutdownTimer, CancelContext, Surroundings, vars, CyclesKept
  <2>. QED BY <2>1, KeptMeansStutter
<1>6. CASE Restart
  BY <1>6, RestartRestarts DEF Gate!Next
<1>. QED BY <1>1, <1>2, <1>3, <1>4, <1>5, <1>6 DEF Next, Running

LEMMA InitCycle == Init => OneCycle /\ Gate!Init
<1>. SUFFICES ASSUME Init PROVE OneCycle /\ Gate!Init
  OBVIOUS
<1>1. RunningCycles = {}
  BY NamesDiffer DEF Init, InitialPC, RunningCycles
<1>. QED BY <1>1 DEF Init, OneCycle, Gate!Init

\* However many goroutines consider a cycle at once, one runs at a time.
THEOREM OneCycleAtATime == Spec => []OneCycle
<1>. QED BY InitCycle, StepGate, TypeCorrect, PTL DEF Spec

\* The daemon implements CycleGate: each power cycle is paid for by a report
\* of inactivity made since the one before it started.
THEOREM GateImplemented == Spec => GateSpec
<1>1. Spec => []TypeOK /\ []OneCycle
  BY TypeCorrect, OneCycleAtATime, PTL
<1>. QED BY <1>1, InitCycle, StepGate, PTL DEF Spec, GateSpec, Gate!Spec

-----------------------------------------------------------------------------
(* The client's handle *)

HandleKept ==
  clientMu # NoOne => \/ clientMu' = NoOne
                      \/ clientMu' = clientMu /\ port' \in {port, "dead"}

LEMMA ThreadHandle ==
  ASSUME NEW t \in Threads, Thread(t) \/ PollOnce(t)
  PROVE  HandleKept
<1>. USE DEF HandleKept
<1>1. CASE Connecting(t)
  BY <1>1 DEF Connecting, Close, FindFails, Open, OpenFails, CloseClient, OpenClient,
              OpenClientFails
<1>2. CASE Refreshing(t)
  BY <1>2 DEF Refreshing, Probe, Query, QueryAnswered, Drop, CloseClient, WriteGetInput,
              NotConnected, WriteFails, ReadGetInput, ReadGetInputFails
<1>3. CASE Publishing(t)
  BY <1>3 DEF Publishing, PublishDown, PublishNoPort, PublishOther, LockState,
              PublishAnswer, SetState
<1>4. CASE Considering(t)
  BY <1>4 DEF Considering, ConsiderInactive, ConsiderActive, StartCycle
<1>5. CASE PollOnce(t)
  BY <1>5 DEF PollOnce
<1>. QED BY <1>1, <1>2, <1>3, <1>4, <1>5 DEF Thread

LEMMA HandlerHandle ==
  ASSUME NEW h \in Handlers, Accept(h) \/ Handler(h)
  PROVE  HandleKept
<1>. USE DEF HandleKept
<1>1. CASE Accept(h) \/ Check(h) \/ Respond(h)
  BY <1>1 DEF Accept, Check, Respond
<1>2. CASE Send(h) \/ SendAnswered(h)
  BY <1>2 DEF Send, SendAnswered, Write, NotConnected, WriteFails, ReadReply, ReadFails,
              ConfirmFails
<1>3. CASE PublishSwitchErr(h) \/ PublishSwitchHere(h) \/ PublishSwitchAway(h)
  BY <1>3 DEF PublishSwitchErr, PublishSwitchHere, PublishSwitchAway, SetState, CloseClient
<1>. QED BY <1>1, <1>2, <1>3, ThreadHandle, NamesDiffer DEF Handler, PollAfterError

LEMMA CyclerHandle ==
  ASSUME NEW c \in Cyclers, Cycler(c)
  PROVE  HandleKept
BY DEF HandleKept, Cycler, CycleBegins, CycleCommand, CycleAnswered, CycleWakes, CycleEnds,
       Write, NotConnected, WriteFails, ReadReply, ReadFails

\* No goroutine closes or replaces the handle under a command in flight.
THEOREM HandleIsStable == Spec => HandleStable
<1>1. [Next]_vars => [HandleKept]_vars
  <2>. SUFFICES ASSUME Next PROVE HandleKept
    OBVIOUS
  <2>1. CASE MainThread
    BY <2>1, ThreadHandle, NamesDiffer
    DEF MainThread, StopServing, Exit, CloseClient, HandleKept
  <2>2. CASE PollThread
    BY <2>2, ThreadHandle, NamesDiffer DEF PollThread, Tick, PollQuits, HandleKept
  <2>3. CASE \E h \in Handlers : Accept(h) \/ Handler(h)
    BY <2>3, HandlerHandle
  <2>4. CASE \E c \in Cyclers : Cycler(c)
    BY <2>4, CyclerHandle
  <2>5. CASE Signal \/ ShutdownTimer
    BY <2>5 DEF Signal, ShutdownTimer, CancelContext, HandleKept
  <2>6. CASE Surroundings
    BY <2>6 DEF Surroundings, Environment, PanelSwitch, Unplug, Plug, HandleKept
  <2>7. CASE Restart
    BY <2>7 DEF Restart, HandleKept
  <2>. QED BY <2>1, <2>2, <2>3, <2>4, <2>5, <2>6, <2>7 DEF Next, Running
<1>. QED BY <1>1, PTL DEF Spec, HandleStable, HandleKept

-----------------------------------------------------------------------------
(* What clients are told *)

Serving == pc[Main] = "serve"

\* A goroutine publishes at labels where the main one is not serving yet, and
\* leaves the main one alone if it is another.
LEMMA PublishingServes ==
  ASSUME TypeOK, NEW t \in Threads, pc[t] # "serve", Goto(t, "consider")
  PROVE  Serving' <=> Serving
BY NamesDiffer DEF TypeOK, Serving

\* No step changes both what is published and whether it is served.
LEMMA OneAtATime ==
  ASSUME TypeOK, [Next]_vars
  PROVE  view' = view \/ (Serving' <=> Serving)
<1>1. ASSUME NEW t \in Threads, Thread(t) \/ PollOnce(t)
      PROVE  view' = view \/ (Serving' <=> Serving)
  <2>1. CASE Publishing(t)
    <3>1. LockState(t) \/ (pc[t] # "serve" /\ Goto(t, "consider"))
      BY <2>1 DEF Publishing, PublishDown, PublishNoPort, PublishOther, PublishAnswer,
                  SetState, UnlockState
    <3>. QED BY <3>1, ViewFrame, PublishingServes
  <2>. QED BY <1>1, <2>1, ViewFrame DEF Thread
<1>2. ASSUME NEW h \in Handlers, Accept(h) \/ Handler(h)
      PROVE  view' = view \/ (Serving' <=> Serving)
  <2>1. CASE PublishSwitchErr(h) \/ PublishSwitchHere(h) \/ PublishSwitchAway(h)
    <3>1. pc[h] # "serve" /\ Goto(h, "consider")
      BY <2>1 DEF PublishSwitchErr, PublishSwitchHere, PublishSwitchAway, SetState, UnlockState
    <3>. QED BY <3>1, PublishingServes, NamesDiffer
  <2>. QED BY <1>1, <1>2, <2>1, HandlerViewFrame, NamesDiffer DEF Handler
<1>3. CASE MainThread
  BY <1>1, <1>3, NamesDiffer DEF MainThread, StopServing, Exit
<1>4. CASE PollThread
  BY <1>1, <1>4, NamesDiffer DEF PollThread, Tick, PollQuits
<1>5. CASE \E c \in Cyclers : Cycler(c)
  BY <1>5, CyclerViewFrame
<1>6. CASE Signal \/ ShutdownTimer \/ Surroundings \/ UNCHANGED vars
  BY <1>6 DEF Signal, ShutdownTimer, CancelContext, Surroundings, vars
<1>7. CASE Restart
  <2>1. ~Serving /\ ~Serving'
    BY <1>7, NamesDiffer DEF Restart, Serving, InitialPC
  <2>. QED BY <2>1
<1>. QED BY <1>2, <1>3, <1>4, <1>5, <1>6, <1>7 DEF Next, Running

\* The daemon implements StateServer: each of its steps publishes a state that
\* does not contradict itself, or begins or ends serving and publishes nothing,
\* or is invisible to clients.  When it publishes is left open: the main
\* goroutine publishes before it serves, others after it stopped.
THEOREM ServerImplemented == Spec => ServerSpec
<1>1. Init => Server!Init
  BY NamesDiffer DEF Init, InitialPC, InitialView, Server!Init, Server!NothingKnown
<1>2. ASSUME TypeOK, TypeOK', ViewCoherent', [Next]_vars
      PROVE  [Server!Next]_<<pc[Main] = "serve", view>>
  <2>1. view' \in Server!Coherent
    BY <1>2 DEF TypeOK, ViewCoherent, Server!Coherent, Server!Views
  <2>2. view' = view \/ (Serving' <=> Serving)
    BY <1>2, OneAtATime
  <2>. QED BY <2>1, <2>2
           DEF Serving, Server!Next, Server!Publish, Server!Serve, Server!Stop
<1>. QED BY <1>1, <1>2, TypeCorrect, ViewIsCoherent, PTL DEF Spec, ServerSpec, Server!Spec

=============================================================================
