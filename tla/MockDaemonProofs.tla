-------------------------- MODULE MockDaemonProofs --------------------------
(***************************************************************************)
(* Theorems about the daemon on the simulated switch, for any number of    *)
(* handlers and either my_host.                                            *)
(***************************************************************************)
EXTENDS MockDaemon, TLAPS

Labels ==
  {"idle", "poll", "close", "open", "probe", "query", "drop", "publish", "downKeep",
   "downZero", "downOther", "connected", "gone", "check", "send", "switchOk", "switchErr",
   "respond", "start", "serve", "closing", "exited"}

\* What dispatch lets through to the switch names an input of it, and the
\* published state never contradicts itself.
MockInv ==
  /\ TypeOK
  /\ pc \in [Threads -> Labels]
  /\ \A h \in Handlers :
       pc[h] \in {"check", "send"} /\ req[h].op \in Switching => req[h].host \in Hosts
  /\ view \in Server!Coherent

Serving == pc[Main] = "serve"

USE DEF Goto

LEMMA NamesDiffer ==
  /\ \A h \in Handlers : h \in Threads /\ h # Main /\ h # Poll
  /\ {Main, Poll} \subseteq Threads
  /\ MyHost \in Hosts /\ Other \in Hosts /\ Other # MyHost
BY MockAssumption DEF MockAssumption, Threads, Main, Poll, Other, Hosts

LEMMA CoherentIs ==
  \A v : v \in Server!Coherent <=>
    /\ v \in View
    /\ v.iAmActive => v.activeHost = MyHost
    /\ v.connected => (v.iAmActive <=> v.activeHost = MyHost)
BY DEF Server!Coherent, Server!Views, View

LEMMA InitMock == Init => MockInv /\ Server!Init
<1>. SUFFICES ASSUME Init PROVE MockInv /\ Server!Init
  OBVIOUS
<1>1. pc \in [Threads -> Labels] /\ ~Serving /\ \A h \in Handlers : pc[h] = "idle"
  BY NamesDiffer DEF Init, Labels, Serving
<1>2. view = InitialView /\ InitialView \in View /\ InitialView = Server!NothingKnown
  BY DEF Init, InitialView, View, Server!NothingKnown
<1>3. TypeOK
  BY <1>2, NamesDiffer DEF Init, TypeOK, StateRequest, RequestType, Ops
<1>. QED BY <1>1, <1>2, <1>3, CoherentIs DEF MockInv, InitialView, Server!Init, Serving

\* A goroutine moves on; no new request reaches the switch.
LEMMA MoveInv ==
  ASSUME MockInv, NEW t \in Threads, NEW l \in Labels \ {"check", "send"}, Goto(t, l),
         host' \in Hosts, connected' \in BOOLEAN, view' \in Server!Coherent,
         UNCHANGED <<req, cancelled>>
  PROVE  MockInv'
<1>1. TypeOK'
  BY CoherentIs DEF MockInv, TypeOK
<1>2. pc' \in [Threads -> Labels] /\ \A u \in Threads : pc'[u] = IF u = t THEN l ELSE pc[u]
  BY DEF MockInv
<1>3. \A h \in Handlers :
        pc'[h] \in {"check", "send"} /\ req'[h].op \in Switching => req'[h].host \in Hosts
  BY <1>2, NamesDiffer DEF MockInv
<1>. QED BY <1>1, <1>2, <1>3 DEF MockInv

\* What a step does to those who look at the daemon or the switch.
Effect ==
  /\ MockInv'
  /\ view' = view \/ (Serving' <=> Serving)
  /\ host = Other => host' = Other

LEMMA PublishEffect ==
  ASSUME MockInv, NEW t \in Threads, pc[t] # "serve",
         NEW v \in Server!Coherent, Publish(t, v)
  PROVE  Effect
<1>1. Return(t) \in Labels \ {"check", "send", "serve"}
  BY DEF Return, Labels
<1>2. MockInv'
  BY <1>1, MoveInv DEF Publish, MockInv, TypeOK
<1>3. Serving' <=> Serving
  BY <1>1, NamesDiffer DEF Publish, Serving, MockInv
<1>. QED BY <1>2, <1>3 DEF Effect, Publish

LEMMA DisconnectEffect ==
  ASSUME MockInv, NEW t \in Threads, NEW l \in Labels \ {"check", "send"}, Disconnect(t, l)
  PROVE  Effect
<1>1. MockInv'
  BY MoveInv DEF Disconnect, MockInv, TypeOK
<1>. QED BY <1>1 DEF Effect, Disconnect

LEMMA QuietEffect ==
  ASSUME MockInv, NEW t \in Threads, NEW l \in Labels \ {"check", "send"}, Goto(t, l),
         UNCHANGED <<host, connected, view, req, cancelled>>
  PROVE  Effect
<1>1. MockInv'
  BY MoveInv DEF MockInv, TypeOK
<1>. QED BY <1>1 DEF Effect

LEMMA DownCoherent ==
  ASSUME NEW v \in View
  PROVE  /\ Down(v) \in Server!Coherent
         /\ [Down(v) EXCEPT !.activeHost = Unknown] \in Server!Coherent
BY CoherentIs DEF Down, View

LEMMA ActiveCoherent == ActiveView \in Server!Coherent /\ AwayView \in Server!Coherent
BY CoherentIs, NamesDiffer DEF ActiveView, AwayView, View

LEMMA ThreadEffect ==
  ASSUME MockInv, NEW t \in Threads, Thread(t) \/ Polling(t) \/ PollOnce(t)
  PROVE  Effect
<1>0. view \in View
  BY DEF MockInv, TypeOK
<1>1. CASE Close(t) \/ Drop(t) \/ Gone(t)
  BY <1>1, DisconnectEffect DEF Close, Drop, Gone, Labels
<1>2. CASE Open(t)
  <2>1. MockInv'
    BY <1>2, MoveInv DEF Open, MockInv, TypeOK, Labels, PortPresent
  <2>. QED BY <1>2, <2>1 DEF Open, Effect
<1>3. CASE Probe(t) \/ Connected(t) \/ PollOnce(t)
  BY <1>3, QuietEffect DEF Probe, Connected, PollOnce, Labels
<1>4. CASE Query(t)
  BY <1>4, QuietEffect, DisconnectEffect DEF Query, Labels
<1>5. CASE PublishActive(t) \/ PublishOther(t)
  BY <1>5, ActiveCoherent, PublishEffect DEF PublishActive, PublishOther
<1>6. CASE PublishDown(t) \/ PublishNoPort(t)
  BY <1>0, <1>6, DownCoherent, PublishEffect DEF PublishDown, PublishNoPort
<1>. QED BY <1>1, <1>2, <1>3, <1>4, <1>5, <1>6 DEF Thread, Polling

LEMMA HandlerEffect ==
  ASSUME MockInv, NEW h \in Handlers, Accept(h) \/ Handler(h)
  PROVE  Effect
<1>. USE NamesDiffer
<1>0. /\ TypeOK /\ view \in View /\ view \in Server!Coherent
      /\ req[h] \in RequestType /\ pc \in [Threads -> Labels]
  BY DEF MockInv, TypeOK
<1>1. CASE Accept(h)
  <2>1. PICK r \in Requests : req' = [req EXCEPT ![h] = r] /\ Goto(h, Route(r))
    BY <1>1 DEF Accept
  <2>2. r \in RequestType /\ Route(r) \in Labels
        /\ (Route(r) = "check" /\ r.op \in Switching => r.host \in Hosts)
    BY MockAssumption DEF MockAssumption, Route, Labels, Switching
  <2>3. UNCHANGED <<host, connected, view, cancelled>>
    BY <1>1 DEF Accept
  <2>4. TypeOK'
    BY <1>0, <2>1, <2>2, <2>3 DEF TypeOK
  <2>5. pc' \in [Threads -> Labels]
    BY <1>0, <2>1, <2>2
  <2>6. \A g \in Handlers :
          pc'[g] \in {"check", "send"} /\ req'[g].op \in Switching => req'[g].host \in Hosts
    <3>. TAKE g \in Handlers
    <3>1. CASE g = h
      <4>1. pc'[g] = Route(r) /\ req'[g] = r /\ Route(r) # "send"
        BY <1>0, <2>1, <3>1 DEF TypeOK, Route
      <4>. QED BY <2>2, <4>1
    <3>2. CASE g # h
      <4>1. pc'[g] = pc[g] /\ req'[g] = req[g]  BY <1>0, <2>1, <3>2 DEF TypeOK
      <4>. QED BY <4>1 DEF MockInv
    <3>. QED BY <3>1, <3>2
  <2>. QED BY <1>0, <2>3, <2>4, <2>5, <2>6 DEF MockInv, Effect
<1>2. CASE Check(h)
  <2>1. UNCHANGED <<host, connected, view, req, cancelled>> /\ pc[h] = "check"
        /\ pc' \in [Threads -> Labels]
        /\ \A g \in Handlers : g # h => pc'[g] = pc[g]
    BY <1>0, <1>2 DEF Check, Labels
  <2>2. MockInv'
    BY <1>0, <2>1 DEF MockInv, TypeOK
  <2>. QED BY <2>1, <2>2 DEF Effect
<1>3. CASE Send(h)
  <2>1. OnReply(req[h]) \in Labels \ {"check", "send"}
        /\ OnError(req[h]) \in Labels \ {"check", "send"}
    BY DEF OnReply, OnError, Labels
  <2>2. CASE ~Live
    BY <1>3, <2>1, <2>2, DisconnectEffect DEF Send
  <2>3. CASE Live
    <3>1. Selected(req[h]) \in Hosts
      BY <1>0, <1>3 DEF Send, Selected, MockInv, TypeOK, Hosts
    <3>2. /\ host' = Selected(req[h]) /\ connected' \in BOOLEAN
          /\ Goto(h, OnReply(req[h])) /\ UNCHANGED <<view, req, cancelled>>
      BY <1>3, <2>3 DEF Send, Disconnect
    <3>3. MockInv'
      BY <1>0, <2>1, <3>1, <3>2, MoveInv
    <3>. QED BY <2>3, <3>2, <3>3 DEF Live, PortPresent, Effect
  <2>. QED BY <2>2, <2>3
<1>4. CASE PollAfterError(h)
  BY <1>4, ThreadEffect DEF PollAfterError
<1>5. CASE PublishSwitchErr(h)
  <2>1. [connected |-> FALSE, iAmActive |-> req[h].host = MyHost, activeHost |-> req[h].host]
          \in Server!Coherent
    BY <1>0, CoherentIs DEF View, RequestType
  <2>. QED BY <1>5, <2>1, PublishEffect DEF PublishSwitchErr
<1>6. CASE PublishSwitchHere(h)
  <2>1. [view EXCEPT !.iAmActive = TRUE, !.activeHost = MyHost] \in Server!Coherent
    BY <1>0, CoherentIs DEF View
  <2>. QED BY <1>6, <2>1, PublishEffect DEF PublishSwitchHere
<1>7. CASE PublishSwitchAway(h)
  <2>1. Serving' <=> Serving
    BY <1>0, <1>7 DEF PublishSwitchAway, Serving
  <2>2. MockInv'
    BY <1>0, <1>7, ActiveCoherent, MoveInv DEF PublishSwitchAway, Labels, TypeOK
  <2>. QED BY <1>7, <2>1, <2>2 DEF PublishSwitchAway, Effect
<1>8. CASE Respond(h)
  <2>1. /\ UNCHANGED <<host, connected, view, cancelled>>
        /\ pc' = [pc EXCEPT ![h] = "idle"] /\ req' = [req EXCEPT ![h] = StateRequest]
    BY <1>8 DEF Respond
  <2>2. StateRequest \in RequestType
    BY DEF StateRequest, RequestType, Ops
  <2>3. TypeOK' /\ pc' \in [Threads -> Labels]
    BY <1>0, <2>1, <2>2 DEF TypeOK, Labels
  <2>4. \A g \in Handlers : pc'[g] # "idle" => pc'[g] = pc[g] /\ req'[g] = req[g]
    BY <1>0, <2>1 DEF TypeOK
  <2>5. MockInv'
    BY <1>0, <2>1, <2>3, <2>4 DEF MockInv
  <2>. QED BY <2>1, <2>5 DEF Effect
<1>. QED BY <1>1, <1>2, <1>3, <1>4, <1>5, <1>6, <1>7, <1>8, ThreadEffect DEF Handler

LEMMA RestartInv ==
  ASSUME MockInv, Restart
  PROVE  MockInv' /\ ~Serving /\ ~Serving'
<1>1. pc' \in [Threads -> Labels] /\ ~Serving' /\ \A h \in Handlers : pc'[h] = "idle"
  BY NamesDiffer DEF Restart, Labels, Serving
<1>2. view' \in Server!Coherent
  BY CoherentIs DEF Restart, InitialView, View
<1>3. TypeOK'
  BY <1>2, CoherentIs, NamesDiffer DEF Restart, TypeOK, StateRequest, RequestType, Ops
<1>. QED BY <1>1, <1>2, <1>3 DEF MockInv, Restart, Serving

LEMMA NextEffect == MockInv /\ [Next]_vars => Effect \/ (MockInv' /\ Restart)
<1>. SUFFICES ASSUME MockInv, [Next]_vars, ~Restart PROVE Effect
  BY RestartInv
<1>. USE NamesDiffer
<1>1. CASE UNCHANGED vars
  BY <1>1 DEF vars, Effect, MockInv, TypeOK, Serving
<1>2. CASE MainThread
  <2>1. CASE StartServing \/ StopServing
    BY <2>1, QuietEffect DEF StartServing, StopServing, Labels
  <2>2. CASE Exit
    BY <2>2, DisconnectEffect DEF Exit, Labels
  <2>. QED BY <1>2, <2>1, <2>2, ThreadEffect DEF MainThread
<1>3. CASE PollThread
  <2>1. CASE Tick
    BY <2>1, ThreadEffect, QuietEffect DEF Tick, Labels
  <2>. QED BY <1>3, <2>1, ThreadEffect DEF PollThread
<1>4. CASE \E h \in Handlers : Accept(h) \/ Handler(h)
  BY <1>4, HandlerEffect
<1>5. CASE Cancel
  BY <1>5 DEF Cancel, Effect, MockInv, TypeOK, Serving
<1>. QED BY <1>1, <1>2, <1>3, <1>4, <1>5 DEF Next

-----------------------------------------------------------------------------

\* Every goroutine is at a place of the program, what it is about to send to the
\* switch was validated, and the published state does not contradict itself.
THEOREM MockCorrect == Spec => []MockInv
<1>1. MockInv /\ [Next]_vars => MockInv'
  BY NextEffect DEF Effect
<1>. QED BY <1>1, InitMock, PTL DEF Spec

\* The mock switch always selects one of its inputs, and what it publishes and
\* is asked stays within the protocol.
THEOREM TypeCorrect == Spec => []TypeOK
<1>1. MockInv => TypeOK
  BY DEF MockInv
<1>. QED BY <1>1, MockCorrect, PTL

\* Once away, the mock switch is back here only with a new process, whatever the
\* commands that were checked before it left.
THEOREM NeverSwitchesBack == Spec => NoSwitchBack
<1>1. MockInv /\ [Next]_vars => [host = Other => host' = Other \/ pc[Main] = "exited"]_vars
  BY NextEffect DEF Effect, Restart
<1>. QED BY <1>1, MockCorrect, PTL DEF Spec, NoSwitchBack

\* The mock implements StateServer too: what it publishes does not contradict
\* itself, and serving begins and ends in steps that publish nothing.
THEOREM ServerImplemented == Spec => ServerSpec
<1>1. Init => Server!Init
  BY InitMock
<1>2. MockInv /\ [Next]_vars => [Server!Next]_<<pc[Main] = "serve", view>>
  <2>. SUFFICES ASSUME MockInv, [Next]_vars
                PROVE  [Server!Next]_<<pc[Main] = "serve", view>>
    OBVIOUS
  <2>1. view' \in Server!Coherent
    BY NextEffect DEF Effect, MockInv
  <2>2. view' = view \/ (Serving' <=> Serving)
    BY NextEffect, RestartInv DEF Effect
  <2>. QED BY <2>1, <2>2 DEF Serving, Server!Next, Server!Publish, Server!Serve, Server!Stop
<1>. QED BY <1>1, <1>2, MockCorrect, PTL DEF Spec, ServerSpec, Server!Spec

=============================================================================
