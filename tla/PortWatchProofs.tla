--------------------------- MODULE PortWatchProofs ---------------------------
(***************************************************************************)
(* Theorems about the settings a process starts from and the port it talks *)
(* to, for any ports, files and flags.                                     *)
(***************************************************************************)
EXTENDS PortWatch, LeastNumbers, FiniteSetTheorems, TLAPS

\* What pickPort makes of a preferred port is that port, by whatever name.
LEMMA PickedIsPreferred ==
  ASSUME NEW ports, Len(ports) \in Nat, NEW preferred, preferred # NoPath, NEW patterns
  PROVE  SamePort(PickPort(ports, preferred, patterns), preferred)
<1>. DEFINE I == {i \in 1..Len(ports) : SamePort(ports[i], preferred)}
<1>1. CASE I = {}
  BY <1>1 DEF PickPort, SelectInSeq, SamePort
<1>2. CASE I # {}
  <2>0. I \in SUBSET Nat
    OBVIOUS
  <2>1. Min(I) \in I
    <3>. HIDE DEF I
    <3>. QED BY <1>2, <2>0, LeastMember
  <2>2. Min(I) # 0 /\ SamePort(ports[Min(I)], preferred)
    BY <2>1
  <2>3. PickPort(ports, preferred, patterns) = ports[Min(I)]
    BY <1>2, <2>2 DEF PickPort, SelectInSeq
  <2>. QED BY <2>2, <2>3
<1>. QED BY <1>1, <1>2

\* Every listing is a sequence of ports; one of a single port shows one that may be
\* alone.
LEMMA ListingsAreFinite ==
  \A ports \in Listings :
    /\ ports \in Seq(Names) /\ Len(ports) \in Nat
    /\ Len(ports) = 1 => MayBeAlone(ports[1])
<1>1. IsFiniteSet(Names)
  BY PortWatchAssumption DEF PortWatchAssumption
<1>2. ASSUME NEW S \in SUBSET Names, NEW ports \in SetToSeqs(S)
      PROVE  ports \in Seq(S) /\ Len(ports) \in Nat /\ (Len(ports) = 1 => S = {ports[1]})
  <2>1. IsFiniteSet(S) /\ Cardinality(S) \in Nat
    BY <1>1, FS_Subset, FS_CardinalityType
  <2>2. ports \in [1..Cardinality(S) -> S]
    BY <1>2 DEF SetToSeqs
  <2>3. ports \in Seq(S)
    BY <2>1, <2>2
  <2>4. Len(ports) = Cardinality(S)
    BY <2>1, <2>2, <2>3
  <2>5. ASSUME Cardinality(S) = 1 PROVE S = {ports[1]}
    <3>1. ports[1] \in S
      BY <2>2, <2>5
    <3>2. PICK x : S = {x}
      BY <2>1, <2>5, FS_Singleton
    <3>. QED BY <3>1, <3>2
  <2>. QED BY <2>1, <2>3, <2>4, <2>5
<1>3. ASSUME NEW S \in Listed, NEW ports \in OrdersOf[S]
      PROVE  ports \in Seq(Names) /\ Len(ports) \in Nat
             /\ (Len(ports) = 1 => MayBeAlone(ports[1]))
  <2>1. S \in SUBSET Names /\ Present \in {Names, Unrelated}
    BY DEF Listed, Present, Names
  <2>2. ports \in SetToSeqs(S)
    BY <2>1 DEF OrdersOf
  <2>3. ports \in Seq(S) /\ Len(ports) \in Nat /\ (Len(ports) = 1 => S = {ports[1]})
    BY <1>2, <2>1, <2>2
  <2>4. ports \in Seq(Names)
    BY <2>1, <2>3
  <2>5. S # {} => \E dropped \in SUBSET Callouts : S = Present \ dropped
    BY DEF Listed
  <2>. QED BY <2>1, <2>3, <2>4, <2>5 DEF MayBeAlone
<1>. QED BY <1>3 DEF Listings

-----------------------------------------------------------------------------
(* The loop over the listed ports *)

\* What Best is defined by.
IsLoop(b, N, ports, patterns) ==
  b = [i \in 0..N |-> IF i = 0 THEN NoPath ELSE Consider(b[i - 1], ports[i], patterns)]

\* There is such a function: the first bound for which there is none would extend
\* the one before it.
LEMMA LoopRuns ==
  ASSUME NEW N \in Nat, NEW ports, NEW patterns
  PROVE  \E b : IsLoop(b, N, ports, patterns)
<1>. DEFINE Next1(b, i) == IF i = 0 THEN NoPath ELSE Consider(b[i - 1], ports[i], patterns)
            Loop(b, n) == b = [i \in 0..n |-> b[i]] /\ \A i \in 0..n : b[i] = Next1(b, i)
            Stuck == {n \in 0..N : ~ \E b : Loop(b, n)}
<1>1. ASSUME Stuck # {} PROVE FALSE
  <2>0. Stuck \in SUBSET Nat
    OBVIOUS
  <2>1. PICK n \in Stuck : \A m \in Stuck : n <= m
    BY <1>1, <2>0, LeastMember
  <2>. n \in 0..N /\ ~ \E b : Loop(b, n)
    OBVIOUS
  <2>2. CASE n = 0
    <3>. DEFINE g == [i \in 0..0 |-> NoPath]
    <3>1. g = [i \in 0..0 |-> g[i]] /\ \A i \in 0..0 : g[i] = NoPath /\ i = 0
      OBVIOUS
    <3>. HIDE DEF g
    <3>2. Loop(g, 0)
      BY <3>1
    <3>. QED BY <2>2, <3>2
  <2>3. CASE n # 0
    <3>1. n - 1 \in 0..N /\ n - 1 \notin Stuck
      <4>. HIDE DEF Stuck
      <4>. QED BY <2>1, <2>3
    <3>2. PICK h : Loop(h, n - 1)
      BY <3>1
    <3>. DEFINE g == [i \in 0..n |-> Next1(h, i)]
    <3>3. \A i \in 0..n : g[i] = Next1(h, i)
      OBVIOUS
    <3>4. g = [i \in 0..n |-> g[i]]
      OBVIOUS
    <3>. HIDE DEF g
    <3>5. \A i \in 0..(n - 1) : g[i] = h[i]
      <4>. HIDE DEF Next1
      <4>1. \A i \in 0..(n - 1) : h[i] = Next1(h, i)
        BY <3>2
      <4>2. \A i \in 0..(n - 1) : i \in 0..n
        BY <3>1
      <4>. QED BY <3>3, <4>1, <4>2
    <3>6. \A i \in 1..n : i - 1 \in 0..(n - 1)
      BY <3>1
    <3>7. \A i \in 0..n : Next1(g, i) = Next1(h, i)
      BY <3>5, <3>6
    <3>8. Loop(g, n)
      BY <3>3, <3>4, <3>7
    <3>. QED BY <3>8
  <2>. QED BY <2>2, <2>3
<1>2. PICK b : Loop(b, N)
  BY <1>1
<1>3. b = [i \in 0..N |-> Next1(b, i)]
  BY <1>2
<1>. QED BY <1>3 DEF IsLoop

LEMMA BestStep ==
  ASSUME NEW ports, Len(ports) \in Nat, NEW patterns, NEW i \in 0..Len(ports)
  PROVE  Best(ports, patterns)[i] =
           IF i = 0 THEN NoPath
           ELSE Consider(Best(ports, patterns)[i - 1], ports[i], patterns)
<1>. DEFINE b == Best(ports, patterns)
<1>1. b = CHOOSE f : IsLoop(f, Len(ports), ports, patterns)
  BY DEF Best, IsLoop
<1>. HIDE DEF b
<1>2. IsLoop(b, Len(ports), ports, patterns)
  BY <1>1, LoopRuns
<1>3. b[i] = IF i = 0 THEN NoPath ELSE Consider(b[i - 1], ports[i], patterns)
  BY <1>2 DEF IsLoop
<1>. QED BY <1>3 DEF b

\* The loop invariant: of the first n ports the best is the first among those that
\* match and that none outranks.
IsBest(best, ports, patterns, n) ==
  LET candidates == {i \in 1..n : Matches(ports[i], patterns)}
  IN  \/ best = NoPath /\ candidates = {}
      \/ \E i \in candidates :
           /\ best = ports[i]
           /\ \A j \in candidates : Rank[ports[i]] < Rank[ports[j]]
                                    \/ (Rank[ports[i]] = Rank[ports[j]] /\ i <= j)

LEMMA BestIsBest ==
  ASSUME NEW ports \in Seq(Names), NEW patterns
  PROVE  IsBest(Best(ports, patterns)[Len(ports)], ports, patterns, Len(ports))
<1>. DEFINE N == Len(ports)
            b == Best(ports, patterns)
            Wrong == {n \in 0..N : ~ IsBest(b[n], ports, patterns, n)}
<1>0. N \in Nat /\ \A i \in 1..N : ports[i] \in Names
  OBVIOUS
<1>1. \A i \in 1..N : Rank[ports[i]] \in Nat /\ ports[i] # NoPath
  BY <1>0, PortWatchAssumption DEF PortWatchAssumption, Paths
<1>. HIDE DEF N
<1>2. \A i \in 0..N :
        b[i] = IF i = 0 THEN NoPath ELSE Consider(b[i - 1], ports[i], patterns)
  BY <1>0, BestStep DEF N
<1>. HIDE DEF b
<1>3. ASSUME Wrong # {} PROVE FALSE
  <2>0. Wrong \in SUBSET Nat
    BY <1>0
  <2>1. PICK n \in Wrong : \A m \in Wrong : n <= m
    BY <1>3, <2>0, LeastMember
  <2>. n \in 0..N /\ ~ IsBest(b[n], ports, patterns, n)
    OBVIOUS
  <2>2. n # 0
    <3>1. b[0] = NoPath
      BY <1>0, <1>2
    <3>2. {i \in 1..0 : Matches(ports[i], patterns)} = {}
      OBVIOUS
    <3>3. IsBest(b[0], ports, patterns, 0)
      BY <3>1, <3>2 DEF IsBest
    <3>. QED BY <3>3
  <2>3. n \in 1..N /\ n - 1 \in 0..N /\ IsBest(b[n - 1], ports, patterns, n - 1)
    BY <1>0, <2>1, <2>2
  <2>4. b[n] = Consider(b[n - 1], ports[n], patterns)
    BY <1>2, <2>3
  <2>5. CASE ~ Matches(ports[n], patterns)
    <3>1. {i \in 1..n : Matches(ports[i], patterns)}
            = {i \in 1..(n - 1) : Matches(ports[i], patterns)}
      BY <2>3, <2>5, <1>0
    <3>2. b[n] = b[n - 1]
      BY <2>4, <2>5 DEF Consider
    <3>3. IsBest(b[n], ports, patterns, n)
      BY <2>3, <3>1, <3>2 DEF IsBest
    <3>. QED BY <3>3
  <2>6. CASE Matches(ports[n], patterns)
    <3>. DEFINE C == {i \in 1..(n - 1) : Matches(ports[i], patterns)}
    <3>1. {i \in 1..n : Matches(ports[i], patterns)} = C \cup {n} /\ n \notin C
      BY <2>3, <2>6, <1>0
    <3>2. b[n] = Better(b[n - 1], ports[n])
      BY <2>4, <2>6 DEF Consider
    <3>3. CASE b[n - 1] = NoPath
      <4>1. C = {}
        <5>1. \A i \in C : ports[i] # NoPath
          BY <1>0, <1>1, <2>3
        <5>. QED BY <2>3, <3>3, <5>1 DEF IsBest
      <4>2. b[n] = ports[n]
        BY <3>2, <3>3 DEF Better
      <4>. QED BY <1>1, <2>3, <3>1, <4>1, <4>2 DEF IsBest
    <3>4. CASE b[n - 1] # NoPath
      <4>1. PICK i \in C :
              /\ b[n - 1] = ports[i]
              /\ \A j \in C : Rank[ports[i]] < Rank[ports[j]]
                              \/ (Rank[ports[i]] = Rank[ports[j]] /\ i <= j)
        BY <2>3, <3>4 DEF IsBest
      <4>2. i \in 1..N /\ i < n /\ C \subseteq 1..N
        BY <1>0, <2>3
      <4>3. CASE Rank[ports[n]] < Rank[ports[i]]
        <5>1. b[n] = ports[n]
          BY <3>2, <4>1, <4>3 DEF Better
        <5>2. \A j \in C : Rank[ports[n]] < Rank[ports[j]]
          <6>. SUFFICES ASSUME NEW j \in C PROVE Rank[ports[n]] < Rank[ports[j]]
            OBVIOUS
          <6>1. Rank[ports[n]] \in Nat /\ Rank[ports[i]] \in Nat /\ Rank[ports[j]] \in Nat
            BY <1>1, <2>3, <4>2
          <6>2. Rank[ports[i]] <= Rank[ports[j]]
            BY <4>1, <6>1
          <6>. QED BY <4>3, <6>1, <6>2
        <5>. QED BY <3>1, <5>1, <5>2, <2>3 DEF IsBest
      <4>4. CASE ~ (Rank[ports[n]] < Rank[ports[i]])
        <5>1. b[n] = ports[i]
          BY <3>2, <3>4, <4>1, <4>4 DEF Better
        <5>2. Rank[ports[i]] < Rank[ports[n]]
              \/ (Rank[ports[i]] = Rank[ports[n]] /\ i <= n)
          BY <1>1, <2>3, <4>2, <4>4
        <5>. QED BY <3>1, <4>1, <5>1, <5>2 DEF IsBest
      <4>. QED BY <4>3, <4>4
    <3>. QED BY <3>3, <3>4
  <2>. QED BY <2>5, <2>6
<1>4. N \notin Wrong
  BY <1>3
<1>. QED BY <1>0, <1>4 DEF N, b

-----------------------------------------------------------------------------
(* Settings *)

SettingsType ==
  [port : Preferred \cup {NoPath}, myHost : Int, poll : Int, socket : Sockets,
   patterns : SUBSET STRING, delay : Int, restore : Restores]

LEMMA EffectiveType ==
  ASSUME NEW raw \in FileType, Loadable(raw), NEW f \in FlagType
  PROVE  LET c == Effective(raw, f)
         IN  /\ c \in SettingsType
             /\ c.poll > 0 /\ c.patterns # {}
             /\ Trimmed[c.restore] = c.restore
             /\ c.myHost \in 1..2 \/ c.myHost = f.myHost
<1>. USE DEF FileType, FlagType, SettingsType, DurationTexts, Loadable
<1>1. Host(raw) \in 1..2
  BY DEF Host, Default
<1>2. PollInterval(raw) \in Int /\ PollInterval(raw) > 0
  BY DEF PollInterval, Default
<1>3. Delay(raw) \in Int
  BY DEF Delay, Default
<1>4. Socket(raw) \in Sockets
  BY SettingsAssumption DEF SettingsAssumption, Socket, Default
<1>5. Restore(raw) \in Restores /\ Trimmed[Restore(raw)] = Restore(raw)
  BY SettingsAssumption DEF SettingsAssumption, Restore, Default
<1>. DEFINE L == Load(raw)
<1>6. /\ L \in SettingsType /\ L.myHost \in 1..2 /\ L.poll > 0 /\ L.patterns # {}
      /\ Trimmed[L.restore] = L.restore
  <2>. DEFINE patterns == IF raw.patterns = {} THEN Default.patterns ELSE raw.patterns
  <2>1. raw.port \in Preferred \cup {NoPath} /\ patterns \in SUBSET STRING /\ patterns # {}
    BY SettingsAssumption DEF SettingsAssumption, Default
  <2>2. L = [port |-> raw.port, myHost |-> Host(raw), poll |-> PollInterval(raw),
             socket |-> Socket(raw), patterns |-> patterns, delay |-> Delay(raw),
             restore |-> Restore(raw)]
    BY DEF Load
  <2>. HIDE DEF L, patterns
  <2>. QED BY <1>1, <1>2, <1>3, <1>4, <1>5, <2>1, <2>2
<1>. HIDE DEF L
<1>. QED BY <1>6 DEF Effective, WithFlags, L

LEMMA SavedIs ==
  ASSUME NEW c \in SettingsType
  PROVE  Saved(c) =
           [port |-> c.port, myHost |-> c.myHost, poll |-> Text(c.poll), socket |-> c.socket,
            patterns |-> c.patterns, delay |-> Text(c.delay), restore |-> c.restore]
<1>1. Saved(c) \in [port : {c.port}, myHost : {c.myHost}, poll : {Text(c.poll)},
                   socket : {c.socket}, patterns : {c.patterns}, delay : {Text(c.delay)},
                   restore : {c.restore}]
  BY DEF SettingsType, Saved
<1>. QED BY <1>1

LEMMA SavedType ==
  ASSUME NEW c \in SettingsType
  PROVE  Saved(c) \in FileType /\ Loadable(Saved(c))
<1>. DEFINE s == Saved(c)
<1>1. /\ c.port \in Preferred \cup {NoPath} /\ c.myHost \in Int /\ c.socket \in Sockets
      /\ c.patterns \in SUBSET STRING /\ c.restore \in Restores
      /\ c.poll \in Int /\ c.delay \in Int
  BY DEF SettingsType
<1>2. Text(c.poll) \in [duration : Int] /\ Text(c.delay) \in [duration : Int]
  BY <1>1 DEF Text
<1>. HIDE DEF s
<1>3. s \in FileType
  BY <1>1, <1>2, SavedIs DEF FileType, DurationTexts, s
<1>4. s.poll # Malformed /\ s.delay # Malformed
  <2>1. s.poll = Text(c.poll) /\ s.delay = Text(c.delay)
    BY SavedIs DEF s
  <2>2. Malformed \notin [duration : Int]
    BY SettingsAssumption DEF SettingsAssumption
  <2>. QED BY <1>2, <2>1, <2>2
<1>. QED BY <1>3, <1>4 DEF Loadable, s

\* What Load makes of what Save wrote, key by key.
LEMMA SavedIsLoaded ==
  ASSUME NEW c \in SettingsType, c.poll > 0, c.patterns # {}, Trimmed[c.restore] = c.restore
  PROVE  Load(Saved(c)) =
           [c EXCEPT !.myHost = IF @ \in 1..2 THEN @ ELSE Default.myHost,
                     !.socket = ExpandHome[@],
                     !.restore = IF @ = "" THEN Default.restore ELSE @]
<1>. DEFINE s == Saved(c)
<1>1. /\ s.port = c.port /\ s.myHost = c.myHost /\ s.socket = c.socket
      /\ s.patterns = c.patterns /\ s.restore = c.restore
      /\ s.poll = Text(c.poll) /\ s.delay = Text(c.delay)
  BY SavedIs
<1>. HIDE DEF s
<1>2. /\ Text(c.poll) # Absent /\ Text(c.poll).duration = c.poll
      /\ Text(c.delay) # Absent /\ Text(c.delay).duration = c.delay
  <2>1. Text(c.poll) \in [duration : Int] /\ Text(c.delay) \in [duration : Int]
    BY DEF SettingsType, Text
  <2>2. Absent \notin [duration : Int]
    BY SettingsAssumption DEF SettingsAssumption
  <2>. QED BY <2>1, <2>2 DEF Text
<1>3. PollInterval(s) = c.poll /\ Delay(s) = c.delay
  BY <1>1, <1>2 DEF PollInterval, Delay
<1>4. Socket(s) = ExpandHome[c.socket]
  <2>1. c.socket \in Sockets
    BY DEF SettingsType
  <2>2. NoPath \notin Sockets
    BY SettingsAssumption DEF SettingsAssumption
  <2>3. s.socket = c.socket
    BY <1>1
  <2>. QED BY ONLY <2>1, <2>2, <2>3 DEF Socket
<1>5. Restore(s) = IF c.restore = "" THEN Default.restore ELSE c.restore
  BY <1>1 DEF Restore
<1>6. Host(s) = IF c.myHost \in 1..2 THEN c.myHost ELSE Default.myHost
  BY <1>1 DEF Host
<1>7. Load(s) = [port |-> c.port, myHost |-> Host(s), poll |-> c.poll,
                 socket |-> ExpandHome[c.socket], patterns |-> c.patterns,
                 delay |-> c.delay, restore |-> Restore(s)]
  BY <1>1, <1>3, <1>4 DEF Load
<1>. DEFINE changed ==
              [c EXCEPT !.myHost = Host(s), !.socket = ExpandHome[@], !.restore = Restore(s)]
<1>8. changed \in [port : {c.port}, myHost : {Host(s)}, poll : {c.poll},
                  socket : {ExpandHome[c.socket]}, patterns : {c.patterns},
                  delay : {c.delay}, restore : {Restore(s)}]
  BY DEF SettingsType
<1>. HIDE DEF changed
<1>9. changed = Load(s)
  BY <1>7, <1>8
<1>. QED BY <1>5, <1>6, <1>9 DEF s, changed

-----------------------------------------------------------------------------
(* The daemon's port *)

Labels == {"off", "idle", "look", "remember", "close", "find", "open", "keep", "ask"}

\* Of types, what the proofs need; nothing is known of the paths.
Shapes ==
  /\ file \in FileType /\ flags \in FlagType
  /\ pc \in [Threads -> Labels]
  /\ path \in [Threads -> {path[t] : t \in Threads}]
  /\ cfg \in [port : {cfg.port}, myHost : {cfg.myHost}, poll : {cfg.poll},
              socket : {cfg.socket}, patterns : {cfg.patterns}, delay : {cfg.delay},
              restore : {cfg.restore}]

\* Nothing of a process outlives it.
AtRest ==
  ~Running => /\ handle = NoPath
              /\ \A t \in Threads : pc[t] = "off" /\ path[t] = NoPath

\* A host that is none comes from a flag.
HostKept == Running => cfg.myHost \in 1..2 \/ cfg.myHost = flags.myHost

\* A daemon that was given a port has it in its settings, looks for no other,
\* and whatever path it has found or opened is that port's.
PortKept ==
  Running /\ Given # NoPath =>
    /\ cfg.port = Given
    /\ pc["poll"] # "remember"
    /\ handle # NoPath => SamePort(handle, Given)
    /\ \A t \in Threads : path[t] # NoPath => SamePort(path[t], Given)

WatchInv == Shapes /\ AtRest /\ HostKept /\ PortKept

USE DEF Threads, Goto, settings

LEMMA InitWatch == Init => WatchInv
<1>. SUFFICES ASSUME Init PROVE WatchInv
  OBVIOUS
<1>1. file \in FileType /\ flags \in FlagType
  BY PortWatchAssumption DEF PortWatchAssumption, Init, NoFlags, FlagType
<1>2. cfg \in [port : {cfg.port}, myHost : {cfg.myHost}, poll : {cfg.poll},
               socket : {cfg.socket}, patterns : {cfg.patterns}, delay : {cfg.delay},
               restore : {cfg.restore}]
  BY DEF Init, Default
<1>3. pc \in [Threads -> Labels] /\ path \in [Threads -> {path[t] : t \in Threads}]
  BY DEF Init, Labels
<1>4. ~Running /\ AtRest
  BY DEF Init, Running, AtRest
<1>. QED BY <1>1, <1>2, <1>3, <1>4 DEF WatchInv, Shapes, HostKept, PortKept

\* Between processes, a file of the same kind.
LEMMA FileInv ==
  ASSUME WatchInv, Edit \/ ConfigInit
  PROVE  WatchInv'
<1>1. file' \in FileType
  BY PortWatchAssumption, EffectiveType, SavedType
  DEF PortWatchAssumption, Edit, ConfigInit, WatchInv, Shapes
<1>2. ~Running /\ UNCHANGED <<flags, cfg, plugged, handle, live, pc, path, view>>
  BY DEF Edit, ConfigInit
<1>3. ~Running'
  BY <1>2 DEF Running
<1>. QED BY <1>1, <1>2, <1>3 DEF WatchInv, Shapes, AtRest, HostKept, PortKept

LEMMA ProcessInv ==
  ASSUME WatchInv, StartDaemon \/ StopDaemon
  PROVE  WatchInv'
<1>1. CASE StartDaemon
  <2>1. PICK f \in FlagSets : flags' = f /\ cfg' = Effective(file, f)
    BY <1>1 DEF StartDaemon
  <2>2. f \in FlagType /\ file \in FileType /\ Loadable(file)
    BY <1>1, PortWatchAssumption DEF PortWatchAssumption, WatchInv, Shapes, StartDaemon
  <2>3. /\ pc' = [pc EXCEPT !["poll"] = "close"]
        /\ UNCHANGED <<file, plugged, handle, live, path>>
        /\ handle = NoPath /\ \A t \in Threads : path[t] = NoPath
    BY <1>1 DEF StartDaemon, WatchInv, AtRest
  <2>4. cfg' \in SettingsType /\ (cfg'.myHost \in 1..2 \/ cfg'.myHost = f.myHost)
    BY <2>1, <2>2, EffectiveType
  <2>5. Shapes'
    BY <2>1, <2>2, <2>3, <2>4 DEF WatchInv, Shapes, SettingsType, Labels
  <2>6. AtRest' /\ HostKept'
    BY <2>1, <2>3, <2>4 DEF WatchInv, Shapes, AtRest, HostKept, Running
  <2>7. PortKept'
    BY <2>1, <2>3 DEF WatchInv, Shapes, PortKept, Given
  <2>. QED BY <2>5, <2>6, <2>7 DEF WatchInv
<1>2. CASE StopDaemon
  <2>1. /\ file' = file /\ flags' = NoFlags /\ cfg' = Default /\ handle' = NoPath
        /\ pc' = [t \in Threads |-> "off"] /\ path' = [t \in Threads |-> NoPath]
    BY <1>2 DEF StopDaemon
  <2>2. Shapes'
    <3>1. cfg' \in [port : {cfg'.port}, myHost : {cfg'.myHost}, poll : {cfg'.poll},
                    socket : {cfg'.socket}, patterns : {cfg'.patterns},
                    delay : {cfg'.delay}, restore : {cfg'.restore}]
      BY <2>1 DEF Default
    <3>. QED BY <2>1, <3>1 DEF WatchInv, Shapes, NoFlags, FlagType, Labels
  <2>3. ~Running' /\ AtRest'
    BY <2>1 DEF Running, AtRest
  <2>. QED BY <2>2, <2>3 DEF WatchInv, HostKept, PortKept
<1>. QED BY <1>1, <1>2

\* Plugging moves none of the daemon's own state.
LEMMA CableInv ==
  ASSUME WatchInv, Plug \/ Unplug
  PROVE  WatchInv'
<1>1. UNCHANGED <<file, flags, cfg, handle, pc, path>>
  BY DEF Plug, Unplug
<1>. QED BY <1>1 DEF WatchInv, Shapes, AtRest, HostKept, PortKept, Running, Given

\* A step of a running process that leaves settings, handle and paths alone keeps
\* the invariant, if it does not send the poll loop looking for a port.
LEMMA MoveInv ==
  ASSUME WatchInv, Running, NEW t \in Threads, NEW label \in Labels \ {"off"},
         Goto(t, label), UNCHANGED <<settings, path>>,
         handle' = handle \/ handle' = NoPath,
         t = "poll" /\ label = "remember" => cfg.port = NoPath
  PROVE  WatchInv'
<1>1. Running' /\ pc' \in [Threads -> Labels]
  BY DEF WatchInv, Shapes, Running, Labels
<1>2. Shapes'
  BY <1>1 DEF WatchInv, Shapes
<1>3. pc'["poll"] = "remember" => pc["poll"] = "remember" \/ cfg.port = NoPath
  BY DEF WatchInv, Shapes
<1>. QED BY <1>1, <1>2, <1>3 DEF WatchInv, AtRest, HostKept, PortKept, Running, Given

\* A thread at work belongs to a process that runs.
LEMMA AtWork ==
  ASSUME WatchInv, NEW t \in Threads, pc[t] # "off"
  PROVE  Running
BY DEF WatchInv, AtRest

LEMMA TickInv ==
  ASSUME WatchInv, Tick \/ Look \/ Serve \/ Reconnect
  PROVE  WatchInv'
<1>1. CASE Tick
  BY <1>1, AtWork, MoveInv DEF Tick, Labels
<1>2. CASE Look
  BY <1>2, AtWork, MoveInv DEF Look, Labels
<1>3. CASE Reconnect
  BY <1>3, AtWork, MoveInv DEF Reconnect, Labels
<1>4. CASE Serve
  <2>1. Running  BY <1>4, AtWork DEF Serve
  <2>. QED BY <1>4, <2>1, MoveInv DEF Serve, Labels
<1>. QED BY <1>1, <1>2, <1>3, <1>4

LEMMA AskInv ==
  ASSUME WatchInv, NEW t \in Threads, Ask(t)
  PROVE  WatchInv'
<1>1. /\ pc[t] = "ask" /\ Goto(t, "idle") /\ UNCHANGED <<settings, path>>
      /\ handle' = handle \/ handle' = NoPath
  BY DEF Ask, AskAnswered, AskSilent, AskFails
<1>. QED BY <1>1, AtWork, MoveInv DEF Labels

\* A daemon that was given a port never gets here.
LEMMA RememberInv ==
  ASSUME WatchInv, Remember
  PROVE  WatchInv'
<1>1. pc["poll"] = "remember" /\ Running
  BY DEF Remember, Running
<1>2. Given = NoPath
  BY <1>1 DEF WatchInv, PortKept
<1>3. PICK p : /\ cfg' = [cfg EXCEPT !.port = p] \/ cfg' = cfg
               /\ Goto("poll", "close") \/ Goto("poll", "idle")
  BY DEF Remember
<1>4. UNCHANGED <<file, flags, handle, path>>
  BY DEF Remember
<1>5. Shapes' /\ Running' /\ cfg'.myHost = cfg.myHost
  BY <1>3, <1>4 DEF WatchInv, Shapes, Running, Labels
<1>. QED
  BY <1>1, <1>2, <1>4, <1>5 DEF WatchInv, AtRest, HostKept, PortKept, Given

LEMMA ConnectInv ==
  ASSUME WatchInv, NEW t \in Threads, Connect(t)
  PROVE  WatchInv'
<1>. /\ pc \in [Threads -> Labels] /\ path \in [Threads -> {path[u] : u \in Threads}]
     /\ AtRest /\ HostKept /\ PortKept
  BY DEF WatchInv, Shapes
<1>0. pc[t] # "off" /\ Running
  BY AtWork DEF Connect, Close, Find, Open, OpenFails, Keep
<1>1. CASE Close(t)
  BY <1>0, <1>1, MoveInv DEF Close, Labels
<1>2. CASE Find(t)
  <2>1. PICK p \in Found(cfg.port) :
          /\ path' = [path EXCEPT ![t] = p]
          /\ Goto(t, "open") \/ Goto(t, "idle")
    BY <1>2 DEF Find
  <2>2. UNCHANGED <<settings, handle>>
    BY <1>2 DEF Find
  <2>3. cfg.port # NoPath => SamePort(p, cfg.port)
    BY ListingsAreFinite, PickedIsPreferred DEF Found, SamePort
  <2>4. Shapes' /\ Running'
    BY <1>0, <2>1, <2>2 DEF WatchInv, Shapes, Running, Labels
  <2>5. pc'["poll"] # "remember" \/ pc["poll"] = "remember"
    BY <2>1
  <2>6. PortKept'
    BY <1>0, <2>1, <2>2, <2>3, <2>4, <2>5 DEF PortKept, Given
  <2>. QED BY <1>0, <2>2, <2>4, <2>6 DEF WatchInv, AtRest, HostKept
<1>3. CASE Open(t)
  <2>1. handle' = path[t] /\ Goto(t, "keep") /\ UNCHANGED <<settings, path>>
    BY <1>3 DEF Open
  <2>2. Shapes' /\ Running' /\ (pc'["poll"] # "remember" \/ pc["poll"] = "remember")
    BY <1>0, <2>1 DEF WatchInv, Shapes, Running, Labels
  <2>. QED BY <1>0, <2>1, <2>2 DEF WatchInv, AtRest, HostKept, PortKept, Given
<1>4. CASE OpenFails(t)
  <2>1. /\ handle' = NoPath /\ Goto(t, "idle") /\ path' = [path EXCEPT ![t] = NoPath]
        /\ UNCHANGED settings
    BY <1>4 DEF OpenFails
  <2>2. Shapes' /\ Running' /\ (pc'["poll"] # "remember" \/ pc["poll"] = "remember")
    BY <1>0, <2>1 DEF WatchInv, Shapes, Running, Labels
  <2>. QED BY <1>0, <2>1, <2>2 DEF WatchInv, AtRest, HostKept, PortKept, Given
<1>5. CASE Keep(t)
  <2>1. /\ cfg' = [cfg EXCEPT !.port = IF @ = NoPath THEN path[t] ELSE @]
        /\ Goto(t, "ask") /\ path' = [path EXCEPT ![t] = NoPath]
        /\ UNCHANGED <<file, flags, handle>>
    BY <1>5 DEF Keep
  <2>2. Shapes' /\ Running' /\ (pc'["poll"] # "remember" \/ pc["poll"] = "remember")
    BY <1>0, <2>1 DEF WatchInv, Shapes, Running, Labels
  <2>3. cfg'.myHost = cfg.myHost /\ (cfg.port # NoPath => cfg'.port = cfg.port)
    BY <2>1 DEF WatchInv, Shapes
  <2>. QED BY <1>0, <2>1, <2>2, <2>3 DEF WatchInv, AtRest, HostKept, PortKept, Given
<1>. QED BY <1>1, <1>2, <1>3, <1>4, <1>5 DEF Connect

LEMMA NextWatch == WatchInv /\ [Next]_vars => WatchInv'
<1>. SUFFICES ASSUME WatchInv, [Next]_vars PROVE WatchInv'
  OBVIOUS
<1>1. CASE UNCHANGED vars
  BY <1>1 DEF vars, WatchInv, Shapes, AtRest, HostKept, PortKept, Running, Given
<1>2. CASE Edit \/ ConfigInit
  BY <1>2, FileInv
<1>3. CASE StartDaemon \/ StopDaemon
  BY <1>3, ProcessInv
<1>4. CASE Plug \/ Unplug
  BY <1>4, CableInv
<1>5. CASE Tick \/ Look \/ Serve \/ Reconnect
  BY <1>5, TickInv
<1>6. CASE Remember
  BY <1>6, RememberInv
<1>7. ASSUME NEW t \in Threads, Connect(t) \/ Ask(t) PROVE WatchInv'
  BY <1>7, ConnectInv, AskInv
<1>. QED
  BY <1>1, <1>2, <1>3, <1>4, <1>5, <1>6, <1>7 DEF Next, Poll, Handler

-----------------------------------------------------------------------------
(* The ports that are taken *)

\* Listed ports differ in their file names, as the entries of one directory do.
NamesDiffer == \A m, n \in Names : SamePort(m, n) => m = n

\* A port that a search without a preferred one may yield.
Suits(p, patterns) == p \in Names /\ (Matches(p, patterns) \/ MayBeAlone(p))
NoneOrSuits(p) == p = NoPath \/ Suits(p, cfg.patterns)

\* Whatever a daemon without a given port has found, opened or remembered suits.
SuitInv ==
  Running /\ Given = NoPath =>
    /\ NoneOrSuits(handle) /\ NoneOrSuits(cfg.port)
    /\ \A t \in Threads : NoneOrSuits(path[t])

LEMMA SearchSuits ==
  ASSUME NEW p \in Found(NoPath)
  PROVE  NoneOrSuits(p)
<1>1. CASE p = NoPath
  BY <1>1 DEF NoneOrSuits
<1>2. ASSUME NEW ports \in Listings, p = PickPort(ports, NoPath, cfg.patterns)
      PROVE  NoneOrSuits(p)
  <2>. DEFINE best == Best(ports, cfg.patterns)[Len(ports)]
  <2>1. /\ ports \in Seq(Names) /\ Len(ports) \in Nat
        /\ Len(ports) = 1 => MayBeAlone(ports[1])
    BY ListingsAreFinite
  <2>2. IsBest(best, ports, cfg.patterns, Len(ports))
    BY <2>1, BestIsBest
  <2>3. p = IF best # NoPath THEN best ELSE LonePort(ports)
    BY <1>2 DEF PickPort
  <2>. HIDE DEF best
  <2>4. CASE best # NoPath
    <3>1. PICK i \in 1..Len(ports) : Matches(ports[i], cfg.patterns) /\ best = ports[i]
      BY <2>2, <2>4 DEF IsBest
    <3>. QED BY <2>1, <2>3, <2>4, <3>1 DEF Suits, NoneOrSuits
  <2>5. CASE best = NoPath
    BY <2>1, <2>3, <2>5 DEF LonePort, Suits, NoneOrSuits
  <2>. QED BY <2>4, <2>5
<1>. QED BY <1>1, <1>2 DEF Found

\* One that was remembered is found again, or tried though it is not listed.
LEMMA FoundSuits ==
  ASSUME NamesDiffer, NEW preferred, NoneOrSuits(preferred),
         NEW p \in Found(preferred)
  PROVE  NoneOrSuits(p)
<1>1. CASE preferred = NoPath
  BY <1>1, SearchSuits
<1>2. CASE preferred # NoPath
  <2>1. CASE p = preferred
    BY <2>1
  <2>2. ASSUME NEW ports \in Listings, p = PickPort(ports, preferred, cfg.patterns)
        PROVE  Suits(p, cfg.patterns)
    <3>. DEFINE I == {i \in 1..Len(ports) : SamePort(ports[i], preferred)}
    <3>1. ports \in Seq(Names) /\ Len(ports) \in Nat
      BY ListingsAreFinite
    <3>2. CASE I = {}
      BY <1>2, <2>2, <3>2 DEF PickPort, SelectInSeq, NoneOrSuits
    <3>3. CASE I # {}
      <4>1. Min(I) \in I
        <5>1. I \in SUBSET Nat  OBVIOUS
        <5>. HIDE DEF I
        <5>. QED BY <3>3, <5>1, LeastMember
      <4>2. p = ports[Min(I)]
        BY <1>2, <2>2, <3>3, <4>1 DEF PickPort, SelectInSeq
      <4>3. p \in Names /\ SamePort(p, preferred)
        BY <3>1, <4>1, <4>2
      <4>. QED BY <1>2, <4>3 DEF NamesDiffer, Suits, NoneOrSuits
    <3>. QED BY <3>2, <3>3
  <2>. QED BY <2>1, <2>2 DEF Found, NoneOrSuits
<1>. QED BY <1>1, <1>2

\* A step of a running process after which all it has suits.
LEMMA StepSuits ==
  ASSUME Running, UNCHANGED <<file, flags>>, cfg'.patterns = cfg.patterns,
         Given = NoPath =>
           /\ NoneOrSuits(handle') /\ NoneOrSuits(cfg'.port)
           /\ \A t \in Threads : NoneOrSuits(path'[t])
  PROVE  SuitInv'
BY DEF SuitInv, Given, NoneOrSuits

LEMMA ConnectSuits ==
  ASSUME NamesDiffer, WatchInv, SuitInv, NEW t \in Threads, Connect(t)
  PROVE  SuitInv'
<1>0. Running /\ Shapes
  BY AtWork DEF WatchInv, Connect, Close, Find, Open, OpenFails, Keep
<1>1. Given = NoPath =>
        /\ NoneOrSuits(handle) /\ NoneOrSuits(cfg.port)
        /\ \A u \in Threads : NoneOrSuits(path[u])
  BY <1>0 DEF SuitInv
<1>2. NoneOrSuits(NoPath)
  BY DEF NoneOrSuits
<1>3. CASE Close(t)
  BY <1>0, <1>1, <1>2, <1>3, StepSuits DEF Close
<1>4. CASE Find(t)
  <2>1. PICK p \in Found(cfg.port) : path' = [path EXCEPT ![t] = p]
    BY <1>4 DEF Find
  <2>2. Given = NoPath => NoneOrSuits(p)
    BY <1>1, FoundSuits
  <2>3. UNCHANGED <<settings, handle>>
    BY <1>4 DEF Find
  <2>4. Given = NoPath => \A u \in Threads : NoneOrSuits(path'[u])
    BY <1>0, <1>1, <2>1, <2>2 DEF Shapes
  <2>. QED BY <1>0, <1>1, <2>3, <2>4, StepSuits
<1>5. CASE Open(t)
  BY <1>0, <1>1, <1>5, StepSuits DEF Open
<1>6. CASE OpenFails(t)
  <2>1. Given = NoPath => \A u \in Threads : NoneOrSuits(path'[u])
    BY <1>0, <1>1, <1>2, <1>6 DEF OpenFails, Shapes
  <2>. QED BY <1>0, <1>1, <1>2, <1>6, <2>1, StepSuits DEF OpenFails
<1>7. CASE Keep(t)
  <2>1. Given = NoPath => \A u \in Threads : NoneOrSuits(path'[u])
    BY <1>0, <1>1, <1>2, <1>7 DEF Keep, Shapes
  <2>2. cfg'.patterns = cfg.patterns /\ cfg'.port \in {cfg.port, path[t]}
    BY <1>0, <1>7 DEF Keep, Shapes
  <2>3. Given = NoPath => NoneOrSuits(cfg'.port)
    BY <1>1, <2>2
  <2>. QED BY <1>0, <1>1, <1>7, <2>1, <2>2, <2>3, StepSuits DEF Keep
<1>. QED BY <1>3, <1>4, <1>5, <1>6, <1>7 DEF Connect

LEMMA NextSuits ==
  ASSUME NamesDiffer, WatchInv, SuitInv, [Next]_vars
  PROVE  SuitInv'
<1>. Shapes /\ AtRest
  BY DEF WatchInv
<1>1. CASE Edit \/ ConfigInit \/ StopDaemon
  <2>1. ~Running'
    BY <1>1 DEF Edit, ConfigInit, StopDaemon, Running
  <2>. QED BY <2>1 DEF SuitInv
<1>2. CASE StartDaemon
  <2>1. cfg'.port = Given' /\ handle' = NoPath /\ \A t \in Threads : path'[t] = NoPath
    BY <1>2 DEF StartDaemon, AtRest, Given
  <2>. QED BY <2>1 DEF SuitInv, NoneOrSuits
<1>3. CASE Remember
  <2>1. PICK p \in Found(NoPath) : cfg' = [cfg EXCEPT !.port = p] \/ cfg' = cfg
    BY <1>3 DEF Remember
  <2>2. Running /\ UNCHANGED <<file, flags, handle, path>>
    BY <1>3 DEF Remember, Running
  <2>3. NoneOrSuits(p)
    BY SearchSuits
  <2>4. cfg'.port \in {p, cfg.port} /\ cfg'.patterns = cfg.patterns
    BY <2>1 DEF Shapes
  <2>. QED BY <2>2, <2>3, <2>4, StepSuits DEF SuitInv
<1>4. ASSUME NEW t \in Threads, Connect(t) PROVE SuitInv'
  BY <1>4, ConnectSuits
<1>5. ASSUME NEW t \in Threads, Ask(t) PROVE SuitInv'
  <2>1. Running /\ UNCHANGED <<settings, path>> /\ handle' \in {handle, NoPath}
    BY <1>5, AtWork DEF Ask, AskAnswered, AskSilent, AskFails
  <2>. QED BY <2>1, StepSuits DEF SuitInv, NoneOrSuits
<1>6. CASE Plug \/ Unplug \/ UNCHANGED vars
  BY <1>6 DEF Plug, Unplug, vars, SuitInv, NoneOrSuits, Running, Given
<1>7. CASE Tick \/ Look \/ Serve \/ Reconnect
  <2>1. Running /\ UNCHANGED <<settings, handle, path>>
    BY <1>7, AtWork DEF Tick, Look, Serve, Reconnect
  <2>. QED BY <2>1, StepSuits DEF SuitInv
<1>. QED
  BY <1>1, <1>2, <1>3, <1>4, <1>5, <1>6, <1>7 DEF Next, Poll, Handler

-----------------------------------------------------------------------------
(* Theorems *)

\* The files keep their kind, nothing of a process outlives it, and its host and
\* port are what file and flags gave it.
THEOREM WatchCorrect == Spec => []WatchInv
<1>. QED BY InitWatch, NextWatch, PTL DEF Spec

\* What config init writes can be loaded, and differs from the settings that were in
\* effect in nothing but a host that is none, a literal ~ and a blank cycle_restore,
\* for every file and all flags.
THEOREM SettingsSurvive == Spec => []RoundTrip
<1>1. WatchInv => RoundTrip
  <2>. SUFFICES ASSUME WatchInv, Loadable(file), NEW f \in FlagSets
                PROVE  LET c == Effective(file, f)
                       IN  /\ Loadable(Saved(c))
                           /\ Load(Saved(c)) =
                                [c EXCEPT !.myHost = IF @ \in 1..2 THEN @ ELSE Default.myHost,
                                          !.socket = ExpandHome[@],
                                          !.restore = IF @ = "" THEN Default.restore ELSE @]
    BY DEF RoundTrip
  <2>. DEFINE c == Effective(file, f)
  <2>1. file \in FileType /\ f \in FlagType
    BY PortWatchAssumption DEF PortWatchAssumption, WatchInv, Shapes
  <2>2. c \in SettingsType /\ c.poll > 0 /\ c.patterns # {} /\ Trimmed[c.restore] = c.restore
    BY <2>1, EffectiveType
  <2>. HIDE DEF c
  <2>3. Loadable(Saved(c))
    BY <2>2, SavedType
  <2>4. Load(Saved(c)) = [c EXCEPT !.myHost = IF @ \in 1..2 THEN @ ELSE Default.myHost,
                                   !.socket = ExpandHome[@],
                                   !.restore = IF @ = "" THEN Default.restore ELSE @]
    BY <2>2, SavedIsLoaded
  <2>. QED BY <2>3, <2>4 DEF c
<1>. QED BY <1>1, WatchCorrect, PTL

\* A daemon runs with an impossible host only if its own flag said so.
THEOREM BadHostIsAFlag == Spec => []BadHostStaysInFlags
<1>1. WatchInv => BadHostStaysInFlags
  BY DEF WatchInv, HostKept, BadHostStaysInFlags
<1>. QED BY <1>1, WatchCorrect, PTL

\* Poll loop and reconnect, which share cfg.Port without a lock, never lead a daemon
\* away from the port it was given.
THEOREM GivenPortIsKept == Spec => []ConfiguredPort
<1>1. WatchInv => ConfiguredPort
  BY DEF WatchInv, PortKept, Given, ConfiguredPort
<1>. QED BY <1>1, WatchCorrect, PTL

\* The loop of pickPort finds the first of the matching ports that no other outranks,
\* whatever is listed in whatever order.
THEOREM BestIsPicked == Spec => []PicksBest
<1>1. PicksBest
  <2>. SUFFICES ASSUME NEW ports \in Orders, NEW i \in DOMAIN ports,
                       Matches(ports[i], cfg.patterns),
                       \A j \in DOMAIN ports : Matches(ports[j], cfg.patterns) =>
                         Rank[ports[i]] < Rank[ports[j]]
                         \/ (Rank[ports[i]] = Rank[ports[j]] /\ i <= j)
                PROVE  PickPort(ports, NoPath, cfg.patterns) = ports[i]
    BY DEF PicksBest
  <2>. DEFINE best == Best(ports, cfg.patterns)[Len(ports)]
  <2>1. ports \in Seq(Names) /\ Len(ports) \in Nat /\ DOMAIN ports = 1..Len(ports)
    <3>1. Orders = OrdersOf[Present \ {}] /\ Present \ {} \in Listed
      BY DEF Orders, Listed
    <3>2. ports \in Listings
      BY <3>1 DEF Listings
    <3>. QED BY <3>2, ListingsAreFinite
  <2>2. \A j \in 1..Len(ports) : Rank[ports[j]] \in Nat /\ ports[j] # NoPath
    BY <2>1, PortWatchAssumption DEF PortWatchAssumption, Paths
  <2>3. IsBest(best, ports, cfg.patterns, Len(ports))
    BY <2>1, BestIsBest
  <2>. HIDE DEF best
  <2>4. best = ports[i]
    BY <2>1, <2>2, <2>3 DEF IsBest
  <2>. QED BY <2>1, <2>2, <2>4 DEF PickPort, best
<1>. QED BY <1>1, PTL

\* A daemon that was given no port keeps off every port that matches none of its
\* patterns, unless that can be the only one listed, if listed ports have different
\* file names.  It does not keep off other devices that do match.
THEOREM UnmatchedAreLeftAlone ==
  ASSUME NamesDiffer
  PROVE  Spec => []OnlyMatching
<1>1. SuitInv => OnlyMatching
  BY DEF SuitInv, NoneOrSuits, Suits, OnlyMatching
<1>2. Init => SuitInv
  BY DEF Init, Running, SuitInv
<1>3. WatchInv /\ SuitInv /\ [Next]_vars => SuitInv'
  BY NextSuits
<1>. QED BY <1>1, <1>2, <1>3, WatchCorrect, PTL DEF Spec

=============================================================================
