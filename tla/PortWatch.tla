------------------------------ MODULE PortWatch ------------------------------
(***************************************************************************)
(* Which serial port the daemon talks to: FindPort and pickPort over what  *)
(* the operating system lists, the path it remembers in cfg.Port, and the  *)
(* settings a process starts from.  The poll loop and a reconnect request  *)
(* both connect, and both read and write cfg.Port without a lock.          *)
(*                                                                         *)
(* Daemon has one port that is there or not; here there are several, some  *)
(* of them no adapter at all.  A refresh is one step: Daemon has its parts. *)
(***************************************************************************)
EXTENDS Settings, FiniteSets, Sequences, SequencesExt

CONSTANTS
  AdapterNames,  \* the names under which the adapter is listed
  Unrelated,     \* the ports of other devices, always there
  Preferred,     \* paths a user may name
  MatchedBy,     \* the patterns each name or description contains
  Rank,          \* portRank of each name
  Base,          \* filepath.Base of each path
  Wired,         \* the host input this machine is wired to
  Files,         \* what a user may write into the configuration file
  FlagSets       \* the flags processes may be given

Names == AdapterNames \cup Unrelated
Paths == Names \cup Preferred

\* A user names no port but a preferred one.
FileType ==
  [port : Preferred \cup {NoPath}, myHost : Int, poll : DurationTexts,
   socket : Sockets \cup {NoPath}, patterns : SUBSET STRING, delay : DurationTexts,
   restore : Restores]
FlagType ==
  [port : Preferred \cup {NoPath}, myHost : Int, socket : Sockets \cup {NoPath}]

ASSUME PortWatchAssumption ==
  /\ IsFiniteSet(Names)
  /\ Rank \in [Names -> 0..2]
  /\ DOMAIN MatchedBy = Names
  /\ DOMAIN Base = Paths
  /\ AdapterNames \cap Unrelated = {}
  /\ NoPath \notin Paths
  /\ Wired \in 1..2
  /\ Files \subseteq FileType
  /\ FlagSets \subseteq FlagType

Threads == {"poll", "reconnect"}

VARIABLES
  file,     \* the configuration file
  flags,    \* the flags of the running daemon
  cfg,      \* its settings, cfg.port also what it remembers; else the defaults
  plugged,  \* is the adapter enumerated?
  handle,   \* the path the client has open, or NoPath
  live,     \* is the device behind it still there?
  pc,       \* where the poll loop and the reconnect request are
  path,     \* the path each has found
  view      \* the published state

vars == <<file, flags, cfg, plugged, handle, live, pc, path, view>>
settings == <<file, flags, cfg>>

DownView == [connected |-> FALSE, active |-> FALSE]

Init ==
  /\ file \in Files
  /\ flags = NoFlags
  /\ cfg = Default
  /\ plugged \in BOOLEAN
  /\ handle = NoPath
  /\ live = FALSE
  /\ pc = [t \in Threads |-> "off"]
  /\ path = [t \in Threads |-> NoPath]
  /\ view = DownView

Goto(t, label) == pc' = [pc EXCEPT ![t] = label]

-----------------------------------------------------------------------------
(* pickPort *)

SamePort(a, b) == a = b \/ Base[a] = Base[b]

Matches(n, patterns) == MatchedBy[n] \cap patterns # {}

LastBest(best, n) ==  \* mutant: the last of equals, and dial-in before callout
  IF best = NoPath \/ Rank[n] >= Rank[best] THEN n ELSE best
Better(best, n) == IF best = NoPath \/ Rank[n] < Rank[best] THEN n ELSE best

Consider(best, n, patterns) == IF Matches(n, patterns) THEN Better(best, n) ELSE best

\* The best of the first i ports, for each i.
Best(ports, patterns) ==
  LET best[i \in 0..Len(ports)] ==
        IF i = 0 THEN NoPath ELSE Consider(best[i - 1], ports[i], patterns)
  IN  best

AnyPort(ports) == IF ports # <<>> THEN Head(ports) ELSE NoPath  \* mutant: no count
LonePort(ports) == IF Len(ports) = 1 THEN Head(ports) ELSE NoPath

PickPort(ports, preferred, patterns) ==
  LET same == SelectInSeq(ports, LAMBDA n : SamePort(n, preferred))
      best == Best(ports, patterns)[Len(ports)]
  IN  IF preferred # NoPath
      THEN IF same # 0 THEN ports[same] ELSE preferred
      ELSE IF best # NoPath THEN best ELSE LonePort(ports)

Callouts == {n \in Names : Rank[n] = 0}
OrdersOf == [S \in SUBSET Names |-> SetToSeqs(S)]

\* What may be listed: every port in some order; in a glitch, without some of the
\* callout ports, or nothing.
Present == IF plugged THEN Names ELSE Unrelated
Orders == OrdersOf[Present]
Listed == {Present \ dropped : dropped \in SUBSET Callouts} \cup {{}}
Listings == UNION {OrdersOf[S] : S \in Listed}

\* FindPort; a listing that fails yields the preferred path or nothing.
Found(preferred) ==
  {PickPort(ports, preferred, cfg.patterns) : ports \in Listings} \cup {preferred}

-----------------------------------------------------------------------------
(* The user and the adapter *)

Running == pc["poll"] # "off"

Edit ==
  /\ ~Running
  /\ file' \in Files
  /\ UNCHANGED <<flags, cfg, plugged, handle, live, pc, path, view>>

\* orei-kvm config init writes the settings in effect.
ConfigInit ==
  /\ ~Running
  /\ Loadable(file)
  /\ \E f \in FlagSets : file' = Saved(Effective(file, f))
  /\ UNCHANGED <<flags, cfg, plugged, handle, live, pc, path, view>>

\* Start begins with a tryConnect of its own, before it serves requests.
StartDaemon ==
  /\ ~Running
  /\ Loadable(file)
  /\ \E f \in FlagSets : flags' = f /\ cfg' = Effective(file, f)
  /\ Goto("poll", "close")
  /\ view' = DownView
  /\ UNCHANGED <<file, plugged, handle, live, path>>

\* The process ends; with it go its handle and what it remembered.
StopDaemon ==
  /\ Running
  /\ flags' = NoFlags
  /\ cfg' = Default
  /\ handle' = NoPath
  /\ live' = FALSE
  /\ pc' = [t \in Threads |-> "off"]
  /\ path' = [t \in Threads |-> NoPath]
  /\ view' = DownView
  /\ UNCHANGED <<file, plugged>>

Plug ==
  /\ ~plugged
  /\ plugged' = TRUE
  /\ UNCHANGED <<settings, handle, live, pc, path, view>>

Unplug ==
  /\ plugged
  /\ plugged' = FALSE
  /\ live' = (live /\ handle \in Unrelated)
  /\ UNCHANGED <<settings, handle, pc, path, view>>

-----------------------------------------------------------------------------
(* pollOnce and tryConnect *)

\* An open port is asked.
Tick ==
  /\ pc["poll"] = "idle"
  /\ Goto("poll", IF handle # NoPath THEN "ask" ELSE "look")
  /\ UNCHANGED <<settings, plugged, handle, live, path, view>>

\* A known path is tried.
Look ==
  /\ pc["poll"] = "look"
  /\ Goto("poll", IF cfg.port # NoPath THEN "close" ELSE "remember")
  /\ UNCHANGED <<settings, plugged, handle, live, path, view>>

\* Without a path a port is looked for, and remembered whatever a reconnect
\* has remembered meanwhile.
Remember ==
  /\ pc["poll"] = "remember"
  /\ \E p \in Found(NoPath) :
       \/ /\ p # NoPath
          /\ cfg' = [cfg EXCEPT !.port = p]
          /\ Goto("poll", "close")
          /\ UNCHANGED view
       \/ /\ p = NoPath
          /\ view' = DownView
          /\ Goto("poll", "idle")
          /\ UNCHANGED cfg
  /\ UNCHANGED <<file, flags, plugged, handle, live, path>>

Serve ==
  /\ pc["poll"] = "idle"
  /\ pc["reconnect"] = "off"
  /\ Goto("reconnect", "idle")
  /\ UNCHANGED <<settings, plugged, handle, live, path, view>>

Reconnect ==
  /\ pc["reconnect"] = "idle"
  /\ Goto("reconnect", "close")
  /\ UNCHANGED <<settings, plugged, handle, live, path, view>>

Close(t) ==
  /\ pc[t] = "close"
  /\ handle' = NoPath
  /\ live' = FALSE
  /\ Goto(t, "find")
  /\ UNCHANGED <<settings, plugged, path, view>>

Find(t) ==
  /\ pc[t] = "find"
  /\ \E p \in Found(cfg.port) :
       /\ path' = [path EXCEPT ![t] = p]
       /\ \/ p # NoPath /\ Goto(t, "open") /\ UNCHANGED view
          \/ p = NoPath /\ Goto(t, "idle") /\ view' = DownView
  /\ UNCHANGED <<settings, plugged, handle, live>>

\* A bare file name leads to no port, though pickPort may have found one by it.
Open(t) ==
  /\ pc[t] = "open"
  /\ path[t] \in Present
  /\ handle' = path[t]
  /\ live' = TRUE
  /\ Goto(t, "keep")
  /\ UNCHANGED <<settings, plugged, path, view>>

\* The port is gone or in use; a dial-in port may block or fail at any time.
OpenFails(t) ==
  /\ pc[t] = "open"
  /\ handle' = NoPath
  /\ live' = FALSE
  /\ view' = DownView
  /\ Goto(t, "idle")
  /\ path' = [path EXCEPT ![t] = NoPath]
  /\ UNCHANGED <<settings, plugged>>

KeepAlways(t) ==  \* mutant: the path opened replaces the one configured
  /\ pc[t] = "keep"
  /\ cfg' = [cfg EXCEPT !.port = path[t]]
  /\ path' = [path EXCEPT ![t] = NoPath]
  /\ Goto(t, "ask")
  /\ UNCHANGED <<file, flags, plugged, handle, live, view>>

\* The path that opened is remembered if none is.
Keep(t) ==
  /\ pc[t] = "keep"
  /\ cfg' = [cfg EXCEPT !.port = IF @ = NoPath THEN path[t] ELSE @]
  /\ path' = [path EXCEPT ![t] = NoPath]
  /\ Goto(t, "ask")
  /\ UNCHANGED <<file, flags, plugged, handle, live, view>>

-----------------------------------------------------------------------------
(* refreshFromDevice *)

\* The adapter names the selected input, this machine's own.
AskAnswered(t) ==
  /\ pc[t] = "ask"
  /\ live /\ handle \in AdapterNames
  /\ view' = [connected |-> TRUE, active |-> Wired = cfg.myHost]
  /\ Goto(t, "idle")
  /\ UNCHANGED <<settings, plugged, handle, live, path>>

AskSilentAnyhow(t) ==  \* mutant: an error of the port counts as silence
  /\ pc[t] = "ask"
  /\ view' = [connected |-> TRUE, active |-> TRUE]
  /\ Goto(t, "idle")
  /\ UNCHANGED <<settings, plugged, handle, live, path>>

\* Silence or a text that names no input, from the adapter or from a port that is
\* none, counts as active.
AskSilent(t) ==
  /\ pc[t] = "ask"
  /\ live
  /\ view' = [connected |-> TRUE, active |-> TRUE]
  /\ Goto(t, "idle")
  /\ UNCHANGED <<settings, plugged, handle, live, path>>

AskFailsOpen(t) ==  \* mutant: the dead handle is kept
  /\ pc[t] = "ask"
  /\ ~live
  /\ view' = DownView
  /\ Goto(t, "idle")
  /\ UNCHANGED <<settings, plugged, handle, live, path>>

\* There is no handle, or it turns out dead and is closed.
AskFails(t) ==
  /\ pc[t] = "ask"
  /\ ~live
  /\ handle' = NoPath
  /\ view' = DownView
  /\ Goto(t, "idle")
  /\ UNCHANGED <<settings, plugged, live, path>>

-----------------------------------------------------------------------------

Connect(t) == Close(t) \/ Find(t) \/ Open(t) \/ OpenFails(t) \/ Keep(t)
Ask(t) == AskAnswered(t) \/ AskSilent(t) \/ AskFails(t)
Poll == Tick \/ Look \/ Remember \/ Connect("poll") \/ Ask("poll")
Handler == Connect("reconnect") \/ Ask("reconnect")

Next ==
  \/ Edit \/ ConfigInit \/ StartDaemon \/ StopDaemon
  \/ Plug \/ Unplug
  \/ Poll \/ Serve \/ Reconnect \/ Handler

Spec == Init /\ [][Next]_vars

\* The goroutines run.  A search does not for ever meet a glitch, and a callout
\* port that is there opens in the end; of a dial-in port that is not known.
FromAll(preferred) == {PickPort(ports, preferred, cfg.patterns) : ports \in Orders}
SearchesAll ==
  \/ Remember /\ cfg'.port \in FromAll(NoPath)
  \/ Find("poll") /\ path'["poll"] \in FromAll(cfg.port)

Fairness ==
  /\ WF_vars(Poll) /\ WF_vars(Handler)
  /\ SF_vars(SearchesAll)
  /\ SF_vars(path["poll"] \in Callouts /\ Open("poll"))

FairSpec == Spec /\ Fairness

-----------------------------------------------------------------------------

\* What config init writes can be loaded, and gives a later process without flags
\* the settings that were in effect but for three: a host that is none becomes the
\* default, a ~ that a flag brought in as it is becomes the home directory, and a
\* cycle_restore of blanks, which the daemon refuses, becomes the default.
RoundTrip ==
  Loadable(file) =>
    \A f \in FlagSets :
      LET c == Effective(file, f)
      IN  /\ Loadable(Saved(c))
          /\ Load(Saved(c)) =
               [c EXCEPT !.myHost = IF @ \in 1..2 THEN @ ELSE Default.myHost,
                         !.socket = ExpandHome[@],
                         !.restore = IF @ = "" THEN Default.restore ELSE @]

\* Only a process that was given an impossible host as a flag runs with one:
\* config init may have written it to the file, no later process takes it up.
BadHostStaysInFlags ==
  Running /\ cfg.myHost \notin 1..2 => flags.myHost = cfg.myHost

\* pickPort takes the first of the matching ports that no other outranks.
PicksBest ==
  \A ports \in Orders :
    LET candidates == {i \in DOMAIN ports : Matches(ports[i], cfg.patterns)}
    IN  \A i \in candidates :
          (\A j \in candidates : Rank[ports[i]] < Rank[ports[j]]
                                \/ (Rank[ports[i]] = Rank[ports[j]] /\ i <= j))
          => PickPort(ports, NoPath, cfg.patterns) = ports[i]

Given == Effective(file, flags).port

\* May a listing, complete or not, show this port and no other?
MayBeAlone(p) ==
  \E there \in {Names, Unrelated}, dropped \in SUBSET Callouts : there \ dropped = {p}

\* A daemon that was given no port neither opens nor remembers one that matches
\* none of its patterns, unless the port can be the only one that is listed.
OnlyMatching ==
  Running /\ Given = NoPath =>
    \A p \in {handle, cfg.port} \ {NoPath} : Matches(p, cfg.patterns) \/ MayBeAlone(p)

\* A daemon told which port to use keeps to it, under whatever prefix it is
\* listed, through reconnects that race with the poll loop.
ConfiguredPort ==
  Running /\ Given # NoPath =>
    /\ cfg.port = Given
    /\ handle # NoPath => SamePort(handle, Given)

Settled == Running /\ pc["reconnect"] = "idle"

\* Is this a name of the adapter's callout port?
Aims(p) == \E n \in AdapterNames \cap Callouts : SamePort(n, p)

\* The daemon remembers or holds another port than that, or its patterns do not
\* match it.
Astray ==
  \/ cfg.port # NoPath /\ ~Aims(cfg.port)
  \/ handle # NoPath /\ ~Aims(handle)
  \/ cfg.port = NoPath /\ \A n \in AdapterNames \cap Callouts : ~Matches(n, cfg.patterns)

\* An adapter that stays is found and opened and the state says so, connected and,
\* if my_host is how the machine is wired, active; or the daemon is astray for good:
\* a glitch made it remember the dial-in port, or another device matched first.
FindsAdapter ==
  <>[](plugged /\ Settled) =>
    \/ <>[]Astray
    \/ <>[](/\ live /\ handle \in AdapterNames
            /\ view.connected /\ (cfg.myHost = Wired => view.active))

\* "The daemon polls for port presence and treats disappearance as this machine
\* is inactive": once the adapter is gone for good the state says so, except of a
\* daemon that holds the port of another device, whose silence counts as active.
InactiveUnlessTaken ==
  <>[](~plugged /\ Settled) => <>[]~view.active \/ <>[](live /\ handle \in Unrelated)

=============================================================================
