# A verification development for orei-kvm

`orei-kvm` is a command line, a background daemon and a system tray for the OREI
USB3-EX2H330R-K, a switch that connects one set of screens and USB devices to one of two
hosts. The switch is commanded over RS-232 through an adapter that itself sits on a switched
USB port, so **a machine can talk to the switch only while the switch selects that machine**.
Most of what is hard about the program follows from that sentence: the link goes away as a
consequence of a successful command, its absence is information, and a handle can be open,
dead and not yet known to be dead.

This directory holds TLA+ modules translated from the Go source, TLC configurations that
check them on small instances, and proofs for the TLA+ proof system. Paths below are those of
the repository (`internal/...`, `cmd/...`).

## 1. Inventory

| Component | State | Operations | Talks to |
|---|---|---|---|
| Daemon, `internal/daemon/daemon.go` | `state` under `mu`; `sawInactive`, `cycling` under `cycleMu`; `cfg.Port`, unguarded; `ln`, `cancel` | `Start`, `Shutdown`, `setState`, `considerUSBCycle`, `cycleUSBAfterSwitch`, `tryConnect`, `refreshFromDevice`, `pollLoop`, `pollOnce`, `serve`, `handleConn`, `dispatch`, `setHost`, `runCommand` | serial client; IPC clients |
| Serial client, `internal/serial/client.go` | `port`, `path` under `mu` | `Open`, `Close`, `Connected`, `Path`, `Command`, `CommandWithConfirm` | the adapter |
| Port discovery, same file | none | `ListPorts`, `FindPort`, `pickPort`, `PortExists` | the operating system |
| Device facade, `internal/device/device.go` | none | one getter or setter per command; `CycleRXUSBD`, `CycleTXUSBD` | a client |
| Protocol, `internal/protocol/commands.go` | none | command builders, parsers, validators | – |
| IPC, `internal/ipc/ipc.go` | the socket file | `Call`, `IsDaemonUp`, `RemoveStaleSocket` | daemon |
| Command line, `cmd/orei-kvm/main.go` | process flags, `cfg` | `daemon`, `tray`, `host`, `rx-usbd cycle`, ... | IPC, or the device directly |
| Tray, `internal/tray` | what it last displayed | poll, set host, reconnect, quit | IPC |
| Mock, `internal/mock/device.go` | a simulated switch | `Handle`, a client with the same interface | – |
| Configuration, `internal/config/config.go` | a YAML file | `Load`, `Save`, `NormalizeCycleSide` | – |

Interactions. The daemon runs a main goroutine, a poll loop, one goroutine per IPC connection
and now and then a goroutine that power-cycles USB ports. All share one serial client, whose
mutex is held for a whole command and its reply. They publish to one `state`; every
publication ends with `considerUSBCycle` on a copy taken under `mu` and used after it. Two of
the mutations passed to `setState` call the client, so `mu` may be held while waiting for the
client's mutex. Processes meet at the socket path.

What is hard to test, and what would make each component correct:

- *Published state*: five places write it, from three kinds of goroutine. It must never
  contradict itself (`ViewCoherent`) and must come to say what the switch does
  (`ConvergesActive`, `ConvergesInactive`), though an answer may be published after a
  newer fact.
- *Client*: nobody may close or replace a handle another goroutine's command is using
  (`HandleStable`).
- *Power-cycle gate*: one cycle at a time (`OneCycle`), each paid for by an inactivity
  reported since the one before (`GateSpec`), none forgotten (`CycleServed`).
- *Requests and shutdown*: two mutexes, one taken inside the other, with waits on hardware
  inside both (`RequestServed`, `ShutdownCompletes`).
- *Power cycles*: a command without an answer counts as done. A port is left off only by a cycle
  that reported an error or took silence for the answer to its restore (`OffIsOwed`), ports nobody
  named stay up (`OnlyCovered`), success with an answer means restored (`DoneMeansRestored`).
- *Socket*: one daemon serves (`OneDaemon`), it is the one clients reach (`Reachable`), a
  stale file keeps nobody out (`RefusedOnlyIfUp`), quitting ends the process (`QuitExits`).
- *Serial exchange*: an answer does not say which command it belongs to. A command must get its
  own (`OwnReply`, `HostIsCurrent`), its mutex must come free (`CommandReturns`), and a late
  answer must not put the line out of step for good (`Resynchronises`).
- *Port discovery*: the listing's order must not decide (`PicksBest`), an adapter that stays must be
  found unless the daemon has gone astray for good (`FindsAdapter`), a port that no pattern matches must
  not be taken beside others (`OnlyMatching`), a port the user named is kept (`ConfiguredPort`), and a
  machine without the adapter is inactive unless another device's port is held (`InactiveUnlessTaken`).
- *Configuration*: what `config init` writes means to the next process what it meant to this one, with
  three exceptions that are exactly known (`RoundTrip`), and an impossible host stays with the process
  that was given it (`BadHostStaysInFlags`).
- *Mock*: it must behave as the switch does towards the daemon: no switching back without the
  port (`NoSwitchBack`), a state that follows (`StatusFollows`).
- *Tray*: one menu, updated by several goroutines from answers of different age (`MenuFollows`,
  `MenuGoesDead`, `TwoMarksGo`).

`PROJECT.json` lists each hazard at its line with the properties aimed at it, and says why
where there is none.

## 2. Modules

**KvmLink** – the environment and the serial client. `input` is what the switch selects,
`plugged` whether the operating system enumerates the adapter here, `port` is `Client.port`
with the distinction the code cannot see: nil, live, or *dead* (opened before the adapter
left). `clientMu` is `Client.mu`. A command is two steps under the mutex: `Write...`, when the
switch acts, and `Read...`, when the caller learns of it; the environment moves in between.
`PanelSwitch`, `Unplug` and `Plug` model what happens outside the program: the switch moves
without this daemon, and the operating system notices late. A reply may be empty or garbled (`ReadGetInput`),
`readResponse` may report a disconnect and leave the handle in place (`ReadFails`), a write on a
dead handle drops it (`WriteFails`). `Connected()` is a test of `port = "nil"` made with the
mutex free.

**Daemon** – extends KvmLink with the daemon on real hardware. `pc` gives each goroutine a
label at every point where the code takes or drops a mutex or calls the client; what runs
between two such points is one action. Correspondence:

| Code | Actions |
|---|---|
| `tryConnect` | `Close`, `FindFails`, `Open`, `OpenFails`, `PublishNoPort` |
| `refreshFromDevice` | `Probe`, `Query`, `QueryAnswered`, `Drop`, `PublishDown`, `PublishAnswer` |
| `setState` | `SetState` when the mutation calls nothing; `LockState`, then the mutation's action with `UnlockState`, when it calls the client |
| `considerUSBCycle` | `ConsiderInactive`, `ConsiderActive`, `StartCycle` |
| `cycleUSBAfterSwitch` | `CycleBegins`, `CycleCommand`, `CycleAnswered`, `CycleWakes`, `CycleEnds` |
| `pollLoop`, `pollOnce` | `Tick`, `PollQuits`, `PollOnce`, `PublishOther` |
| `serve`, `handleConn`, `dispatch` | `Accept` (which routes the request), `Respond` |
| `setHost`, `runCommand` | `Check`, `Send`, `SendAnswered`, `PublishSwitchErr/Here/Away`, `PollAfterError` |
| `Start` after cancellation, `Shutdown` | `Signal`, `ShutdownTimer`, `StopServing`, `Exit`, `Restart` |

`view` is `Daemon.state` without texts and time stamps, `snap` is the copy each goroutine
carries out of `setState`, `portKnown` says whether `cfg.Port` is set.

**CycleGate** – what `cycle_on_active` promises, as a two-variable machine: a report of
inactivity arms it, the next active report starts one cycle and disarms it. Daemon implements
it with `armed <- sawInactive` and `running <-` the busy cycle goroutines.

**UsbCycle** – a power cycle is a program of *off*, *sleep* and *on* steps, run by one of three
drivers: the daemon, `Device.Cycle...` on a direct link, or `doUSBCycle` through the socket.
They validate differently (the daemon never checks `cycle_port` against the sides before it
starts), order steps differently (the daemon turns both sides off first) and give up
differently (the daemon goes on after a failed restore). Cycles overlap, the link drops, and
the port of the adapter itself may be among those cycled. What a command meets is one of four:
`Answered`; `Silence`, where `readResponse` gives an empty text and no error, whether the switch heard
or not, and every driver goes on; `Unheard`, where validation refuses it or the port of a switch that is
away reports an error; `Unanswered`, where it took effect and the port then reports an error.
`unconfirmed` records the sides of each cycle whose restore met silence; the code keeps no such record.

**DaemonSocket** – the life of a process from its launch to its exit, one step per system call
on the socket path: stat, ping, remove, bind, chmod; then listener close, port close, second
remove. `file` is whose socket the path leads to. The tray processes add `runDaemonAndTray`
with its three-second limit, and `orei-kvm tray` beside a running daemon. `Overlap` says
whether starts and stops of different processes may interleave; a crash may always happen.

**SerialExchange** – one level below KvmLink: the line itself. `Drain`, `WriteLine`, `ReadMore`,
`Timeout` or `Deadline`, `WriteConfirm` and `Return` are the parts of `CommandWithConfirm` in
their order; `phase` is where the caller that holds `Client.mu` is. The switch (`Handle`) works off
`lines` in order, acts when it begins to answer, and answers in pieces into `inbuf`, the operating
system's buffer, which `drain` empties; what is still under way it cannot empty. Time appears as
what it decides: the switch answers within a read's wait, except to a command in `Slow` and to what
waits behind one, so a read may come up empty only then (`WaitedOut`). `noise` and `heard` stand for
text nobody asked for, in the buffer and among what has been read: it names no host, so only that it is
there matters, to a read that would otherwise time out and to the deadline. A piece carries the number
of the command it answers; the code has no such thing, only the properties look at it. KvmLink takes
a reply to be its command's own or none: `OwnReply` and `HostIsCurrent` say when that is so.

**Settings** – `Default`, `Load`, `Save` and the flags, as functions of records. Seven keys stand for
the eleven, one for each way `Load` treats a key: any text (`port`), 1 or 2 (`my_host`), positive
(`poll_interval`), expanded (`socket`, whose leading `~` becomes the home directory), not empty
(`port_patterns`), present at all (`cycle_delay`), lowered and trimmed (`cycle_restore`, for
`cycle_side` too). `ExpandHome` and `Trimmed` are the two conversions, as constants of which only what
the code guarantees is assumed: that doing them twice changes nothing. A duration in a file is a text
(`Text`), absent or malformed, a setting is a number: `Saved` writes the one, `Load` reads the other. A
file that does not parse is not `Loadable` and stops every command. `WithFlags` overrides without any
conversion, as `PersistentPreRunE` does.

**PortWatch** – extends Settings with the ports a machine shows and the daemon's search among them.
`PickPort` is `pickPort` over a sequence of names, its loop (`Best`) a function of the number of ports
considered. `Listings` is what the operating system may show: all ports in any order, or, in a glitch,
without some of the callout ports, since `pollOnce` says that macOS drops just those while one is open,
or none. A dial-in port may so be the only one listed, picked, and remembered. `Found` is what `FindPort`
may return, a listing that fails included. `cfg.port` is both the setting and what is remembered; the poll
loop (`Look`, `Remember`) and a reconnect request read and write it at the points where the code does,
without a lock. `Close`, `Find`, `Open`, `OpenFails` and `Keep` are `tryConnect`; `Serve` follows the
`tryConnect` of `Start`, before which no request is taken; a refresh is one step here, since Daemon has
its parts. Ports of other devices, which a pattern may match, can be opened and stay silent, which the
code takes for this machine being active. The file changes only while no daemon runs: a running one does
not read it.

**StateServer** – what a daemon is to those who ask for its state: it serves or not, and what it
publishes does not contradict itself. When it publishes is left open: `Start` does so before it serves,
goroutines that outlive the listener after. Daemon and MockDaemon are each shown to implement
it (`ServerSpec`, with `serving <- pc["main"] = "serve"`); Tray relies on no more than that.

**MockDaemon** – the daemon started with `--mock`, on the switch and client of
`internal/mock/device.go`. The mock client asks the switch for its selected host at each call, so
there is no stale handle, and `setState` never waits for it; a step is one call of the client or one
mutation. `Connected`, `Gone` and `PublishOther` are the mock branch of `pollOnce`, `Send` is
`CommandWithConfirm` with `Handle` inside, and a reset, which selects host 1, leaves the client
connected on machine 2 although its port is gone; so does a bare `yes`, after which nothing is refreshed.

**Tray** – extends StateServer with the menu. `Told` or `Untold` is the call, given up at any moment;
`Disable` is the error branch of `refresh`; `Clear`, `Mark` and `Enable` are three parts of `apply`,
between which another goroutine's may run. Each is a few adjacent calls of the menu library (a title and
both unchecks, a check and an icon, both enables) taken as one: finer interleavings are not explored. The ticker and each click have a goroutine. What a click
asks of the daemon is any `Publish`, now, later or never, since `ipc.Call` may have given up
before the handler is done.

**MCDaemon**, **MCUsbCycle**, **MCPortWatch**, **MCMockDaemon** – sets of requests, plans, ports and
files for TLC.

**DaemonProofs**, **UsbCycleProofs**, **DaemonSocketProofs**, **SerialExchangeProofs**,
**PortWatchProofs**, **MockDaemonProofs** – theorems, each about the module it is named after
(section 4). **LeastNumbers** – that a set of natural numbers has a least member.

How they fit: SerialExchange justifies KvmLink's reply; Daemon extends KvmLink, refines CycleGate
and StateServer; MockDaemon refines StateServer; Tray builds on StateServer; PortWatch refines what
Daemon calls finding the port, apart from it; UsbCycle and DaemonSocket stand beside them.

## 3. Runs

All constants are model values except hosts, labels and Booleans.

| Run | Instance | Shows |
|---|---|---|
| `daemon_polling` | no handlers, 2 cyclers, both sides with only RX in range, panel moves both ways, signals, restarts | `OneCycle`, `GateSpec`, `ServerSpec`, `ConvergesActive`, `ConvergesInactive`, `CycleServed` |
| `daemon_commands` | 1 handler, 1 cycler, every op, a host that is none, panel to host 1 | `TypeOK`, `ViewCoherent`, `HandleStable` |
| `daemon_stopping` | 1 handler sending `set_host` away or `shutdown`, fairness | `RequestServed`, `ShutdownCompletes` |
| `usb_cycle_overlap` | 2 cycles out of a mixed set of plans, adapter on RX port 3, link drops, answers that never come, kills | `OffIsOwed`, `OnlyCovered`, `DoneMeansRestored` |
| `daemon_socket_serial` | 3 processes, 2 with a tray, one start or stop at a time, crashes at any time | `OneDaemon`, `Reachable`, `RefusedOnlyIfUp`, `QuitExits` |
| `serial_exchange` | 3 kinds of command, `set reset` slow, 3 commands unanswered at a time, fairness | `OwnReply`, `HostIsCurrent`, `CommandReturns`, `Resynchronises` |
| `port_watch` | an adapter with a callout and a dial-in port, another device that the default patterns match, 4 files, 3 sets of flags, fairness | `RoundTrip`, `BadHostStaysInFlags`, `PicksBest`, `OnlyMatching`, `ConfiguredPort`, `FindsAdapter`, `InactiveUnlessTaken` |
| `mock_switch` | `my_host` 2, 2 handlers that reconnect, reset and switch, fairness | `TypeOK`, `NoSwitchBack`, `StatusFollows`, `ServerSpec` |
| `tray_refresh` | the ticker and one click at a time, 2 hosts, any daemon, fairness | `MenuFollows`, `MenuGoesDead`, `TwoMarksGo` |

Three runs end in a counterexample, each to one sentence of the repository:

| Run | Property | Sentence | What happens |
|---|---|---|---|
| `daemon_away` | `StaysAway` | "expected disconnected after switching away", `daemon_test.go` | the poll asked before the switch moved; its answer is published after `setHost` published the switch |
| `usb_cycle_stranded` | `BroughtBack` | "a cycle must bring ports back up", `commands.go` | `cycle_side: both` with `cycle_port: 3`: RX 3 goes off, TX 3 is refused, RX is never restored |
| `daemon_socket_race` | `OneDaemon` | "daemon already running at %s", `ipc.go` | two starts over one stale file: the slower removes the socket the faster has just bound |

More places where the code is not what a comment or a message of it says were met while modelling. No
run is kept for them; where a property has to make room for one, it names it.

- A failed open counts as inactivity (`considerUSBCycle`), so a power cycle may follow a switch that
  never happened, which `GateSpec` allows.
- `setHost` publishes the switch also when a concurrent `reconnect` took the handle before anything was
  sent.
- Once `cfg.Port` has been remembered, an adapter that is gone is reported as host 0 and not as the
  other host.
- A cycle whose restore the switch did not hear ends without an error and leaves its ports off: "a cycle
  must bring ports back up" fails in silence. `OffIsOwed` and `DoneMeansRestored` except it.
- The daemon "treats disappearance as 'this machine is inactive'" (help of `main.go`), unless it holds the
  port of another device: one that a pattern matches (the defaults match most USB serial adapters), or
  one that was alone in a listing. Its silence counts as active. `InactiveUnlessTaken` names that case.
- The callout name is "the one that can be opened" (comment of `FindPort`), but a glitch in which only the
  dial-in name is listed makes the daemon remember that one for good: whatever opened first goes into
  `cfg.Port`, and from then on is preferred. `FindsAdapter` names that case, and the other device above,
  as `Astray`.
- When a reconnect and the poll loop search at once, the handle may be on one port and `cfg.Port` on
  another.
- `--socket=~/x` is taken literally by the process that is given it; `config init` writes it as it is, and
  the next process expands it. A blank `cycle_restore`, which a cycle of the daemon refuses, comes back as the default `on`.
  `RoundTrip` says so.
- `config init`, "Write default config file", writes the settings in effect.

Bounds, and why they are enough. The Daemon has no counters: its state space is finite for finite
sets of goroutines, so the runs bound nothing but the number of goroutines and the requests sent.
One handler reaches every path of `dispatch` against the poll loop and a cycle, and the poll
loop's error path meets its command; for more handlers there are the proofs. Two cyclers are one
more than may run, so that a second cycle could be started. Of requests that take the same path
one is sent (`set` also stands for `get input`). In `daemon_commands` the panel may select only
host 1, because the daemon itself selects host 2. `daemon_polling` is where the panel moves
freely. `UsbCycle` runs each cycle once; two cycles have every overlap of two programs. Three
processes in `DaemonSocket` are a daemon that serves, one that starts, and one that crashed or
waits with its tray. In `SerialExchange` the three unanswered commands of `Ids` are a late one,
one that may take its answer, and one after it; a guard of `Begin` bounds them. A restart is told
once per buffer and once per answer. `PortWatch` needs two ports of the adapter for
the order, the rank and a glitch that drops only one to matter, and one other device that the patterns
match as they match the adapter, so that either may be taken; with the adapter unplugged, or with the
patterns of the third file, which match nothing, the other device is a lone port or one that suits
nothing. The files and flags have every way a key can count or not, at its edges: nothing written; a host
that is none, a `~`, blanks and a zero delay; negative durations and a text to trim; a file that does not
parse. `MockDaemon` runs on machine 2, because a reset selects host 1 and so
switches away; two handlers let one be past its checks while the other switches. In `Tray` a
second click is no different from the ticker's next refresh. Symmetry is used in
`usb_cycle_overlap` only, on the two cycles, which no definition tells apart; that run has no
liveness property.

Fairness. Each goroutine of the daemon has strong fairness: Go's scheduler is fair, and a
`sync.Mutex` hands itself to its longest waiter after a millisecond, so a goroutine that finds the
mutex free again and again gets it. Opening the port has strong fairness for the poll loop: `Plug`
only says the adapter is enumerated, and an open that could succeed infinitely often does so in
the end. The 50 ms timer of a shutdown request has weak fairness. Nothing else is fair: no
request, signal, panel switch, plug or restart has to happen, and the convergence properties are
conditional on an environment that settles. In SerialExchange the switch works off what it was
sent and the client's clock runs: a read that could time out, or a deadline that has passed, ends
the reading. In PortWatch the two goroutines run; strong fairness says that the poll loop's searches
do not meet a glitch every time and that a callout port, if it is there, opens in the end. Nothing keeps
the first search of a daemon from meeting a glitch. Of the dial-in port nothing is assumed, as the comment
of `FindPort` has it. In MockDaemon the goroutines are weakly
fair, which suffices as no step waits for another. In Tray every goroutine runs and a deadline
ends each call; strong fairness of the ticker's answer says that a daemon that keeps serving is
not late every time, as a request for the state waits only for `mu`. No click has to happen. In
`DaemonSocket` each process's own steps are weakly fair, while launches, crashes, signals and the
quitting of a tray are not.

## 4. Proofs

Every safety invariant and action property of the passing runs is also a theorem, for every value of
the constants that satisfies the named assumptions of the modules and the hypotheses given below.
Each inductive invariant was first checked by TLC on the instance of its component's run.

**DaemonProofs**, for every set of handlers and cyclers, either `my_host`, every set of requests, and
every configuration of the power cycle:

- `TypeCorrect`: `Spec => []TypeOK`. `TypeOK` is not inductive alone. What a handler writes to
  the switch becomes `input`, so the invariant `TypeInv` adds `ReqValidated`: a handler about to check or
  send `set_host` or `set_input` holds a valid host, which is what `dispatch` validated.
- `ViewIsCoherent`: `ViewCoherent` is inductive given `TypeInv`. Each mutation is shown to keep it;
  the interesting one is `setHost`'s success towards `my_host`, which leaves `connected` as a
  concurrent goroutine left it.
- `OneCycleAtATime`: `OneCycle` is inductive. The step that matters is `StartCycle`, whose
  guard gives an empty `RunningCycles`.
- `GateImplemented`: every step of Daemon is a step of `CycleGate` or leaves its variables, using
  `OneCycle` for *Start* and *Finish*.
- `HandleIsStable`: no step changes the handle under another goroutine's command, from the
  mutex discipline of the client's operations.
- `ServerImplemented`: every step of Daemon is a step of `StateServer`, using `ViewIsCoherent` for
  *Publish* and, for *Serve* and *Stop*, that a step either publishes or moves the main goroutine
  (`OneAtATime`, `PublishingServes`). It does not say that publishing needs serving, for it does not.

**UsbCycleProofs**, for any number of overlapping cycles and any plans, and, except in the last theorem,
with the link lost and processes killed at any time:

- `NothingLeftOff`, `OthersUntouched`, `SuccessRestores`: `OffIsOwed`, `OnlyCovered` and
  `DoneMeansRestored`, from one invariant, `CycleInv`. A step takes the head of a program, so the
  invariant must know of every suffix of a program what the driver made true of the whole: each *off* has
  its *on* behind it (`Balanced`) and each step stays on the plan's sides (`Within`). That every driver's
  program begins that way is shown from how it is put together by concatenation. `Restoring` says of a
  cycle that shares its ports with no other that each of them is restored, still to be, or on a side whose
  restore was taken for done without an answer; that third excuse is needed, since silence is no error
  in the code.
- `ValidPlansBringBack`: where the link holds and nothing is killed, every cycle brings its ports back, if
  (`PlansValid`) an accepted plan's port exists on each of its sides. The run `usb_cycle_stranded` shows
  what happens without that hypothesis, and the theorem that nothing else is needed.

**DaemonSocketProofs**, for any number of processes. `TypeCorrect` holds of all behaviours; the others,
`OneDaemonServes`, `ServerIsReachable` and `RefusalMeansUp`, assume `Overlap = FALSE`, for
`daemon_socket_race` shows the first false of overlapping starts, and a start that overlaps another can
also be refused by a failed remove, bind or chmod while no daemon answers. The invariant `SocketInv` says what each
process between two of its calls may rely on (`FileKnown`): a start that is about to bind finds no
file, one that is about to remove knows that nobody serves. It needs `InTurn`, that all but one process are
settled, which a crash keeps because it only ends a process.

**SerialExchangeProofs**, for any commands, any slow ones among them, and any number of commands not
yet answered:

- `ReplyIsOwn`: `OwnReply`, from `ExchangeInv`. A command that began when nothing was owed, and is not
  slow, has received the beginning of its own answer piece by piece (`OnlyOwn`), and what is missing is
  owed to the one line that the switch has (`RestIsOwed`). `NothingLeft` is the heart of it: such a
  command waits behind nothing slow, so a read comes up empty only when the answer is complete.
- `HostWasSelected`: `HostIsCurrent`, assuming that `get input` is not slow; a late answer may be missed,
  and the code then reports no host. The same invariant says that the second piece names an input that
  was selected since the command began.
- `TypeCorrect`, as part of `ExchangeInv`: what the switch answers next exists (`AtLine`).

**PortWatchProofs**, for any finite set of ports, any ranks, patterns, files and flags:

- `SettingsSurvive`: `RoundTrip`, from the lemma `SavedIsLoaded`, which goes key by key through what `Saved`
  writes and `Load` makes of it, and from what is known of settings in effect (`EffectiveType`): their
  interval is positive, they have patterns, and their `cycle_restore` is trimmed. Host and socket may
  come from a flag, so of them nothing is known: hence the exceptions that the property lists.
- `BadHostIsAFlag` and `GivenPortIsKept`: `BadHostStaysInFlags` and `ConfiguredPort`, from `WatchInv`. A
  daemon that was given a port has it in `cfg.port`, whatever path a goroutine has found
  or opened is that port's, and the poll loop never searches (`PortKept`): without the last part the
  path it remembers could replace the one given.
- `BestIsPicked`: `PicksBest`, for listings of any length. The loop is a recursive function; that there is one
  (`LoopRuns`) and that it keeps the loop invariant `IsBest` are shown by the least index at which
  it would go wrong, since the library's rules of induction cannot be used here.
- `UnmatchedAreLeftAlone`: `OnlyMatching`, if no two listed ports have the same file name (`NamesDiffer`), as
  the entries of one directory do. All of `handle`, `cfg.port` and `path` suit (`SuitInv`): they are listed
  ports that a pattern in use matches, or that can be alone in a listing. Other devices that match are
  not excluded: nothing in the code tells them from the adapter.

**MockDaemonProofs**, for any number of handlers and either `my_host`: `TypeCorrect`, `NeverSwitchesBack`
and `ServerImplemented`, from `MockInv`, which adds to the types that a handler about to send
was validated, and that the published state does not contradict itself. `Effect` says what any
step but a restart does to those outside, once for both properties.

The assumptions are named in the modules: `LinkAssumption`, `DaemonAssumption` and `MockAssumption` (names
of goroutines differ, `my_host` is 1 or 2, a request is one of the protocol's), `UsbCycleAssumption`,
`DaemonSocketAssumption`, `SerialExchangeAssumption` (numbers are positive), `SettingsAssumption` (a missing key
and a malformed one are no durations; the conversions may be repeated and keep the defaults;
`Default()` has patterns) and `PortWatchAssumption` (finitely many ports, each ranked;
files and flags have the types of the code, and name a port only if the user may).

Only model-checked: everything about liveness (`Converges...`, `CycleServed`, `RequestServed`,
`ShutdownCompletes`, `QuitExits`, `CommandReturns`, `Resynchronises`, `FindsAdapter`,
`InactiveUnlessTaken`, `StatusFollows` and the tray's properties `MenuFollows`, `MenuGoesDead`,
`TwoMarksGo`). The prover has no rules for it: `ENABLED` and fairness are beyond it.

## 5. What is not modelled

- *Time.* Delays have no length. Where a deadline decides something it is an action: the idle window
  and the two seconds of `readResponse` in SerialExchange, the ten of `Call` in Tray. The 30 s of
  `handleConn` are absent. That the 400 ms window is long enough for a command outside `Slow`
  is an assumption about the switch.
- *Late replies below the daemon.* Daemon keeps KvmLink's rule that a reply is read by its own command
  or lost; SerialExchange says when the rule holds. The two are not composed.
- *A torn read of `cfg.Port`.* PortWatch has its interleavings; a string half read is outside it.
- *An adapter that comes back under another name.* Names of ports do not change in PortWatch, nor do other
  devices come and go.
- *Descriptions of ports.* `MatchedBy` is of a name and its description together; that `ListPorts` falls back
  to bare names, so that a pattern that matches only a description matches nothing, is left out.
- *Failures of `Save`* to make a directory or write the file: `ConfigInit` succeeds.
- *An impossible `my_host` in the daemon.* Settings and PortWatch follow it from the flag to the file
  and the view; Daemon and MockDaemon keep it in 1..2.
- *Texts*: `LastRaw`, `LastError`, `PortPath`, and the parsers of answers that are only printed.
- *Parts that keep no state*: one-command getters and setters of the device facade and the command line,
  `PortExists` and `SetBaud`, which nothing calls, the mock's settings that only its own getters read.
- *Terminal detachment and packaging*, on which no state of the program depends.

## 6. Plan

In the order of importance:

1. Done: `KvmLink`, `Daemon`, `CycleGate`, `UsbCycle`, `DaemonSocket`, and the daemon's proofs.
2. Done: `SerialExchange`, `Settings`, `PortWatch`, `StateServer`, `MockDaemon`, `Tray`.
3. Done: a theorem for every safety invariant and action property of the passing runs, and for each of
   the three refinements.
4. The converse of `ConfiguredPort`: from which states a daemon that remembered a port of its own finds
   the adapter again, as invariants that `FindsAdapter` rests on.
5. Invariants of the tray (at most one refresh marks at a time if answers come in order), from which its
   liveness follows.
