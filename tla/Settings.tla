------------------------------ MODULE Settings ------------------------------
(***************************************************************************)
(* The configuration file (internal/config/config.go) and what a process   *)
(* makes of it and of its flags (PersistentPreRunE of cmd/orei-kvm).       *)
(*                                                                         *)
(* Seven of the keys are kept, one for each way Load treats a key: port    *)
(* (any text counts), my_host (only 1 and 2 count), poll_interval (only a  *)
(* positive one), socket (a leading ~ is the home directory),              *)
(* port_patterns (only a non-empty list), cycle_delay (any value, zero     *)
(* included, if the key is there at all) and cycle_restore, which stands   *)
(* for cycle_side too (lower case, no blanks around).                      *)
(***************************************************************************)
EXTENDS Integers

CONSTANTS
  NoPath,           \* the empty path
  Absent,           \* a key the file does not have
  Malformed,        \* a value that is no duration, a bare number included
  DefaultPatterns,  \* the patterns of Default()
  DefaultSocket,    \* the socket path of Default()
  ExpandHome,       \* expandHome, of each socket path
  Trimmed           \* ToLower(TrimSpace(text)), of each text for cycle_restore

Sockets == DOMAIN ExpandHome
Restores == DOMAIN Trimmed

\* A duration as the file has it.
Text(d) == [duration |-> d]
DurationTexts == [duration : Int] \cup {Absent, Malformed}

\* Load tells a missing key from one that is there, whatever it says.  Neither
\* conversion changes what it yields.
ASSUME SettingsAssumption ==
  /\ {Absent, Malformed} \cap [duration : Int] = {} /\ Absent # Malformed
  /\ DefaultPatterns # {} /\ DefaultPatterns \subseteq STRING
  /\ \A s \in Sockets : ExpandHome[s] \in Sockets /\ ExpandHome[ExpandHome[s]] = ExpandHome[s]
  /\ DefaultSocket \in Sockets /\ ExpandHome[DefaultSocket] = DefaultSocket
  /\ NoPath \notin Sockets
  /\ \A r \in Restores : Trimmed[r] \in Restores /\ Trimmed[Trimmed[r]] = Trimmed[r]
  /\ {"", "on"} \subseteq Restores /\ Trimmed["on"] = "on"

Default ==
  [port |-> NoPath, myHost |-> 1, poll |-> 1, socket |-> DefaultSocket,
   patterns |-> DefaultPatterns, delay |-> 15, restore |-> "on"]

\* A file that was never written.
EmptyFile ==
  [port |-> NoPath, myHost |-> 0, poll |-> Absent, socket |-> NoPath,
   patterns |-> {}, delay |-> Absent, restore |-> ""]

NoFlags == [port |-> NoPath, myHost |-> 0, socket |-> NoPath]

\* What cannot be parsed stops every command, config init included.
Loadable(raw) == Malformed \notin {raw.poll, raw.delay}

AnyHost(raw) == IF raw.myHost # 0 THEN raw.myHost ELSE Default.myHost  \* mutant: no range check
Host(raw) == IF raw.myHost \in 1..2 THEN raw.myHost ELSE Default.myHost

PollInterval(raw) ==
  IF raw.poll # Absent /\ raw.poll.duration > 0 THEN raw.poll.duration ELSE Default.poll
Delay(raw) == IF raw.delay # Absent THEN raw.delay.duration ELSE Default.delay
Socket(raw) == IF raw.socket # NoPath THEN ExpandHome[raw.socket] ELSE Default.socket

\* Blanks alone count as a text, and leave an empty one.
Restore(raw) == IF raw.restore # "" THEN Trimmed[raw.restore] ELSE Default.restore

\* Load: defaults, overridden by what counts in the file.
Load(raw) ==
  [port     |-> raw.port,
   myHost   |-> Host(raw),
   poll     |-> PollInterval(raw),
   socket   |-> Socket(raw),
   patterns |-> IF raw.patterns = {} THEN Default.patterns ELSE raw.patterns,
   delay    |-> Delay(raw),
   restore  |-> Restore(raw)]

\* The flags win, whatever they say, and are taken as they are: Load's
\* conversions and its checks are not made.
WithFlags(cfg, f) ==
  [cfg EXCEPT !.port = IF f.port = NoPath THEN @ ELSE f.port,
              !.myHost = IF f.myHost = 0 THEN @ ELSE f.myHost,
              !.socket = IF f.socket = NoPath THEN @ ELSE f.socket]

Effective(raw, f) == WithFlags(Load(raw), f)

SavedAbridged(cfg) ==  \* mutant: Save forgets a key
  [cfg EXCEPT !.poll = Text(@), !.delay = Absent]

\* Save writes every key, a duration as its text and all else as it is.
Saved(cfg) == [cfg EXCEPT !.poll = Text(@), !.delay = Text(@)]

=============================================================================
