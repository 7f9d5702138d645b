------------------------------ MODULE KvmLink ------------------------------
(***************************************************************************)
(* The link between one machine and the OREI switch, and the serial client *)
(* every goroutine of the daemon shares (internal/serial/client.go).       *)
(*                                                                         *)
(* The adapter sits on a switched USB port: the machine sees it only while *)
(* the switch selects that machine, and notices a switch some time after   *)
(* it happened.  A handle opened before the adapter left stays non-nil and *)
(* dead until a write on it fails or someone closes it.                    *)
(*                                                                         *)
(* A command is two steps, both under the client mutex: the write, which   *)
(* is when the switch acts on the line, and the read of the reply.  In     *)
(* between, the environment may move but no other goroutine may.           *)
(***************************************************************************)

CONSTANTS
  MyHost,      \* the host input this machine is wired to (config my_host)
  PanelHosts,  \* inputs someone may select without this daemon
  Handlers,    \* goroutines serving an IPC connection
  Cyclers,     \* goroutines running a USB power cycle
  NoOne        \* "the mutex is free"

Main == "main"
Poll == "poll"
Threads == {Main, Poll} \cup Handlers
Users == Threads \cup Cyclers

Hosts == {"host1", "host2"}
Unknown == "unknown"
Replies == Hosts \cup {Unknown}

Other(h) == IF h = "host1" THEN "host2" ELSE "host1"

ASSUME LinkAssumption ==
  /\ MyHost \in Hosts
  /\ PanelHosts \subseteq Hosts
  /\ Handlers \cap Cyclers = {}
  /\ {Main, Poll} \cap (Handlers \cup Cyclers) = {}
  /\ NoOne \notin Users

VARIABLES
  input,      \* the input the switch selects
  plugged,    \* is the adapter enumerated on this machine?
  port,       \* Client.port: "nil", or an open handle that is "live" or "dead"
  clientMu,   \* Client.mu: the goroutine holding it, or NoOne
  reply       \* the host named by the reply each goroutine waits for or holds

linkVars == <<input, plugged, port, clientMu, reply>>

LinkTypeOK ==
  /\ input \in Hosts
  /\ plugged \in BOOLEAN
  /\ port \in {"nil", "live", "dead"}
  /\ clientMu \in Users \cup {NoOne}
  /\ reply \in [Threads -> Replies]

LinkInit ==
  /\ input \in Hosts
  /\ plugged = (input = MyHost)
  /\ port = "nil"
  /\ clientMu = NoOne
  /\ reply = [t \in Threads |-> Unknown]

-----------------------------------------------------------------------------
(* The environment. *)

\* The front panel, autoswitch or the other machine selects an input.
PanelSwitch ==
  /\ input' \in PanelHosts
  /\ UNCHANGED <<plugged, port, clientMu, reply>>

\* The adapter leaves: the switch moved away, or a cable, hub or reboot.
Unplug ==
  /\ plugged
  /\ plugged' = FALSE
  /\ port' = IF port = "live" THEN "dead" ELSE port
  /\ UNCHANGED <<input, clientMu, reply>>

\* The adapter is enumerated on the selected host.
Plug ==
  /\ ~plugged
  /\ input = MyHost
  /\ plugged' = TRUE
  /\ UNCHANGED <<input, port, clientMu, reply>>

Environment == PanelSwitch \/ Unplug \/ Plug

-----------------------------------------------------------------------------
(* The serial client's operations. *)

ClientFree == clientMu = NoOne

CloseUnlocked ==  \* mutant: Close does not take the mutex
  /\ port' = "nil"
  /\ UNCHANGED <<input, plugged, clientMu, reply>>

\* Client.Close: closes the handle, and does nothing when there is none.
CloseClient ==
  /\ ClientFree
  /\ port' = "nil"
  /\ UNCHANGED <<input, plugged, clientMu, reply>>

\* Client.Open on the adapter's path succeeds only while it is enumerated.
OpenClient ==
  /\ ClientFree
  /\ plugged
  /\ port' = "live"
  /\ UNCHANGED <<input, plugged, clientMu, reply>>

\* Client.Open fails: the old handle is closed before the path is tried.
OpenClientFails ==
  /\ ClientFree
  /\ port' = "nil"
  /\ UNCHANGED <<input, plugged, clientMu, reply>>

\* Command on a closed client returns ErrNotConnected at once.
NotConnected ==
  /\ ClientFree
  /\ port = "nil"
  /\ UNCHANGED linkVars

\* The write to a dead handle fails; Command drops the handle.
WriteFails ==
  /\ ClientFree
  /\ port = "dead"
  /\ port' = "nil"
  /\ UNCHANGED <<input, plugged, clientMu, reply>>

\* The line is written and u waits for the reply holding the mutex.  `wanted`
\* are the inputs the line may leave selected.  A line written after the switch
\* moved away may or may not be heard.
Write(u, wanted) ==
  /\ ClientFree
  /\ port = "live"
  /\ clientMu' = u
  /\ input' \in wanted \cup ({input} \ {MyHost})
  /\ UNCHANGED <<plugged, port, reply>>

\* "get input" also names the host; the answer is fixed when the line is heard.
WriteGetInput(t) ==
  /\ ClientFree
  /\ port = "live"
  /\ clientMu' = t
  /\ reply' = [reply EXCEPT ![t] = input]
  /\ UNCHANGED <<input, plugged, port>>

\* readResponse returns text.
ReadReply(u) ==
  /\ clientMu = u
  /\ clientMu' = NoOne
  /\ UNCHANGED <<input, plugged, port, reply>>

\* The text may name no host: a silent or garbled line is an empty answer,
\* not an error.
ReadGetInput(t) ==
  /\ clientMu = t
  /\ clientMu' = NoOne
  /\ reply' \in {reply, [reply EXCEPT ![t] = Unknown]}
  /\ UNCHANGED <<input, plugged, port>>

\* readResponse reports a disconnect.  Command returns it without touching
\* the handle, which stays non-nil.
ReadFails(u) ==
  /\ clientMu = u
  /\ port = "dead"
  /\ clientMu' = NoOne
  /\ UNCHANGED <<input, plugged, port, reply>>

ReadFailsLocked(t) ==  \* mutant: the error return keeps the mutex
  /\ clientMu = t
  /\ port = "dead"
  /\ reply' = [reply EXCEPT ![t] = Unknown]
  /\ UNCHANGED <<input, plugged, port, clientMu>>

\* The same for "get input", whose answer is lost.
ReadGetInputFails(t) ==
  /\ clientMu = t
  /\ port = "dead"
  /\ clientMu' = NoOne
  /\ reply' = [reply EXCEPT ![t] = Unknown]
  /\ UNCHANGED <<input, plugged, port>>

\* The second line of a confirmed command fails like any write.
ConfirmFails(u) ==
  /\ clientMu = u
  /\ port = "dead"
  /\ clientMu' = NoOne
  /\ port' = "nil"
  /\ UNCHANGED <<input, plugged, reply>>

\* The caller drops the answer it was given.
ForgetReply(t) == reply' = [reply EXCEPT ![t] = Unknown]

=============================================================================
