----------------------------- MODULE StateServer -----------------------------
(***************************************************************************)
(* What a daemon is to those who ask it for its state: it serves or does   *)
(* not, and the state it answers with changes as it likes but never        *)
(* contradicts itself.  Daemon and MockDaemon implement this, Tray relies  *)
(* on no more.                                                             *)
(***************************************************************************)

CONSTANTS
  Hosts,    \* the inputs of the switch
  Unknown,  \* active_host while none is known
  MyHost    \* the input of this machine

VARIABLES
  serving,  \* does the daemon accept connections?
  view      \* the state it answers with

Views == [connected : BOOLEAN, iAmActive : BOOLEAN, activeHost : Hosts \cup {Unknown}]

Coherent ==
  {v \in Views :
     /\ v.iAmActive => v.activeHost = MyHost
     /\ v.connected => (v.iAmActive <=> v.activeHost = MyHost)}

NothingKnown == [connected |-> FALSE, iAmActive |-> FALSE, activeHost |-> Unknown]

Init == serving = FALSE /\ view = NothingKnown

\* Also while it does not serve: the first connect publishes before it does.
Publish == view' \in Coherent /\ UNCHANGED serving

\* The daemon has looked for its port and begins to accept connections.
Serve == ~serving /\ serving' = TRUE /\ UNCHANGED view

\* It is cancelled, or ends in any other way.
Stop == serving /\ serving' = FALSE /\ UNCHANGED view

Next == Publish \/ Serve \/ Stop

Spec == Init /\ [][Next]_<<serving, view>>

=============================================================================
