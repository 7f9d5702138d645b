--------------------------- MODULE SerialExchange ---------------------------
(***************************************************************************)
(* One exchange after another on the serial line: Client.Command and       *)
(* CommandWithConfirm (drain, write, read until the line is quiet) against *)
(* a switch that handles lines in order and answers in pieces.             *)
(*                                                                         *)
(* Nothing in an answer says which command it belongs to.  The client goes *)
(* by time alone: it gives up when one read brings nothing.  KvmLink takes *)
(* it that a reply is the command's own or none; this module says when.    *)
(*                                                                         *)
(* Time is modelled by what it decides.  The switch answers within the     *)
(* client's read window, except to a Slow command and to whatever waits    *)
(* behind one.                                                             *)
(***************************************************************************)
EXTENDS Integers, Sequences, SequencesExt

CONSTANTS
  Commands,  \* the commands callers issue
  Slow,      \* those whose answer may take longer than a read waits
  Ids        \* tell apart the commands not yet answered; bounds their number

Hosts == {"host1", "host2"}
Unknown == "unknown"
Confirm == "Yes"
AllCommands == {"CmdGetInput", "CmdGetUSB5V", "CmdReset"}

ASSUME SerialExchangeAssumption ==
  /\ Commands \subseteq AllCommands
  /\ Slow \subseteq Commands
  /\ Ids \subseteq Nat \ {0}

VARIABLES
  input,  \* the input the switch selects
  lines,  \* lines written and not yet handled by the switch
  told,   \* pieces of the first one's answer that have been sent
  inbuf,  \* pieces of answers in the operating system's input buffer
  noise,  \* does text nobody asked for lie there too?
  phase,  \* where the exchange is
  cmd,    \* the command it is for
  out,    \* the pieces it has collected
  heard,  \* has readResponse read anything yet?
  clean,  \* did the switch owe nothing when the exchange began?
  seen    \* the inputs selected since then, if it is a "get input"

lineVars == <<input, lines, told, inbuf, noise>>
clientVars == <<phase, cmd, out, heard, clean>>
vars == <<lineVars, clientVars, seen>>

Line == [id : Ids \cup {0}, text : Commands \cup {Confirm}]
Piece == [id : Ids \cup {0}, text : Commands \cup {Confirm}, part : 1..2,
          names : Hosts \cup {Unknown}]
NoCommand == [id |-> 0, text |-> Confirm]

TypeOK ==
  /\ input \in Hosts
  /\ lines \in Seq(Line)
  /\ inbuf \in Seq(Piece) /\ out \in Seq(Piece)
  /\ told \in 0..1
  /\ phase \in {"idle", "write", "read", "confirm", "more", "done"}
  /\ cmd \in Line
  /\ noise \in BOOLEAN /\ heard \in BOOLEAN /\ clean \in BOOLEAN
  /\ seen \subseteq Hosts

Init ==
  /\ input \in Hosts
  /\ lines = <<>> /\ told = 0 /\ inbuf = <<>> /\ noise = FALSE
  /\ phase = "idle"
  /\ cmd = NoCommand
  /\ out = <<>> /\ heard = FALSE
  /\ clean = TRUE
  /\ seen = {}

-----------------------------------------------------------------------------
(* The switch *)

\* What each piece of the answer to a line names, as ParseHost reads it.  The
\* answer to "get input" may be torn; "USB host 1: 5V" reads like an input.
Answer(text) ==
  CASE text = "CmdGetInput" -> <<Unknown, input>>
    [] text = "CmdGetUSB5V" -> <<"host1">>
    [] OTHER -> <<Unknown>>

\* A confirmed reset selects host 1.
Selects(text) == IF text = Confirm THEN "host1" ELSE input

Select(h) ==
  /\ input' = h
  /\ seen' = IF seen = {} THEN {} ELSE seen \cup {h}

\* The switch acts on a line when it starts to answer it, and answers in pieces.
Handle ==
  /\ lines # <<>>
  /\ LET line == Head(lines)
         part == told + 1
     IN  /\ inbuf' = Append(inbuf, [id |-> line.id, text |-> line.text, part |-> part,
                                   names |-> Answer(line.text)[part]])
         /\ IF part < Len(Answer(line.text))
              THEN told' = part /\ UNCHANGED lines
              ELSE told' = 0 /\ lines' = Tail(lines)
         /\ Select(IF told = 0 THEN Selects(line.text) ELSE input)
  /\ UNCHANGED <<noise, clientVars>>

Panel ==
  /\ \E h \in Hosts : Select(h)
  /\ UNCHANGED <<lines, told, inbuf, noise, clientVars>>

\* The switch restarts and says so, unasked, in a banner that names no host.
Chatter ==
  /\ noise' = TRUE
  /\ UNCHANGED <<input, lines, told, inbuf, clientVars, seen>>

-----------------------------------------------------------------------------
(* The client *)

\* Lines and pieces the client has not read the end of.
Underway == ToSet(lines) \cup ToSet(inbuf)
InUse == {x.id : x \in Underway}

Begin(text) ==
  /\ phase = "idle"
  /\ phase' = "write"
  /\ Ids \ InUse # {}
  /\ cmd' = [id |-> CHOOSE i \in Ids \ InUse : \A j \in Ids \ InUse : i <= j,
             text |-> text]
  /\ clean' = (lines = <<>>)
  /\ seen' = IF text = "CmdGetInput" THEN {input} ELSE {}
  /\ UNCHANGED <<input, lines, told, out, heard>>

DrainNothing(text) == Begin(text) /\ UNCHANGED <<inbuf, noise>>  \* mutant: no drain

\* drain: what lies in the input buffer is dropped, what is under way is not.
Drain(text) == Begin(text) /\ inbuf' = <<>> /\ noise' = FALSE

WriteLine ==
  /\ phase = "write"
  /\ phase' = "read"
  /\ lines' = Append(lines, cmd)
  /\ heard' = FALSE
  /\ UNCHANGED <<input, told, inbuf, noise, cmd, out, clean, seen>>

Reading == phase \in {"read", "more"}

\* After a set reset, readResponse is followed by the confirmation.
After(p) == IF p = "read" /\ cmd.text = "CmdReset" THEN "confirm" ELSE "done"

ReadOnce ==  \* mutant: readResponse returns with the first data
  /\ Reading
  /\ inbuf # <<>>
  /\ out' = Append(out, Head(inbuf))
  /\ inbuf' = Tail(inbuf)
  /\ phase' = After(phase)
  /\ UNCHANGED <<input, lines, told, noise, cmd, heard, clean, seen>>

\* A read brings data; readResponse reads on.
ReadMore ==
  /\ Reading
  /\ inbuf # <<>> \/ noise
  /\ out' = out \o inbuf
  /\ heard' = TRUE
  /\ inbuf' = <<>> /\ noise' = FALSE
  /\ UNCHANGED <<input, lines, told, phase, cmd, clean, seen>>

\* Has the client waited long enough for what the switch owes it?
Busy == \E x \in Underway : x.text \in Slow
WaitedOut == cmd.text \in Slow \/ Busy \/ cmd.id \notin InUse

FinishRead ==
  /\ phase' = After(phase)
  /\ UNCHANGED <<lineVars, cmd, out, heard, clean, seen>>

\* A read brings nothing: the answer is over, or there is none.
Timeout == Reading /\ inbuf = <<>> /\ ~noise /\ WaitedOut /\ FinishRead

NoDeadline == FALSE /\ FinishRead  \* mutant: readResponse may read for ever

\* Two seconds have passed and the data still flows.
Deadline == Reading /\ heard /\ WaitedOut /\ FinishRead

\* The confirmation follows without another drain.
WriteConfirm ==
  /\ phase = "confirm"
  /\ phase' = "more"
  /\ lines' = Append(lines, [id |-> cmd.id, text |-> Confirm])
  /\ heard' = FALSE
  /\ UNCHANGED <<input, told, inbuf, noise, cmd, out, clean, seen>>

\* Command returns the text and drops the mutex.
Return ==
  /\ phase = "done"
  /\ phase' = "idle"
  /\ cmd' = NoCommand
  /\ out' = <<>> /\ heard' = FALSE
  /\ seen' = {}
  /\ clean' = TRUE
  /\ UNCHANGED lineVars

Working == WriteLine \/ ReadMore \/ Timeout \/ Deadline \/ WriteConfirm \/ Return

Next ==
  \/ \E c \in Commands : Drain(c)
  \/ Working
  \/ Handle \/ Panel \/ Chatter

Spec == Init /\ [][Next]_vars

\* The switch works off what it was sent, and the client's clock runs: a read
\* that could time out, or a deadline that has passed, ends the reading.
Fairness ==
  /\ WF_vars(Handle)
  /\ WF_vars(WriteLine \/ WriteConfirm \/ Return)
  /\ WF_vars(ReadMore) /\ WF_vars(Timeout) /\ WF_vars(Deadline)

FairSpec == Spec /\ Fairness

-----------------------------------------------------------------------------

Whole(text) ==
  CASE text = "CmdGetInput" -> <<<<text, 1>>, <<text, 2>>>>
    [] text = "CmdReset" -> <<<<text, 1>>, <<Confirm, 1>>>>
    [] OTHER -> <<<<text, 1>>>>

GotOwn ==
  /\ \A i \in DOMAIN out : out[i].id = cmd.id
  /\ [i \in DOMAIN out |-> <<out[i].text, out[i].part>>] = Whole(cmd.text)

\* A command answered in time that begins when the switch owes nothing gets its
\* whole answer, and nothing of an answer an earlier command gave up on that
\* has been lying in the buffer since.
OwnReply ==
  phase = "done" /\ clean /\ cmd.text \notin Slow => GotOwn

ParseHost ==
  LET first == SelectInSeq(out, LAMBDA p : p.names # Unknown)
  IN  IF first = 0 THEN Unknown ELSE out[first].names

\* The host a "get input" names was selected while it was asked, whatever
\* answers reading like an input other commands left behind.
HostIsCurrent ==
  phase = "done" /\ clean /\ cmd.text = "CmdGetInput" => ParseHost \in seen

\* Command returns and frees the client, though the switch may never stop
\* talking.
CommandReturns == phase # "idle" ~> phase = "idle"

\* A late answer puts the exchanges out of step for a while only: once no
\* command is slow, each again gets its own answer.
Resynchronises ==
  <>[](cmd.text \notin Slow) => <>[](phase = "done" => GotOwn)

=============================================================================
