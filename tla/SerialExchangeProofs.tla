------------------------ MODULE SerialExchangeProofs ------------------------
(***************************************************************************)
(* Theorems about the exchanges on the serial line, for any commands, any  *)
(* slow ones among them, and any number of commands not yet answered.      *)
(***************************************************************************)
EXTENDS SerialExchange, LeastNumbers, SequenceTheorems, TLAPS

USE DEF Hosts, Unknown, Confirm

\* How many pieces the answer to a line has.
Parts(text) == IF text = "CmdGetInput" THEN 2 ELSE 1

\* The line the switch is at has an answer it has not finished.
AtLine ==
  /\ lines = <<>> => told = 0
  /\ lines # <<>> => told < Parts(Head(lines).text)

\* A caller that holds the mutex has a command; only a reset is confirmed.
Caller ==
  /\ phase # "idle" => cmd.text \in Commands
  /\ phase \in {"idle", "write"} => out = <<>>
  /\ phase \in {"confirm", "more"} => cmd.text = "CmdReset"

\* A "get input" knows the input that is selected.
InputSeen == phase # "idle" /\ cmd.text = "CmdGetInput" => input \in seen

\* The i-th piece of the command's own answer.
Own(p, i) ==
  /\ p.id = cmd.id
  /\ p.text = IF cmd.text = "CmdReset" /\ i = 2 THEN Confirm ELSE cmd.text
  /\ p.part = IF cmd.text = "CmdReset" THEN 1 ELSE i
  /\ cmd.text = "CmdGetInput" => IF i = 1 THEN p.names = Unknown ELSE p.names \in seen

Received == Len(out) + Len(inbuf)
Prompt == phase # "idle" /\ clean /\ cmd.text \notin Slow

\* A prompt command that began when nothing was owed: what has arrived is the
\* beginning of its own answer,
OnlyOwn ==
  Prompt =>
    /\ \A i \in 1..Len(out) : Own(out[i], i)
    /\ \A i \in 1..Len(inbuf) : Own(inbuf[i], Len(out) + i)

\* and what has not is owed to the line the client has written last.
RestIsOwed ==
  Prompt =>
    /\ phase = "write" => lines = <<>> /\ Received = 0
    /\ phase = "read" =>
         \/ lines = <<cmd>> /\ told = Received
         \/ lines = <<>> /\ Received = Parts(cmd.text)
    /\ phase = "confirm" => lines = <<>> /\ inbuf = <<>> /\ Received = 1
    /\ phase = "more" =>
         \/ lines = <<[id |-> cmd.id, text |-> Confirm]>> /\ Received = 1
         \/ lines = <<>> /\ Received = 2
    /\ phase = "done" =>
         lines = <<>> /\ inbuf = <<>> /\ Received = IF cmd.text = "CmdGetUSB5V" THEN 1 ELSE 2

ExchangeInv == TypeOK /\ AtLine /\ Caller /\ InputSeen /\ OnlyOwn /\ RestIsOwed

-----------------------------------------------------------------------------

\* A command is given a number that is free.
LEMMA FreeId ==
  ASSUME NEW F \in SUBSET Ids, F # {}
  PROVE  (CHOOSE i \in F : \A j \in F : i <= j) \in F
<1>1. F \in SUBSET Nat
  BY SerialExchangeAssumption DEF SerialExchangeAssumption
<1>. QED BY <1>1, LeastMember

\* An answer has as many pieces as Parts says, and names inputs or nothing.
LEMMA AnswerType ==
  ASSUME TypeOK, NEW text
  PROVE  /\ Len(Answer(text)) = Parts(text)
         /\ \A i \in 1..Parts(text) : Answer(text)[i] \in Hosts \cup {Unknown}
         /\ text = "CmdGetInput" => Answer(text)[1] = Unknown /\ Answer(text)[2] = input
<1>. input \in Hosts
  BY DEF TypeOK
<1>1. CASE text = "CmdGetInput"
  <2>1. Answer(text) = <<Unknown, input>> /\ Parts(text) = 2
    BY <1>1 DEF Answer, Parts
  <2>. QED BY <2>1
<1>2. CASE text # "CmdGetInput"
  <2>1. Parts(text) = 1 /\ (Answer(text) = <<"host1">> \/ Answer(text) = <<Unknown>>)
    BY <1>2 DEF Answer, Parts
  <2>. QED BY <1>2, <2>1
<1>. QED BY <1>1, <1>2

LEMMA InitExchange == Init => ExchangeInv
<1>. SUFFICES ASSUME Init PROVE ExchangeInv
  OBVIOUS
<1>1. NoCommand \in Line
  BY DEF NoCommand, Line
<1>2. TypeOK
  <2>1. \A S : <<>> \in Seq(S)
    BY EmptySeq
  <2>2. lines \in Seq(Line) /\ inbuf \in Seq(Piece) /\ out \in Seq(Piece)
    BY <2>1 DEF Init
  <2>3. noise \in BOOLEAN /\ heard \in BOOLEAN /\ clean \in BOOLEAN
    BY Zenon DEF Init
  <2>4. told \in 0..1 /\ phase = "idle" /\ cmd \in Line /\ seen \subseteq Hosts /\ input \in Hosts
    BY <1>1 DEF Init
  <2>. QED BY <2>2, <2>3, <2>4 DEF TypeOK
<1>3. AtLine /\ Caller /\ InputSeen
  BY DEF Init, AtLine, Caller, InputSeen
<1>4. OnlyOwn /\ RestIsOwed
  BY DEF Init, OnlyOwn, RestIsOwed, Prompt
<1>. QED BY <1>2, <1>3, <1>4 DEF ExchangeInv

\* The switch sends the next piece.
LEMMA HandleInv ==
  ASSUME ExchangeInv, Handle
  PROVE  ExchangeInv'
<1>. DEFINE line == Head(lines)
            part == told + 1
            piece == [id |-> line.id, text |-> line.text, part |-> part,
                      names |-> Answer(line.text)[part]]
<1>. TypeOK /\ AtLine /\ Caller /\ InputSeen /\ OnlyOwn /\ RestIsOwed
  BY DEF ExchangeInv
<1>1. lines # <<>> /\ line \in Line /\ told \in 0..1 /\ told < Parts(line.text)
  BY DEF Handle, TypeOK, AtLine
<1>2. part \in 1..Parts(line.text) /\ Answer(line.text)[part] \in Hosts \cup {Unknown}
  BY <1>1, AnswerType DEF Parts
<1>3. piece \in Piece
  BY <1>1, <1>2 DEF Line, Piece, Parts
<1>4. /\ inbuf' = Append(inbuf, piece) /\ UNCHANGED <<noise, clientVars>>
      /\ \/ part < Parts(line.text) /\ told' = part /\ lines' = lines
         \/ part = Parts(line.text) /\ told' = 0 /\ lines' = Tail(lines)
      /\ input' \in Hosts /\ seen' = IF seen = {} THEN {} ELSE seen \cup {input'}
  BY <1>1, <1>2, AnswerType DEF Handle, Select, Selects, TypeOK
<1>. HIDE DEF piece
<1>5. TypeOK'
  <2>1. inbuf' \in Seq(Piece)
    BY <1>3, <1>4 DEF TypeOK
  <2>2. lines' \in Seq(Line)
    BY <1>1, <1>4, HeadTailProperties DEF TypeOK
  <2>4. told' \in 0..1
    BY <1>1, <1>4 DEF Parts
  <2>3. seen' \subseteq Hosts
    BY <1>4 DEF TypeOK
  <2>. QED BY <1>4, <2>1, <2>2, <2>3, <2>4 DEF TypeOK, clientVars
<1>6. AtLine'
  BY <1>1, <1>4 DEF TypeOK, AtLine, Parts
<1>7. Caller' /\ InputSeen'
  BY <1>4 DEF Caller, InputSeen, clientVars
<1>8. ASSUME Prompt' PROVE OnlyOwn' /\ RestIsOwed'
  <2>1. Prompt /\ UNCHANGED <<phase, cmd, out>>
    BY <1>4, <1>8 DEF Prompt, clientVars
  <2>2. phase \in {"read", "more"} /\ Len(lines) = 1 /\ lines' \in {lines, <<>>}
    <3>1. phase \in {"read", "more"}
      BY <1>1, <2>1 DEF RestIsOwed, TypeOK, Prompt
    <3>2. Len(lines) = 1
      BY <1>1, <2>1, <3>1 DEF RestIsOwed
    <3>3. Tail(lines) = <<>>
      <4>1. Tail(lines) \in Seq(Line) /\ Len(Tail(lines)) = 0
        BY <1>1, <3>2, HeadTailProperties DEF TypeOK
      <4>. QED BY <4>1, EmptySeq
    <3>. QED BY <1>4, <3>1, <3>2, <3>3
  <2>3. Own(piece, Received + 1)
    <3>1. CASE phase = "read"
      <4>1. line = cmd /\ told = Received
        BY <1>1, <2>1, <3>1 DEF RestIsOwed
      <4>. QED
        BY <1>1, <1>2, <4>1, <2>1, AnswerType
        DEF Own, Parts, Prompt, InputSeen, Caller, piece, TypeOK
    <3>2. CASE phase = "more"
      <4>1. /\ line = [id |-> cmd.id, text |-> Confirm] /\ Received = 1
            /\ cmd.text = "CmdReset"
        BY <1>1, <2>1, <3>2 DEF RestIsOwed, Caller
      <4>2. part = 1
        BY <1>2, <4>1 DEF Parts
      <4>. QED BY <4>1, <4>2 DEF Own, piece
    <3>. QED BY <2>2, <3>1, <3>2
  <2>4. OnlyOwn'
    <3>1. \A q, i : Own(q, i) => Own(q, i)'
      BY <1>4, <2>1 DEF Own, InputSeen, Prompt
    <3>2. \A i \in 1..Len(inbuf') :
            \/ i \in 1..Len(inbuf) /\ inbuf'[i] = inbuf[i]
            \/ i = Len(inbuf) + 1 /\ inbuf'[i] = piece
      BY <1>3, <1>4 DEF TypeOK
    <3>3. \A i \in 1..Len(inbuf') : Own(inbuf'[i], Len(out) + i)
      <4>. TAKE i \in 1..Len(inbuf')
      <4>1. CASE i \in 1..Len(inbuf) /\ inbuf'[i] = inbuf[i]
        BY <2>1, <4>1 DEF OnlyOwn
      <4>2. CASE i = Len(inbuf) + 1 /\ inbuf'[i] = piece
        <5>1. Len(out) + i = Received + 1
          BY <4>2 DEF Received, TypeOK
        <5>. QED BY <2>3, <4>2, <5>1
      <4>. QED BY <3>2, <4>1, <4>2
    <3>. QED BY <1>8, <2>1, <3>1, <3>3 DEF OnlyOwn
  <2>5. Received' = Received + 1
    BY <1>3, <1>4, <2>1 DEF Received, TypeOK
  <2>6. RestIsOwed'
    BY <1>1, <1>4, <2>1, <2>2, <2>5 DEF RestIsOwed, TypeOK, Parts, Caller
  <2>. QED BY <2>4, <2>6
<1>. QED BY <1>5, <1>6, <1>7, <1>8 DEF ExchangeInv, OnlyOwn, RestIsOwed

\* What the switch does of its own accord.
LEMMA PanelInv ==
  ASSUME ExchangeInv, Panel \/ Chatter \/ UNCHANGED vars
  PROVE  ExchangeInv'
<1>. TypeOK /\ AtLine /\ Caller /\ InputSeen /\ OnlyOwn /\ RestIsOwed
  BY DEF ExchangeInv
<1>1. /\ UNCHANGED <<lines, told, inbuf, clientVars>>
      /\ noise' \in BOOLEAN /\ input' \in Hosts
      /\ \/ seen' = seen /\ input' = input
         \/ seen' = IF seen = {} THEN {} ELSE seen \cup {input'}
  BY DEF Panel, Chatter, Select, TypeOK, vars, lineVars
<1>2. TypeOK'
  BY <1>1 DEF TypeOK, clientVars
<1>3. AtLine' /\ Caller' /\ InputSeen'
  BY <1>1 DEF AtLine, Caller, InputSeen, clientVars
<1>4. Prompt' = Prompt /\ Received' = Received
  BY <1>1 DEF Prompt, Received, clientVars
<1>5. \A p, i : Own(p, i) /\ Prompt => Own(p, i)'
  BY <1>1 DEF Own, InputSeen, Prompt, clientVars
<1>6. OnlyOwn'
  BY <1>1, <1>4, <1>5 DEF OnlyOwn, clientVars
<1>7. RestIsOwed'
  BY <1>1, <1>4 DEF RestIsOwed, clientVars
<1>. QED BY <1>2, <1>3, <1>6, <1>7 DEF ExchangeInv

LEMMA DrainInv ==
  ASSUME ExchangeInv, NEW c \in Commands, Drain(c)
  PROVE  ExchangeInv'
<1>. TypeOK /\ AtLine /\ Caller
  BY DEF ExchangeInv
<1>1. /\ phase = "idle" /\ phase' = "write" /\ out = <<>>
      /\ cmd'.text = c /\ cmd' \in Line
      /\ clean' = (lines = <<>>)
      /\ seen' = IF c = "CmdGetInput" THEN {input} ELSE {}
      /\ inbuf' = <<>> /\ noise' = FALSE
      /\ UNCHANGED <<input, lines, told, out, heard>>
  BY FreeId DEF Drain, Begin, Line, Caller
<1>2. TypeOK'
  BY <1>1, EmptySeq DEF TypeOK
<1>3. AtLine' /\ Caller' /\ InputSeen'
  BY <1>1 DEF AtLine, Caller, InputSeen
<1>4. OnlyOwn' /\ RestIsOwed'
  <2>1. Len(out') = 0 /\ Len(inbuf') = 0
    BY <1>1, EmptySeq
  <2>2. Prompt' => lines' = <<>>
    BY <1>1 DEF Prompt
  <2>3. OnlyOwn'
    BY <2>1 DEF OnlyOwn
  <2>. QED BY <1>1, <2>1, <2>2, <2>3 DEF RestIsOwed, Received
<1>. QED BY <1>2, <1>3, <1>4 DEF ExchangeInv

\* A line is put behind those the switch has not handled.
LEMMA LineAdded ==
  ASSUME TypeOK, AtLine, NEW line \in Line, lines' = Append(lines, line), told' = told
  PROVE  /\ lines' \in Seq(Line)
         /\ lines = <<>> => lines' = <<line>>
         /\ AtLine'
<1>1. lines \in Seq(Line) /\ told \in 0..1
  BY DEF TypeOK
<1>2. lines' \in Seq(Line) /\ lines' # <<>>
  BY <1>1, AppendProperties
<1>3. CASE lines = <<>>
  <2>1. lines' = <<line>>
    BY <1>1, <1>3, AppendIsConcat, ConcatEmptySeq
  <2>. QED BY <1>2, <1>3, <2>1 DEF AtLine, Parts
<1>4. CASE lines # <<>>
  <2>1. Head(lines') = Head(lines)
    BY <1>1, <1>4, HeadTailAppend
  <2>. QED BY <1>2, <1>4, <2>1 DEF AtLine, Parts
<1>. QED BY <1>3, <1>4

\* A caller's step that leaves its command, the input and the pieces alone.
LEMMA OwnKept ==
  ASSUME OnlyOwn, phase # "idle", UNCHANGED <<cmd, clean, seen, out, inbuf>>
  PROVE  OnlyOwn'
<1>1. \A p, i : Own(p, i) => Own(p, i)'
  BY DEF Own
<1>. QED BY <1>1 DEF OnlyOwn, Prompt

LEMMA WriteInv ==
  ASSUME ExchangeInv, WriteLine \/ WriteConfirm
  PROVE  ExchangeInv'
<1>. TypeOK /\ AtLine /\ Caller /\ InputSeen /\ OnlyOwn /\ RestIsOwed
  BY DEF ExchangeInv
<1>. DEFINE line == IF phase = "write" THEN cmd ELSE [id |-> cmd.id, text |-> Confirm]
<1>1. /\ \/ phase = "write" /\ phase' = "read"
         \/ phase = "confirm" /\ phase' = "more"
      /\ lines' = Append(lines, line) /\ heard' = FALSE
      /\ UNCHANGED <<input, told, inbuf, noise, cmd, out, clean, seen>>
  BY DEF WriteLine, WriteConfirm
<1>2. line \in Line
  BY DEF TypeOK, Line
<1>. HIDE DEF line
<1>3. lines' \in Seq(Line) /\ (lines = <<>> => lines' = <<line>>) /\ AtLine'
  BY <1>1, <1>2, LineAdded
<1>4. TypeOK'
  BY <1>1, <1>3 DEF TypeOK
<1>5. Caller' /\ InputSeen'
  BY <1>1 DEF Caller, InputSeen
<1>6. OnlyOwn'
  BY <1>1, OwnKept
<1>7. RestIsOwed'
  <2>. SUFFICES ASSUME Prompt' PROVE RestIsOwed'
    BY DEF RestIsOwed
  <2>1. Prompt /\ Received' = Received
    BY <1>1 DEF Prompt, Received
  <2>2. lines = <<>> /\ lines' = <<line>>
    BY <1>1, <1>3, <2>1 DEF RestIsOwed
  <2>3. told' = 0
    BY <1>1, <2>2 DEF AtLine
  <2>. QED BY <1>1, <2>1, <2>2, <2>3 DEF RestIsOwed, line
<1>. QED BY <1>3, <1>4, <1>5, <1>6, <1>7 DEF ExchangeInv

LEMMA ReadInv ==
  ASSUME ExchangeInv, ReadMore
  PROVE  ExchangeInv'
<1>. TypeOK /\ AtLine /\ Caller /\ InputSeen /\ OnlyOwn /\ RestIsOwed
  BY DEF ExchangeInv
<1>1. /\ phase \in {"read", "more"}
      /\ out' = out \o inbuf /\ inbuf' = <<>>
      /\ heard' = TRUE /\ noise' = FALSE
      /\ UNCHANGED <<input, lines, told, phase, cmd, clean, seen>>
  BY DEF ReadMore, Reading
<1>2. /\ out' \in Seq(Piece) /\ Len(out') = Len(out) + Len(inbuf)
      /\ \A i \in 1..Len(out) + Len(inbuf) :
           out'[i] = IF i <= Len(out) THEN out[i] ELSE inbuf[i - Len(out)]
  BY <1>1, ConcatProperties DEF TypeOK
<1>3. TypeOK'
  BY <1>1, <1>2, EmptySeq DEF TypeOK
<1>4. AtLine' /\ Caller' /\ InputSeen'
  BY <1>1 DEF AtLine, Caller, InputSeen
<1>5. Prompt' = Prompt /\ Received' = Received
  BY <1>1, <1>2, EmptySeq DEF Prompt, Received, TypeOK
<1>6. OnlyOwn'
  <2>. SUFFICES ASSUME Prompt, NEW i \in 1..Len(out') PROVE (Own(out[i], i))'
    BY <1>1, <1>5, EmptySeq DEF OnlyOwn
  <2>0. Len(out) \in Nat /\ Len(inbuf) \in Nat
    BY LenProperties DEF TypeOK
  <2>1. Own(out'[i], i)
    <3>1. CASE i <= Len(out)
      BY <1>2, <2>0, <3>1 DEF OnlyOwn
    <3>2. CASE i > Len(out)
      <4>1. i - Len(out) \in 1..Len(inbuf) /\ out'[i] = inbuf[i - Len(out)]
        BY <1>2, <2>0, <3>2
      <4>2. Len(out) + (i - Len(out)) = i
        BY <2>0
      <4>3. Own(inbuf[i - Len(out)], Len(out) + (i - Len(out)))
        BY <4>1 DEF OnlyOwn
      <4>. QED BY <4>1, <4>2, <4>3
    <3>. QED BY <2>0, <1>2, <3>1, <3>2
  <2>. QED BY <1>1, <2>1 DEF Own
<1>7. RestIsOwed'
  BY <1>1, <1>5 DEF RestIsOwed
<1>. QED BY <1>3, <1>4, <1>6, <1>7 DEF ExchangeInv

\* A prompt command stops reading only when it has what it waits for: nothing
\* under way is slow, so it has waited out its own line.
LEMMA NothingLeft ==
  ASSUME ExchangeInv, Prompt, Reading, WaitedOut
  PROVE  lines = <<>> /\ inbuf = <<>>
<1>. TypeOK /\ Caller /\ OnlyOwn /\ RestIsOwed
  BY DEF ExchangeInv
<1>. /\ lines \in Seq(Line) /\ inbuf \in Seq(Piece)
     /\ Len(out) \in Nat /\ Len(inbuf) \in Nat
  BY LenProperties DEF TypeOK
<1>1. \A i \in 1..Len(inbuf) : inbuf[i].id = cmd.id /\ inbuf[i].text \in {cmd.text, Confirm}
  BY DEF OnlyOwn, Own
<1>2. \/ lines = <<>>
      \/ lines = <<cmd>>
      \/ lines = <<[id |-> cmd.id, text |-> Confirm]>>
  BY DEF RestIsOwed, Reading
<1>3. \A i \in 1..Len(lines) : lines[i].id = cmd.id /\ lines[i].text \in {cmd.text, Confirm}
  BY <1>2
<1>4. \A x \in Underway : x.id = cmd.id /\ x.text \in {cmd.text, Confirm}
  BY <1>1, <1>3 DEF Underway, ToSet
<1>5. cmd.text \notin Slow /\ Confirm \notin Slow
  BY SerialExchangeAssumption DEF SerialExchangeAssumption, AllCommands, Prompt
<1>6. cmd.id \notin InUse
  BY <1>4, <1>5 DEF WaitedOut, Busy
<1>7. Underway = {}
  BY <1>4, <1>6 DEF InUse
<1>8. ASSUME NEW S, NEW s \in Seq(S), ToSet(s) = {} PROVE s = <<>>
  <2>1. s # <<>> => 1 \in DOMAIN s
    BY EmptySeq, LenProperties
  <2>. QED BY <1>8, <2>1 DEF ToSet
<1>. QED BY <1>7, <1>8 DEF Underway

LEMMA FinishInv ==
  ASSUME ExchangeInv, Timeout \/ Deadline
  PROVE  ExchangeInv'
<1>. TypeOK /\ AtLine /\ Caller /\ InputSeen /\ OnlyOwn /\ RestIsOwed
  BY DEF ExchangeInv
<1>1. /\ Reading /\ WaitedOut
      /\ phase' = After(phase)
      /\ UNCHANGED <<lineVars, cmd, out, heard, clean, seen>>
  BY DEF Timeout, Deadline, FinishRead
<1>2. phase \in {"read", "more"} /\ phase' \in {"confirm", "done"}
  BY <1>1 DEF Reading, After
<1>3. TypeOK' /\ AtLine' /\ InputSeen'
  BY <1>1, <1>2 DEF TypeOK, AtLine, InputSeen, lineVars
<1>4. Caller'
  BY <1>1, <1>2 DEF Caller, After
<1>5. OnlyOwn'
  BY <1>1, <1>2, OwnKept DEF lineVars
<1>6. RestIsOwed'
  <2>. SUFFICES ASSUME Prompt' PROVE RestIsOwed'
    BY DEF RestIsOwed
  <2>1. Prompt /\ Received' = Received
    BY <1>1, <1>2 DEF Prompt, Received, lineVars
  <2>2. lines = <<>> /\ inbuf = <<>>
    BY <1>1, <2>1, NothingLeft
  <2>3. \/ phase = "read" /\ Received = Parts(cmd.text)
        \/ phase = "more" /\ Received = 2 /\ cmd.text = "CmdReset"
    BY <1>2, <2>1, <2>2 DEF RestIsOwed, Caller
  <2>4. cmd.text \in AllCommands
    BY <1>2, SerialExchangeAssumption DEF Caller, SerialExchangeAssumption
  <2>. QED
    BY <1>1, <1>2, <2>1, <2>2, <2>3, <2>4
    DEF RestIsOwed, After, Parts, AllCommands, lineVars
<1>. QED BY <1>3, <1>4, <1>5, <1>6 DEF ExchangeInv

LEMMA ReturnInv ==
  ASSUME ExchangeInv, Return
  PROVE  ExchangeInv'
<1>. TypeOK /\ AtLine
  BY DEF ExchangeInv
<1>1. /\ phase' = "idle" /\ cmd' = NoCommand /\ out' = <<>> /\ heard' = FALSE
      /\ seen' = {} /\ clean' = TRUE
      /\ UNCHANGED lineVars
  BY DEF Return
<1>2. out' \in Seq(Piece) /\ cmd' \in Line
  BY <1>1, EmptySeq DEF NoCommand, Line
<1>3. TypeOK'
  BY <1>1, <1>2 DEF TypeOK, lineVars
<1>4. AtLine' /\ Caller' /\ InputSeen'
  BY <1>1 DEF AtLine, Caller, InputSeen, lineVars
<1>5. ~Prompt'
  BY <1>1 DEF Prompt
<1>. QED BY <1>3, <1>4, <1>5 DEF ExchangeInv, OnlyOwn, RestIsOwed

LEMMA NextExchange == ExchangeInv /\ [Next]_vars => ExchangeInv'
BY DrainInv, WriteInv, ReadInv, FinishInv, ReturnInv, HandleInv, PanelInv DEF Next, Working

-----------------------------------------------------------------------------
(* Theorems *)

\* The inductive invariant: every value keeps its type, and a prompt command that
\* began when nothing was owed holds the beginning of its own answer, the rest of
\* which is owed to the one line the switch has.
THEOREM ExchangeCorrect == Spec => []ExchangeInv
<1>. QED BY InitExchange, NextExchange, PTL DEF Spec

\* Every variable of the exchange keeps its type: in particular a number is always
\* free for a command that begins, and pieces name an input or nothing.
THEOREM TypeCorrect == Spec => []TypeOK
<1>1. ExchangeInv => TypeOK
  BY DEF ExchangeInv
<1>. QED BY <1>1, ExchangeCorrect, PTL

\* What a whole answer is, piece by piece.
LEMMA WholeAnswer ==
  ASSUME ExchangeInv, Prompt, phase = "done"
  PROVE  GotOwn
<1>. TypeOK /\ Caller /\ OnlyOwn /\ RestIsOwed
  BY DEF ExchangeInv
<1>1. inbuf = <<>> /\ Len(out) = IF cmd.text = "CmdGetUSB5V" THEN 1 ELSE 2
  BY EmptySeq, LenProperties DEF RestIsOwed, Received, TypeOK
<1>2. DOMAIN out = 1..Len(out) /\ \A i \in 1..Len(out) : Own(out[i], i)
  BY LenProperties DEF OnlyOwn, TypeOK
<1>. DEFINE got == [i \in DOMAIN out |-> <<out[i].text, out[i].part>>]
<1>3. cmd.text \in AllCommands
  BY SerialExchangeAssumption DEF Caller, SerialExchangeAssumption
<1>4. got = Whole(cmd.text) => GotOwn
  BY <1>2 DEF GotOwn, Own
<1>. HIDE DEF got
<1>5. CASE cmd.text = "CmdGetUSB5V"
  <2>1. Whole(cmd.text) = <<<<cmd.text, 1>>>>
    BY <1>5 DEF Whole
  <2>2. DOMAIN got = 1..1 /\ got[1] = <<cmd.text, 1>>
    BY <1>1, <1>2, <1>5 DEF Own, got
  <2>3. got = Whole(cmd.text)
    BY <2>1, <2>2 DEF got
  <2>. QED BY <1>4, <2>3
<1>6. CASE cmd.text = "CmdGetInput"
  <2>1. Whole(cmd.text) = <<<<cmd.text, 1>>, <<cmd.text, 2>>>>
    BY <1>6 DEF Whole
  <2>2. DOMAIN got = 1..2 /\ got[1] = <<cmd.text, 1>> /\ got[2] = <<cmd.text, 2>>
    BY <1>1, <1>2, <1>6 DEF Own, got
  <2>3. got = Whole(cmd.text)
    BY <2>1, <2>2 DEF got
  <2>. QED BY <1>4, <2>3
<1>7. CASE cmd.text = "CmdReset"
  <2>1. Whole(cmd.text) = <<<<cmd.text, 1>>, <<Confirm, 1>>>>
    BY <1>7 DEF Whole
  <2>2. DOMAIN got = 1..2 /\ got[1] = <<cmd.text, 1>> /\ got[2] = <<Confirm, 1>>
    BY <1>1, <1>2, <1>7 DEF Own, got
  <2>3. got = Whole(cmd.text)
    BY <2>1, <2>2 DEF got
  <2>. QED BY <1>4, <2>3
<1>. QED BY <1>3, <1>5, <1>6, <1>7 DEF AllCommands

\* A command answered in time that begins when the switch owes nothing gets its whole
\* answer and nothing else, whatever commands are slow and however many the callers
\* have given up on before.
THEOREM ReplyIsOwn == Spec => []OwnReply
<1>1. ExchangeInv => OwnReply
  BY WholeAnswer DEF OwnReply, Prompt
<1>. QED BY <1>1, ExchangeCorrect, PTL

\* If "get input" is answered in time, the host ParseHost finds in its answer was
\* selected while it was asked.
THEOREM HostWasSelected ==
  ASSUME "CmdGetInput" \notin Slow
  PROVE  Spec => []HostIsCurrent
<1>1. ExchangeInv => HostIsCurrent
  <2>. SUFFICES ASSUME ExchangeInv, phase = "done", clean, cmd.text = "CmdGetInput"
                PROVE  ParseHost \in seen
    BY DEF HostIsCurrent
  <2>. TypeOK /\ OnlyOwn /\ RestIsOwed /\ Prompt
    BY DEF ExchangeInv, Prompt
  <2>1. Len(out) = 2
    BY EmptySeq, LenProperties DEF RestIsOwed, Received, TypeOK
  <2>2. out[1].names = Unknown /\ out[2].names \in seen /\ seen \subseteq Hosts
    BY <2>1 DEF OnlyOwn, Own, TypeOK
  <2>. DEFINE I == {i \in 1..Len(out) : out[i].names # Unknown}
  <2>3. I = {2}
    BY <2>1, <2>2
  <2>4. Min(I) = 2
    BY <2>3 DEF Min
  <2>5. SelectInSeq(out, LAMBDA p : p.names # Unknown) = 2
    BY <2>3, <2>4 DEF SelectInSeq
  <2>. QED BY <2>2, <2>5 DEF ParseHost
<1>. QED BY <1>1, ExchangeCorrect, PTL

=============================================================================
