--------------------------- MODULE UsbCycleProofs ---------------------------
(***************************************************************************)
(* Theorems about the power cycles of the USB device ports, for any number *)
(* of overlapping cycles and any plans.                                    *)
(***************************************************************************)
EXTENDS UsbCycle, SequenceTheorems, TLAPS

Steps == {"off", "sleep", "on"} \X Sides

Has(steps, step) == \E i \in DOMAIN steps : steps[i] = step

\* What a program turns off it turns on again later.
Balanced(steps) ==
  \A i \in DOMAIN steps :
    steps[i][1] = "off" => \E j \in DOMAIN steps : i < j /\ steps[j] = <<"on", steps[i][2]>>

\* It switches the ports of these sides only.
Within(steps, sides) ==
  \A i \in DOMAIN steps : steps[i][1] # "sleep" => steps[i][2] \in sides

\* Only a running cycle has steps left; one that was never started has no plan.
PhaseFits ==
  \A c \in Cycles :
    /\ phase[c] # "running" => todo[c] = <<>>
    /\ phase[c] = "idle" => plan[c].sides = {}
    /\ phase[c] = "running" => plan[c].restore # "off"

\* What is left of a program is such a program too.
TodoFits ==
  \A c \in Cycles : Balanced(todo[c]) /\ Within(todo[c], plan[c].sides)

\* No other cycle was asked to touch the ports of this one.
Alone(c) == \A d \in Cycles \ {c} : Covered(c) \cap Covered(d) = {}

\* Such a cycle, if nothing failed, has restored its ports or still will, except
\* where it went without an answer.
Restoring ==
  \A c \in Cycles : ~failed[c] /\ Alone(c) =>
    \A p \in Covered(c) :
      power[p] = plan[c].restore \/ Owes(c, p) \/ p[1] \in unconfirmed[c]

CycleInv == TypeOK /\ PhaseFits /\ TodoFits /\ OffIsOwed /\ OnlyCovered /\ Restoring

-----------------------------------------------------------------------------
(* Programs *)

\* Concatenation, in terms of the predicates above.
LEMMA ConcatFits ==
  ASSUME NEW s \in Seq(Steps), NEW t \in Seq(Steps), NEW sides
  PROVE  /\ s \o t \in Seq(Steps)
         /\ \A step : Has(s \o t, step) <=> Has(s, step) \/ Has(t, step)
         /\ Within(s, sides) /\ Within(t, sides) => Within(s \o t, sides)
         /\ Balanced(s) /\ Balanced(t) => Balanced(s \o t)
<1>. DEFINE st == s \o t
<1>1. /\ st \in Seq(Steps)
      /\ DOMAIN s = 1..Len(s) /\ DOMAIN t = 1..Len(t) /\ DOMAIN st = 1..(Len(s) + Len(t))
      /\ Len(s) \in Nat /\ Len(t) \in Nat
      /\ \A i \in 1..Len(s) : st[i] = s[i]
      /\ \A i \in 1..Len(t) : st[Len(s) + i] = t[i]
  BY ConcatProperties, LenProperties
<1>2. \A i \in DOMAIN st : i \in DOMAIN s \/ \E k \in DOMAIN t : i = Len(s) + k
  <2>. TAKE i \in DOMAIN st
  <2>1. CASE i <= Len(s)  BY <1>1, <2>1
  <2>2. CASE i > Len(s)
    <3>1. i - Len(s) \in DOMAIN t /\ i = Len(s) + (i - Len(s))  BY <1>1, <2>2
    <3>. QED BY <3>1
  <2>. QED BY <1>1, <2>1, <2>2
<1>3. \A i \in DOMAIN s : i \in DOMAIN st  BY <1>1
<1>4. \A i \in DOMAIN t : Len(s) + i \in DOMAIN st  BY <1>1
<1>. HIDE DEF st
<1>5. \A step : Has(st, step) <=> Has(s, step) \/ Has(t, step)
  BY <1>1, <1>2, <1>3, <1>4 DEF Has
<1>6. Within(s, sides) /\ Within(t, sides) => Within(st, sides)
  BY <1>1, <1>2 DEF Within
<1>7. ASSUME Balanced(s), Balanced(t) PROVE Balanced(st)
  <2>. SUFFICES ASSUME NEW i \in DOMAIN st, st[i][1] = "off"
                PROVE  \E j \in DOMAIN st : i < j /\ st[j] = <<"on", st[i][2]>>
    BY DEF Balanced
  <2>1. CASE i \in DOMAIN s
    <3>1. PICK j \in DOMAIN s : i < j /\ s[j] = <<"on", s[i][2]>>
      BY <1>1, <1>7, <2>1 DEF Balanced
    <3>. QED BY <1>1, <1>3, <2>1, <3>1
  <2>2. CASE \E k \in DOMAIN t : i = Len(s) + k
    <3>1. PICK k \in DOMAIN t : i = Len(s) + k  BY <2>2
    <3>2. PICK j \in DOMAIN t : k < j /\ t[j] = <<"on", t[k][2]>>
      BY <1>1, <1>7, <3>1 DEF Balanced
    <3>3. Len(s) + j \in DOMAIN st /\ i < Len(s) + j  BY <1>1, <1>4, <3>1, <3>2
    <3>. QED BY <1>1, <3>1, <3>2, <3>3
  <2>. QED BY <1>2, <2>1, <2>2
<1>. QED BY <1>1, <1>5, <1>6, <1>7 DEF st

\* A program may end with the steps that balance it.
LEMMA BalancedBy ==
  ASSUME NEW s \in Seq(Steps), NEW t \in Seq(Steps), Balanced(t),
         \A i \in DOMAIN s : s[i][1] = "off" => Has(t, <<"on", s[i][2]>>)
  PROVE  Balanced(s \o t)
<1>1. /\ s \o t \in Seq(Steps)
      /\ DOMAIN s = 1..Len(s) /\ DOMAIN t = 1..Len(t)
      /\ DOMAIN (s \o t) = 1..(Len(s) + Len(t))
      /\ Len(s) \in Nat /\ Len(t) \in Nat
      /\ \A i \in 1..Len(s) : (s \o t)[i] = s[i]
      /\ \A i \in 1..Len(t) : (s \o t)[Len(s) + i] = t[i]
  BY ConcatProperties, LenProperties
<1>. DEFINE st == s \o t
<1>. SUFFICES ASSUME NEW i \in DOMAIN st, st[i][1] = "off"
              PROVE  \E j \in DOMAIN st : i < j /\ st[j] = <<"on", st[i][2]>>
  BY DEF Balanced
<1>2. CASE i <= Len(s)
  <2>1. i \in DOMAIN s /\ st[i] = s[i]  BY <1>1, <1>2
  <2>2. PICK j \in DOMAIN t : t[j] = <<"on", s[i][2]>>  BY <2>1 DEF Has
  <2>3. Len(s) + j \in DOMAIN st /\ i < Len(s) + j  BY <1>1, <1>2, <2>2
  <2>. QED BY <1>1, <2>1, <2>2, <2>3
<1>3. CASE i > Len(s)
  <2>1. PICK k \in DOMAIN t : i = Len(s) + k /\ st[i] = t[k]
    <3>1. i - Len(s) \in 1..Len(t) /\ i = Len(s) + (i - Len(s))  BY <1>1, <1>3
    <3>. QED BY <1>1, <3>1
  <2>2. PICK j \in DOMAIN t : k < j /\ t[j] = <<"on", t[k][2]>>
    BY <2>1 DEF Balanced
  <2>3. Len(s) + j \in DOMAIN st /\ i < Len(s) + j  BY <1>1, <2>1, <2>2
  <2>. QED BY <1>1, <2>1, <2>2, <2>3
<1>4. i <= Len(s) \/ i > Len(s)  BY <1>1
<1>. QED BY <1>2, <1>3, <1>4

LEMMA OneStep ==
  ASSUME NEW step \in Steps
  PROVE  /\ <<step>> \in Seq(Steps) /\ Has(<<step>>, step)
         /\ \A i \in DOMAIN <<step>> : <<step>>[i] = step
BY DEF Has

LEMMA NoStep ==
  ASSUME NEW sides
  PROVE  <<>> \in Seq(Steps) /\ Balanced(<<>>) /\ Within(<<>>, sides)
BY DEF Balanced, Within

LEMMA EachFits ==
  ASSUME NEW kind \in {"off", "on"}, NEW sides \in SUBSET Sides
  PROVE  /\ Each(kind, sides) \in Seq(Steps)
         /\ \A i \in DOMAIN Each(kind, sides) :
              Each(kind, sides)[i][1] = kind /\ Each(kind, sides)[i][2] \in sides
         /\ \A side \in sides : Has(Each(kind, sides), <<kind, side>>)
<1>. DEFINE rx == IF "rx" \in sides THEN <<<<kind, "rx">>>> ELSE <<>>
            tx == IF "tx" \in sides THEN <<<<kind, "tx">>>> ELSE <<>>
<1>1. <<kind, "rx">> \in Steps /\ <<kind, "tx">> \in Steps  BY DEF Steps, Sides
<1>2. /\ rx \in Seq(Steps)
      /\ "rx" \in sides => Has(rx, <<kind, "rx">>)
      /\ \A i \in DOMAIN rx : rx[i][1] = kind /\ rx[i][2] \in sides
  BY <1>1, OneStep, NoStep
<1>3. /\ tx \in Seq(Steps)
      /\ "tx" \in sides => Has(tx, <<kind, "tx">>)
      /\ \A i \in DOMAIN tx : tx[i][1] = kind /\ tx[i][2] \in sides
  BY <1>1, OneStep, NoStep
<1>4. Each(kind, sides) = rx \o tx  BY DEF Each
<1>. HIDE DEF rx, tx
<1>5. /\ Each(kind, sides) \in Seq(Steps)
      /\ \A step : Has(Each(kind, sides), step) <=> Has(rx, step) \/ Has(tx, step)
  <2>1. rx \in Seq(Steps) /\ tx \in Seq(Steps)  BY <1>2, <1>3
  <2>. QED BY <1>4, <2>1, ConcatFits
<1>6. ASSUME NEW i \in DOMAIN Each(kind, sides)
      PROVE  Each(kind, sides)[i][1] = kind /\ Each(kind, sides)[i][2] \in sides
  <2>. DEFINE step == Each(kind, sides)[i]
  <2>1. Has(Each(kind, sides), step)  BY DEF Has
  <2>. HIDE DEF step
  <2>2. \/ \E j \in DOMAIN rx : step = rx[j]
        \/ \E j \in DOMAIN tx : step = tx[j]
    BY <1>5, <2>1 DEF Has
  <2>3. step[1] = kind /\ step[2] \in sides  BY <1>2, <1>3, <2>2
  <2>. QED BY <2>3 DEF step
<1>7. \A side \in sides : Has(Each(kind, sides), <<kind, side>>)
  BY <1>2, <1>3, <1>5 DEF Sides
<1>. QED BY <1>5, <1>6, <1>7

LEMMA SleepFits ==
  ASSUME NEW p, NEW side \in Sides, NEW sides
  PROVE  /\ Sleep(p, side) \in Seq(Steps)
         /\ Balanced(Sleep(p, side)) /\ Within(Sleep(p, side), sides)
<1>1. CASE Sleep(p, side) = <<>>
  BY <1>1, NoStep
<1>2. CASE Sleep(p, side) = <<<<"sleep", side>>>>
  <2>1. <<"sleep", side>> \in Steps  BY DEF Steps
  <2>. QED BY <1>2, <2>1, OneStep DEF Balanced, Within
<1>. QED BY <1>1, <1>2 DEF Sleep

LEMMA SideFits ==
  ASSUME NEW p \in PlanType, NEW side \in Sides
  PROVE  /\ SideProgram(p, side) \in Seq(Steps)
         /\ Balanced(SideProgram(p, side)) /\ Within(SideProgram(p, side), p.sides)
         /\ side \in p.sides => Has(SideProgram(p, side), <<"on", side>>)
<1>1. CASE side \notin p.sides
  BY <1>1, NoStep DEF SideProgram
<1>2. CASE side \in p.sides
  <2>. DEFINE off == <<<<"off", side>>>>
              on == <<<<"on", side>>>>
              rest == Sleep(p, side) \o on
  <2>1. <<"off", side>> \in Steps /\ <<"on", side>> \in Steps  BY DEF Steps
  <2>2. /\ off \in Seq(Steps) /\ on \in Seq(Steps)
        /\ Has(on, <<"on", side>>)
        /\ \A i \in DOMAIN off : off[i] = <<"off", side>>
        /\ \A i \in DOMAIN on : on[i] = <<"on", side>>
    BY <2>1, OneStep
  <2>3. Balanced(on) /\ Within(on, p.sides) /\ Within(off, p.sides)
    BY <1>2, <2>2 DEF Balanced, Within
  <2>4. SideProgram(p, side) = (off \o Sleep(p, side)) \o on
    BY <1>2 DEF SideProgram
  <2>. HIDE DEF off, on
  <2>5. /\ rest \in Seq(Steps) /\ Balanced(rest) /\ Within(rest, p.sides)
        /\ Has(rest, <<"on", side>>)
    BY <2>2, <2>3, SleepFits, ConcatFits
  <2>6. SideProgram(p, side) = off \o rest
    BY <2>2, <2>4, SleepFits, ConcatAssociative
  <2>. HIDE DEF rest
  <2>7. \A i \in DOMAIN off : off[i][1] = "off" => Has(rest, <<"on", off[i][2]>>)
    <3>1. \A i \in DOMAIN off : off[i][2] = side  BY <2>2
    <3>. QED BY <2>5, <3>1
  <2>8. Balanced(off \o rest)  BY <2>2, <2>5, <2>7, BalancedBy
  <2>. QED BY <2>2, <2>3, <2>5, <2>6, <2>8, ConcatFits
<1>. QED BY <1>1, <1>2

LEMMA DaemonFits ==
  ASSUME NEW p \in PlanType
  PROVE  /\ DaemonProgram(p) \in Seq(Steps)
         /\ Balanced(DaemonProgram(p)) /\ Within(DaemonProgram(p), p.sides)
         /\ \A side \in p.sides : Has(DaemonProgram(p), <<"on", side>>)
<1>. DEFINE offs == Each("off", p.sides)
            ons == Each("on", p.sides)
            rest == Sleep(p, "rx") \o ons
<1>1. p.sides \in SUBSET Sides /\ "rx" \in Sides  BY DEF PlanType, Sides
<1>2. /\ offs \in Seq(Steps) /\ ons \in Seq(Steps)
      /\ \A i \in DOMAIN offs : offs[i][1] = "off" /\ offs[i][2] \in p.sides
      /\ \A i \in DOMAIN ons : ons[i][1] = "on" /\ ons[i][2] \in p.sides
      /\ \A side \in p.sides : Has(ons, <<"on", side>>)
  BY <1>1, EachFits
<1>3. DaemonProgram(p) = (offs \o Sleep(p, "rx")) \o ons  BY DEF DaemonProgram
<1>. HIDE DEF offs, ons
<1>4. Balanced(ons) /\ Within(ons, p.sides) /\ Within(offs, p.sides)
  BY <1>2 DEF Balanced, Within
<1>5. /\ rest \in Seq(Steps) /\ Balanced(rest) /\ Within(rest, p.sides)
      /\ \A side \in p.sides : Has(rest, <<"on", side>>)
  BY <1>1, <1>2, <1>4, SleepFits, ConcatFits
<1>6. DaemonProgram(p) = offs \o rest
  <2>1. Sleep(p, "rx") \in Seq(Steps)  BY <1>1, SleepFits
  <2>2. (offs \o Sleep(p, "rx")) \o ons = offs \o (Sleep(p, "rx") \o ons)
    BY <1>2, <2>1, ConcatAssociative
  <2>. QED BY <1>3, <2>2
<1>. HIDE DEF rest
<1>7. Balanced(offs \o rest)  BY <1>2, <1>5, BalancedBy
<1>. QED BY <1>2, <1>4, <1>5, <1>6, <1>7, ConcatFits

\* Whatever the plan, its program restores every side it covers, and turns none
\* off that it does not restore after that.
LEMMA ProgramFits ==
  ASSUME NEW p \in PlanType
  PROVE  /\ Program(p) \in Seq(Steps)
         /\ Balanced(Program(p)) /\ Within(Program(p), p.sides)
         /\ \A side \in p.sides : Has(Program(p), <<"on", side>>)
<1>1. CASE p.driver = "daemon"
  BY <1>1, DaemonFits DEF Program
<1>2. CASE p.driver # "daemon"
  <2>1. p.sides \subseteq {"rx", "tx"}  BY DEF PlanType, Sides
  <2>2. "rx" \in Sides /\ "tx" \in Sides  BY DEF Sides
  <2>3. Program(p) = SideProgram(p, "rx") \o SideProgram(p, "tx")  BY <1>2 DEF Program
  <2>4. /\ Program(p) \in Seq(Steps)
        /\ Balanced(Program(p)) /\ Within(Program(p), p.sides)
        /\ \A step : Has(Program(p), step) <=>
             Has(SideProgram(p, "rx"), step) \/ Has(SideProgram(p, "tx"), step)
    <3>1. /\ SideProgram(p, "rx") \in Seq(Steps) /\ SideProgram(p, "tx") \in Seq(Steps)
          /\ Balanced(SideProgram(p, "rx")) /\ Balanced(SideProgram(p, "tx"))
          /\ Within(SideProgram(p, "rx"), p.sides) /\ Within(SideProgram(p, "tx"), p.sides)
      BY <2>2, SideFits
    <3>. QED BY <2>3, <3>1, ConcatFits
  <2>5. \A side \in p.sides : Has(Program(p), <<"on", side>>)
    BY <2>1, <2>2, <2>4, SideFits
  <2>. QED BY <2>4, <2>5
<1>. QED BY <1>1, <1>2

\* What is left after a step.
LEMMA TailFits ==
  ASSUME NEW s \in Seq(Steps), s # <<>>, NEW sides
  PROVE  /\ Head(s) \in Steps /\ Tail(s) \in Seq(Steps)
         /\ \A step : Has(s, step) <=> step = Head(s) \/ Has(Tail(s), step)
         /\ Within(s, sides) => Within(Tail(s), sides)
         /\ Within(s, sides) /\ Head(s)[1] # "sleep" => Head(s)[2] \in sides
         /\ Balanced(s) => Balanced(Tail(s))
         /\ Balanced(s) /\ Head(s)[1] = "off" => Has(Tail(s), <<"on", Head(s)[2]>>)
<1>1. /\ Head(s) \in Steps /\ Tail(s) \in Seq(Steps)
      /\ Len(s) \in Nat /\ Len(s) >= 1 /\ DOMAIN s = 1..Len(s) /\ Head(s) = s[1]
      /\ DOMAIN Tail(s) = 1..(Len(s) - 1)
      /\ \A i \in 1..(Len(s) - 1) : Tail(s)[i] = s[i + 1]
  BY HeadTailProperties, LenProperties, EmptySeq
<1>2. \A i \in DOMAIN s : i = 1 \/ (i - 1 \in DOMAIN Tail(s) /\ s[i] = Tail(s)[i - 1])
  BY <1>1
<1>3. \A i \in DOMAIN Tail(s) : i + 1 \in DOMAIN s /\ Tail(s)[i] = s[i + 1]
  BY <1>1
<1>4. 1 \in DOMAIN s  BY <1>1
<1>5. \A step : Has(s, step) <=> step = Head(s) \/ Has(Tail(s), step)
  <2>. TAKE step
  <2>1. Has(s, step) => step = Head(s) \/ Has(Tail(s), step)  BY <1>1, <1>2 DEF Has
  <2>2. step = Head(s) => Has(s, step)  BY <1>1, <1>4 DEF Has
  <2>3. Has(Tail(s), step) => Has(s, step)  BY <1>3 DEF Has
  <2>. QED BY <2>1, <2>2, <2>3
<1>6. /\ Within(s, sides) => Within(Tail(s), sides)
      /\ Within(s, sides) /\ Head(s)[1] # "sleep" => Head(s)[2] \in sides
  BY <1>1, <1>3, <1>4 DEF Within
<1>7. ASSUME Balanced(s), NEW i \in DOMAIN s, s[i][1] = "off"
      PROVE  \E j \in DOMAIN Tail(s) : i <= j /\ Tail(s)[j] = <<"on", s[i][2]>>
  <2>1. PICK j \in DOMAIN s : i < j /\ s[j] = <<"on", s[i][2]>>  BY <1>7 DEF Balanced
  <2>2. j - 1 \in DOMAIN Tail(s) /\ i <= j - 1 /\ Tail(s)[j - 1] = s[j]  BY <1>1, <2>1
  <2>. QED BY <2>1, <2>2
<1>8. ASSUME Balanced(s) PROVE Balanced(Tail(s))
  <2>. SUFFICES ASSUME NEW i \in DOMAIN Tail(s), Tail(s)[i][1] = "off"
                PROVE  \E j \in DOMAIN Tail(s) :
                         i < j /\ Tail(s)[j] = <<"on", Tail(s)[i][2]>>
    BY DEF Balanced
  <2>1. PICK j \in DOMAIN Tail(s) : i + 1 <= j /\ Tail(s)[j] = <<"on", s[i + 1][2]>>
    BY <1>3, <1>7, <1>8
  <2>. QED BY <1>1, <1>3, <2>1
<1>9. ASSUME Balanced(s), Head(s)[1] = "off" PROVE Has(Tail(s), <<"on", Head(s)[2]>>)
  BY <1>1, <1>4, <1>7, <1>9 DEF Has
<1>. QED BY <1>1, <1>5, <1>6, <1>8, <1>9

-----------------------------------------------------------------------------
(* Steps *)

LEMMA InitCycle == Init => CycleInv
<1>. SUFFICES ASSUME Init PROVE CycleInv
  OBVIOUS
<1>. USE DEF Init
<1>1. NoPlan \in PlanType /\ NoPlan.sides = {}
  BY DEF NoPlan, PlanType, Drivers, Modes, Sides
<1>2. <<>> \in Seq({"off", "sleep", "on"} \X Sides)
  OBVIOUS
<1>3. TypeOK
  BY <1>1, <1>2 DEF TypeOK, Modes
<1>4. \A c \in Cycles : Covered(c) = {}
  BY <1>1 DEF Covered
<1>5. PhaseFits /\ TodoFits
  BY <1>1, NoStep DEF PhaseFits, TodoFits
<1>6. OffIsOwed /\ OnlyCovered /\ Restoring
  BY <1>4 DEF OffIsOwed, OnlyCovered, Restoring
<1>. QED BY <1>3, <1>5, <1>6 DEF CycleInv

LEMMA CoveredIs ==
  ASSUME TypeOK, NEW c \in Cycles, NEW p
  PROVE  p \in Covered(c) <=>
           /\ p \in Ports /\ p[1] \in plan[c].sides
           /\ plan[c].port = 0 \/ p[2] = plan[c].port
BY DEF Covered, Named

\* The first step of a running cycle, and what it leaves.
LEMMA Ahead ==
  ASSUME CycleInv, NEW c \in Cycles, Running(c)
  PROVE  /\ Kind(c) \in {"off", "sleep", "on"} /\ Side(c) \in Sides
         /\ Upcoming(c) = <<Kind(c), Side(c)>>
         /\ Kind(c) # "sleep" => Side(c) \in plan[c].sides
         /\ Tail(todo[c]) \in Seq(Steps)
         /\ Balanced(Tail(todo[c])) /\ Within(Tail(todo[c]), plan[c].sides)
         /\ \A step : Has(todo[c], step) <=> step = Upcoming(c) \/ Has(Tail(todo[c]), step)
         /\ Kind(c) = "off" => Has(Tail(todo[c]), <<"on", Side(c)>>)
<1>1. /\ todo[c] \in Seq(Steps) /\ todo[c] # <<>>
      /\ Balanced(todo[c]) /\ Within(todo[c], plan[c].sides)
  BY DEF CycleInv, TypeOK, TodoFits, Running, Steps
<1>2. Head(todo[c]) \in Steps
  BY <1>1, TailFits
<1>3. Kind(c) \in {"off", "sleep", "on"} /\ Side(c) \in Sides
      /\ Upcoming(c) = <<Kind(c), Side(c)>>
  BY <1>2 DEF Kind, Side, Upcoming, Steps
<1>. QED BY <1>1, <1>3, TailFits DEF Kind, Side, Upcoming

\* What a command does to the ports: those of its side that the plan covers.
LEMMA PowerSet ==
  ASSUME CycleInv, NEW c \in Cycles, Running(c), Kind(c) # "sleep", SetPower(c), NEW p \in Ports
  PROVE  power'[p] =
           IF p \in Covered(c) /\ p[1] = Side(c)
           THEN IF Kind(c) = "off" THEN "off" ELSE plan[c].restore
           ELSE power[p]
<1>1. p \in Named(Side(c), plan[c].port) <=> p \in Covered(c) /\ p[1] = Side(c)
  BY Ahead, CoveredIs DEF Named, CycleInv
<1>. QED BY <1>1 DEF SetPower

LEMMA NextType == CycleInv /\ [Next]_vars => TypeOK'
<1>. SUFFICES ASSUME CycleInv, [Next]_vars PROVE TypeOK'
  OBVIOUS
<1>0. TypeOK  BY DEF CycleInv
<1>1. CASE UNCHANGED vars
  BY <1>0, <1>1 DEF vars, TypeOK
<1>2. ASSUME NEW c \in Cycles, Start(c) PROVE TypeOK'
  <2>1. PICK p \in Plans :
          /\ plan' = [plan EXCEPT ![c] = p]
          /\ \/ /\ phase' = [phase EXCEPT ![c] = "running"]
                /\ todo' = [todo EXCEPT ![c] = Program(p)]
                /\ UNCHANGED failed
             \/ /\ phase' = [phase EXCEPT ![c] = "done"]
                /\ failed' = [failed EXCEPT ![c] = TRUE]
                /\ UNCHANGED todo
    BY <1>2 DEF Start
  <2>2. p \in PlanType  BY UsbCycleAssumption DEF UsbCycleAssumption
  <2>3. Program(p) \in Seq({"off", "sleep", "on"} \X Sides)  BY <2>2, ProgramFits DEF Steps
  <2>4. UNCHANGED <<power, linked, unconfirmed>>  BY <1>2 DEF Start
  <2>5. todo' \in [Cycles -> Seq({"off", "sleep", "on"} \X Sides)]
    BY <1>0, <2>1, <2>3 DEF TypeOK
  <2>. QED BY <1>0, <2>1, <2>2, <2>4, <2>5 DEF TypeOK
<1>3. ASSUME NEW c \in Cycles, Running(c), SetPower(c), Kind(c) # "sleep"
      PROVE  power' \in [Ports -> Modes]
  BY <1>0, <1>3 DEF SetPower, TypeOK, PlanType, Modes
<1>4. ASSUME NEW c \in Cycles, Running(c)
      PROVE  /\ Tail(todo[c]) \in Seq({"off", "sleep", "on"} \X Sides)
             /\ <<>> \in Seq({"off", "sleep", "on"} \X Sides)
  <2>1. Tail(todo[c]) \in Seq(Steps)  BY <1>4, Ahead
  <2>. QED BY <2>1, NoStep DEF Steps
<1>5. ASSUME NEW c \in Cycles, Answered(c) PROVE TypeOK'
  <2>1. power' \in [Ports -> Modes]  BY <1>3, <1>5 DEF Answered
  <2>2. linked' \in BOOLEAN  BY <1>5 DEF Answered, Reachable
  <2>3. Advance(c) /\ Running(c) /\ UNCHANGED <<plan, phase, failed, unconfirmed>>
    BY <1>5 DEF Answered
  <2>. QED BY <1>0, <1>4, <2>1, <2>2, <2>3 DEF TypeOK, Advance
<1>10. ASSUME NEW c \in Cycles, Silence(c) PROVE TypeOK'
  <2>1. power' \in [Ports -> Modes] /\ linked' \in BOOLEAN
    <3>1. CASE linked   BY <1>3, <1>10, <3>1 DEF Silence, Reachable
    <3>2. CASE ~linked  BY <1>0, <1>10, <3>2 DEF Silence, TypeOK
    <3>. QED BY <3>1, <3>2
  <2>2. unconfirmed' \in [Cycles -> SUBSET Sides]
    BY <1>0, <1>10, Ahead DEF Silence, TypeOK
  <2>3. Advance(c) /\ Running(c) /\ UNCHANGED <<plan, phase, failed>>  BY <1>10 DEF Silence
  <2>. QED BY <1>0, <1>4, <2>1, <2>2, <2>3 DEF TypeOK, Advance
<1>6. ASSUME NEW c \in Cycles, Unheard(c) PROVE TypeOK'
  BY <1>0, <1>4, <1>6 DEF TypeOK, Unheard, GiveUp
<1>7. ASSUME NEW c \in Cycles, Unanswered(c) PROVE TypeOK'
  <2>1. power' \in [Ports -> Modes] /\ linked' \in BOOLEAN  BY <1>3, <1>7 DEF Unanswered
  <2>2. GiveUp(c) /\ Running(c)  BY <1>7 DEF Unanswered
  <2>. QED BY <1>0, <1>4, <2>1, <2>2 DEF TypeOK, GiveUp
<1>8. ASSUME NEW c \in Cycles, Wake(c) \/ End(c) \/ Kill(c) PROVE TypeOK'
  <2>1. <<>> \in Seq({"off", "sleep", "on"} \X Sides)  OBVIOUS
  <2>2. CASE Wake(c)
    <3>1. Running(c) /\ Advance(c) /\ UNCHANGED <<power, linked, plan, phase, failed, unconfirmed>>
      BY <2>2 DEF Wake
    <3>. QED BY <1>0, <1>4, <3>1 DEF TypeOK, Advance
  <2>3. CASE End(c)   BY <1>0, <2>3 DEF TypeOK, End
  <2>4. CASE Kill(c)  BY <1>0, <2>1, <2>4 DEF TypeOK, Kill
  <2>. QED BY <1>8, <2>2, <2>3, <2>4
<1>9. CASE LinkChanges
  BY <1>0, <1>9 DEF LinkChanges, Reachable, TypeOK
<1>. QED BY <1>1, <1>2, <1>5, <1>6, <1>7, <1>8, <1>9, <1>10 DEF Next, Step, Finished

\* What CycleInv says besides the types.
CycleParts == PhaseFits /\ TodoFits /\ OffIsOwed /\ OnlyCovered /\ Restoring

LEMMA OwesIs ==
  ASSUME NEW c, NEW p
  PROVE  /\ Owes(c, p) <=> Has(todo[c], <<"on", p[1]>>)
         /\ Owes(c, p)' <=> Has(todo'[c], <<"on", p[1]>>)
BY DEF Owes, Has

LEMMA CoveredSame ==
  ASSUME UNCHANGED plan, NEW c
  PROVE  Covered(c)' = Covered(c) /\ (Alone(c)' <=> Alone(c))
BY DEF Covered, Alone

\* A cycle that reports an error owes nothing more.
LEMMA FailingInv ==
  ASSUME CycleInv, NEW c \in Cycles, phase[c] = "running",
         UNCHANGED <<plan, unconfirmed>>, failed' = [failed EXCEPT ![c] = TRUE],
         power' \in [Ports -> Modes], \A p \in Ports : p \in Covered(c) \/ power'[p] = power[p],
         \/ todo' = [todo EXCEPT ![c] = <<>>] /\ phase' \in {phase, [phase EXCEPT ![c] = "done"]}
         \/ todo' = [todo EXCEPT ![c] = Tail(@)] /\ Running(c) /\ UNCHANGED phase
  PROVE  CycleParts'
<1>. USE DEF CycleInv, TypeOK
<1>1. \A d \in Cycles : d # c => todo'[d] = todo[d] /\ phase'[d] = phase[d] /\ failed'[d] = failed[d]
  OBVIOUS
<1>2. failed'[c]
  OBVIOUS
<1>3. PhaseFits'
  BY <1>1 DEF PhaseFits
<1>4. TodoFits'
  <2>1. Balanced(todo'[c]) /\ Within(todo'[c], plan[c].sides)
    <3>1. CASE todo' = [todo EXCEPT ![c] = <<>>]
      <4>1. todo'[c] = <<>>  BY <3>1
      <4>. QED BY <4>1, NoStep
    <3>2. CASE todo' = [todo EXCEPT ![c] = Tail(@)] /\ Running(c)
      <4>1. todo'[c] = Tail(todo[c])  BY <3>2
      <4>. QED BY <3>2, <4>1, Ahead
    <3>. QED BY <3>1, <3>2
  <2>. QED BY <1>1, <2>1 DEF TodoFits
<1>5. \A d \in Cycles : Covered(d)' = Covered(d) /\ (Alone(d)' <=> Alone(d))
  BY CoveredSame
<1>6. \A d \in Cycles : d # c => \A p : Owes(d, p)' <=> Owes(d, p)
  BY <1>1, OwesIs
<1>7. OffIsOwed'
  BY <1>1, <1>2, <1>5, <1>6 DEF OffIsOwed
<1>8. OnlyCovered'
  BY <1>5 DEF OnlyCovered
<1>9. Restoring'
  <2>. SUFFICES ASSUME NEW d \in Cycles, ~failed'[d], Alone(d)', NEW p \in Covered(d)'
                PROVE  \/ power'[p] = plan'[d].restore
                       \/ Owes(d, p)' \/ p[1] \in unconfirmed'[d]
    BY DEF Restoring
  <2>1. d # c /\ ~failed[d] /\ Alone(d) /\ p \in Covered(d)
    BY <1>1, <1>2, <1>5
  <2>2. p \in Ports /\ p \notin Covered(c)
    BY <2>1, CoveredIs DEF Alone
  <2>. QED BY <1>6, <2>1, <2>2 DEF Restoring
<1>. QED BY <1>3, <1>4, <1>7, <1>8, <1>9 DEF CycleParts

\* What a step that reports no error does to the ports: it sets them, or leaves
\* them because nobody heard it.
Taken(c) ==
  /\ Running(c)
  /\ Advance(c)
  /\ UNCHANGED <<plan, phase, failed>>
  /\ \/ Kind(c) = "sleep" /\ UNCHANGED <<power, unconfirmed>>
     \/ Kind(c) # "sleep" /\ SetPower(c) /\ UNCHANGED unconfirmed
     \/ /\ Kind(c) # "sleep"
        /\ UNCHANGED power \/ SetPower(c)
        /\ unconfirmed' = [unconfirmed EXCEPT ![c] =
             IF Kind(c) = "on" THEN @ \cup {Side(c)} ELSE @]

\* Such a step: a port it sets is one it owes or one it has restored, and what it
\* owed is restored or unconfirmed.
LEMMA Succeeding ==
  ASSUME CycleInv, NEW c \in Cycles, Taken(c), NEW p \in Ports
  PROVE  /\ p \in Covered(c) /\ Owes(c, p) /\ ~Owes(c, p)' =>
              power'[p] = plan[c].restore \/ p[1] \in unconfirmed'[c]
         /\ \/ power'[p] = power[p]
            \/ p \in Covered(c) /\ power'[p] = "off" /\ Owes(c, p)'
            \/ p \in Covered(c) /\ power'[p] = plan[c].restore
         /\ plan[c].restore # "off"
         /\ \A d \in Cycles : d # c => (Owes(d, p)' <=> Owes(d, p))
         /\ \A d \in Cycles : unconfirmed[d] \subseteq unconfirmed'[d]
<1>1. /\ TypeOK /\ todo'[c] = Tail(todo[c]) /\ phase[c] = "running"
      /\ \A d \in Cycles : d # c => todo'[d] = todo[d]
  BY DEF CycleInv, TypeOK, Advance, Running, Taken
<1>2. \A d \in Cycles : d # c => (Owes(d, p)' <=> Owes(d, p))
  BY <1>1, OwesIs
<1>3. Owes(c, p) <=> Upcoming(c) = <<"on", p[1]>> \/ Owes(c, p)'
  BY <1>1, Ahead, OwesIs DEF Taken
<1>. DEFINE touched == Kind(c) # "sleep" /\ p \in Covered(c) /\ p[1] = Side(c)
<1>4. \/ power'[p] = IF touched THEN IF Kind(c) = "off" THEN "off" ELSE plan[c].restore
                    ELSE power[p]
      \/ /\ power'[p] = power[p]
         /\ Kind(c) = "on" => Side(c) \in unconfirmed'[c]
  BY <1>1, PowerSet DEF Taken, TypeOK
<1>5. plan[c].restore # "off"
  BY <1>1 DEF CycleInv, PhaseFits
<1>6. touched /\ Kind(c) = "off" => Owes(c, p)'
  BY <1>1, Ahead, OwesIs DEF Taken
<1>7. p \in Covered(c) /\ Upcoming(c) = <<"on", p[1]>> =>
        touched /\ Kind(c) = "on" /\ p[1] = Side(c)
  BY DEF Kind, Side
<1>8. touched => p \in Covered(c)
  OBVIOUS
<1>9. \A d \in Cycles : unconfirmed[d] \subseteq unconfirmed'[d]
  BY <1>1 DEF Taken, TypeOK
<1>. HIDE DEF touched
<1>. QED BY <1>2, <1>3, <1>4, <1>5, <1>6, <1>7, <1>8, <1>9

LEMMA SucceedingInv ==
  ASSUME CycleInv, NEW c \in Cycles, Taken(c)
  PROVE  CycleParts'
<1>1. /\ TypeOK /\ todo'[c] = Tail(todo[c]) /\ phase[c] = "running"
      /\ UNCHANGED <<plan, phase, failed>>
      /\ \A d \in Cycles : d # c => todo'[d] = todo[d]
  BY DEF CycleInv, TypeOK, Advance, Running, Taken
<1>2. PhaseFits'
  BY <1>1 DEF PhaseFits, CycleInv
<1>3. TodoFits'
  BY <1>1, Ahead DEF TodoFits, CycleInv, Taken
<1>4. \A d \in Cycles : Covered(d)' = Covered(d) /\ (Alone(d)' <=> Alone(d))
  BY <1>1, CoveredSame
<1>5. OffIsOwed'
  <2>. SUFFICES ASSUME NEW p \in Ports, power'[p] = "off"
                PROVE  \E d \in Cycles :
                         /\ p \in Covered(d)'
                         /\ Owes(d, p)' \/ failed'[d] \/ p[1] \in unconfirmed'[d]
    BY DEF OffIsOwed
  <2>1. CASE p \in Covered(c) /\ Owes(c, p)'
    BY <1>4, <2>1
  <2>2. CASE ~(p \in Covered(c) /\ Owes(c, p)')
    <3>1. power[p] = "off"  BY <2>2, Succeeding
    <3>2. PICK d \in Cycles :
            p \in Covered(d) /\ (Owes(d, p) \/ failed[d] \/ p[1] \in unconfirmed[d])
      BY <3>1 DEF CycleInv, OffIsOwed
    <3>3. unconfirmed[d] \subseteq unconfirmed'[d]  BY Succeeding
    <3>4. Owes(d, p) => Owes(d, p)' \/ p[1] \in unconfirmed'[d]
      BY <2>2, <3>2, Succeeding
    <3>. QED BY <1>1, <1>4, <3>2, <3>3, <3>4
  <2>. QED BY <2>1, <2>2
<1>6. OnlyCovered'
  <2>. SUFFICES ASSUME NEW p \in Ports, power'[p] # "on"
                PROVE  \E d \in Cycles : p \in Covered(d)'
    BY DEF OnlyCovered
  <2>1. p \in Covered(c) \/ power'[p] = power[p]  BY Succeeding
  <2>. QED BY <1>4, <2>1 DEF CycleInv, OnlyCovered
<1>7. Restoring'
  <2>. SUFFICES ASSUME NEW d \in Cycles, ~failed'[d], Alone(d)', NEW p \in Covered(d)'
                PROVE  \/ power'[p] = plan'[d].restore
                       \/ Owes(d, p)' \/ p[1] \in unconfirmed'[d]
    BY DEF Restoring
  <2>1. /\ Alone(d) /\ p \in Covered(d) /\ p \in Ports
        /\ power[p] = plan[d].restore \/ Owes(d, p) \/ p[1] \in unconfirmed[d]
    <3>1. ~failed[d] /\ Alone(d) /\ p \in Covered(d)  BY <1>1, <1>4
    <3>. QED BY <1>1, <3>1, CoveredIs DEF CycleInv, Restoring
  <2>2. d # c => p \notin Covered(c)  BY <2>1 DEF Alone
  <2>3. unconfirmed[d] \subseteq unconfirmed'[d]  BY <2>1, Succeeding
  <2>4. d # c => power'[p] = power[p] /\ (Owes(d, p)' <=> Owes(d, p))
    BY <2>1, <2>2, Succeeding
  <2>5. CASE d # c
    BY <1>1, <2>1, <2>3, <2>4, <2>5
  <2>6. CASE d = c
    BY <1>1, <2>1, <2>3, <2>6, Succeeding
  <2>. QED BY <2>5, <2>6
<1>. QED BY <1>2, <1>3, <1>5, <1>6, <1>7 DEF CycleParts

\* A cycle that starts owes all its ports at once, and nothing before.
LEMMA StartInv ==
  ASSUME CycleInv, NEW c \in Cycles, Start(c)
  PROVE  CycleParts'
<1>1. PICK p \in Plans :
        /\ plan' = [plan EXCEPT ![c] = p]
        /\ \/ /\ p.restore # "off"
              /\ phase' = [phase EXCEPT ![c] = "running"]
              /\ todo' = [todo EXCEPT ![c] = Program(p)]
              /\ UNCHANGED failed
           \/ /\ phase' = [phase EXCEPT ![c] = "done"]
              /\ failed' = [failed EXCEPT ![c] = TRUE]
              /\ UNCHANGED todo
  BY DEF Start, Accepted
<1>2. /\ p \in PlanType /\ TypeOK /\ phase[c] = "idle" /\ UNCHANGED <<power, unconfirmed>>
      /\ plan'[c] = p /\ \A d \in Cycles : d # c => plan'[d] = plan[d]
      /\ \A d \in Cycles : d # c =>
           todo'[d] = todo[d] /\ phase'[d] = phase[d] /\ failed'[d] = failed[d]
  BY <1>1, UsbCycleAssumption DEF UsbCycleAssumption, CycleInv, TypeOK, Start
<1>3. Covered(c) = {} /\ \A d \in Cycles : d # c => Covered(d)' = Covered(d)
  BY <1>2 DEF CycleInv, PhaseFits, Covered
<1>4. \A d \in Cycles : d # c => \A q : Owes(d, q)' <=> Owes(d, q)
  BY <1>2, OwesIs
<1>5. \/ todo'[c] = Program(p) /\ phase'[c] = "running" /\ p.restore # "off"
      \/ todo'[c] = <<>> /\ phase'[c] = "done" /\ failed'[c]
  BY <1>1, <1>2 DEF CycleInv, TypeOK, PhaseFits
<1>6. PhaseFits'
  BY <1>2, <1>5 DEF PhaseFits, CycleInv
<1>7. TodoFits'
  <2>1. Balanced(todo'[c]) /\ Within(todo'[c], plan'[c].sides)
    BY <1>2, <1>5, ProgramFits, NoStep
  <2>. QED BY <1>2, <2>1 DEF TodoFits, CycleInv
<1>8. OffIsOwed'
  BY <1>2, <1>3, <1>4 DEF OffIsOwed, CycleInv
<1>9. OnlyCovered'
  BY <1>2, <1>3 DEF OnlyCovered, CycleInv
<1>10. Restoring'
  <2>. SUFFICES ASSUME NEW d \in Cycles, ~failed'[d], Alone(d)', NEW q \in Covered(d)'
                PROVE  \/ power'[q] = plan'[d].restore
                       \/ Owes(d, q)' \/ q[1] \in unconfirmed'[d]
    BY DEF Restoring
  <2>1. CASE d = c
    <3>1. q[1] \in p.sides  BY <1>2, <2>1 DEF Covered, Named
    <3>2. todo'[c] = Program(p)  BY <1>5, <2>1
    <3>. QED BY <1>2, <2>1, <3>1, <3>2, ProgramFits, OwesIs
  <2>2. CASE d # c
    <3>1. ~failed[d] /\ Alone(d) /\ q \in Covered(d)
      BY <1>2, <1>3, <2>2 DEF Alone
    <3>. QED BY <1>2, <1>4, <2>2, <3>1 DEF CycleInv, Restoring
  <2>. QED BY <2>1, <2>2
<1>. QED BY <1>6, <1>7, <1>8, <1>9, <1>10 DEF CycleParts

\* What a step that touches neither ports nor programs keeps.
LEMMA QuietInv ==
  ASSUME CycleInv, UNCHANGED <<power, plan, todo, failed, unconfirmed>>
  PROVE  TodoFits' /\ OffIsOwed' /\ OnlyCovered' /\ Restoring'
<1>1. \A d : Covered(d)' = Covered(d) /\ (Alone(d)' <=> Alone(d))
  BY CoveredSame
<1>2. \A d, p : Owes(d, p)' <=> Owes(d, p)
  BY OwesIs
<1>3. TodoFits'  BY DEF CycleInv, TodoFits
<1>4. OffIsOwed'  BY <1>1, <1>2 DEF CycleInv, OffIsOwed
<1>5. OnlyCovered'  BY <1>1 DEF CycleInv, OnlyCovered
<1>6. Restoring'  BY <1>1, <1>2 DEF CycleInv, Restoring
<1>. QED BY <1>3, <1>4, <1>5, <1>6

LEMMA NextCycle == CycleInv /\ [Next]_vars => CycleInv'
<1>. SUFFICES ASSUME CycleInv, [Next]_vars PROVE CycleInv'
  OBVIOUS
<1>1. TypeOK /\ TypeOK'
  BY NextType DEF CycleInv
<1>2. ASSUME UNCHANGED <<power, plan, phase, todo, failed, unconfirmed>> PROVE CycleParts'
  <2>1. PhaseFits'  BY <1>2 DEF CycleInv, PhaseFits
  <2>. QED BY <1>2, <2>1, QuietInv DEF CycleParts
<1>3. ASSUME NEW c \in Cycles, Answered(c) \/ Silence(c) \/ Wake(c) PROVE CycleParts'
  <2>1. Taken(c)  BY <1>3 DEF Answered, Silence, Wake, Taken
  <2>. QED BY <2>1, SucceedingInv
<1>4. ASSUME NEW c \in Cycles, Unheard(c) \/ Unanswered(c) PROVE CycleParts'
  <2>1. Running(c) /\ phase[c] = "running" /\ GiveUp(c)
    BY <1>4 DEF Unheard, Unanswered, Running
  <2>2. \A p \in Ports : p \in Covered(c) \/ power'[p] = power[p]
    BY <1>4, <2>1, PowerSet DEF Unheard, Unanswered
  <2>3. power' \in [Ports -> Modes]
    BY <1>1 DEF TypeOK
  <2>. QED BY <2>1, <2>2, <2>3, FailingInv DEF GiveUp
<1>5. ASSUME NEW c \in Cycles, Kill(c) PROVE CycleParts'
  <2>1. power' \in [Ports -> Modes]
    BY <1>1 DEF TypeOK
  <2>. QED BY <1>5, <2>1, FailingInv DEF Kill
<1>6. ASSUME NEW c \in Cycles, End(c) PROVE CycleParts'
  <2>1. \A d \in Cycles : phase'[d] = IF d = c THEN "done" ELSE phase[d]
    BY <1>1, <1>6 DEF End, TypeOK
  <2>2. PhaseFits'
    BY <1>6, <2>1 DEF End, PhaseFits, CycleInv
  <2>. QED BY <1>6, <2>2, QuietInv DEF End, CycleParts
<1>7. CycleParts'
  BY <1>2, <1>3, <1>4, <1>5, <1>6, StartInv DEF Next, Step, LinkChanges, Finished, vars
<1>. QED BY <1>1, <1>7 DEF CycleParts, CycleInv

-----------------------------------------------------------------------------

\* What the proofs below rest on: a port that is off has somebody who will
\* restore it or who reported that he could not, at every moment.
THEOREM CycleCorrect == Spec => []CycleInv
BY InitCycle, NextCycle, PTL DEF Spec

\* Every variable keeps its type, whatever the plans.
THEOREM TypeCorrect == Spec => []TypeOK
<1>1. CycleInv => TypeOK
  BY DEF CycleInv
<1>. QED BY <1>1, CycleCorrect, PTL

\* A port that is off is covered by a cycle that will restore it, that reported
\* an error, or whose restore got no answer: there is no other way to leave one
\* down, whatever runs beside it and wherever the link or a process is lost.
THEOREM NothingLeftOff == Spec => []OffIsOwed
<1>1. CycleInv => OffIsOwed
  BY DEF CycleInv
<1>. QED BY <1>1, CycleCorrect, PTL

\* A cycle touches the ports of its plan and no other.
THEOREM OthersUntouched == Spec => []OnlyCovered
<1>1. CycleInv => OnlyCovered
  BY DEF CycleInv
<1>. QED BY <1>1, CycleCorrect, PTL

\* A cycle that met no other on its ports and reports no error has left them in
\* the mode it was asked for, unless its restore of that side got no answer: an
\* exit without an error alone does not show that.
THEOREM SuccessRestores == Spec => []DoneMeansRestored
<1>1. CycleInv => DoneMeansRestored
  <2>. SUFFICES ASSUME CycleInv, NEW c \in Cycles, phase[c] = "done", ~failed[c], Alone(c),
                       NEW p \in Covered(c), p[1] \notin unconfirmed[c]
                PROVE  power[p] = plan[c].restore
    BY DEF DoneMeansRestored, Alone
  <2>1. todo[c] = <<>>
    BY DEF CycleInv, PhaseFits
  <2>2. ~Owes(c, p)
    BY <2>1 DEF Owes
  <2>. QED BY <2>2 DEF CycleInv, Restoring
<1>. QED BY <1>1, CycleCorrect, PTL

-----------------------------------------------------------------------------
(* What it takes to bring every port back *)

\* Every cycle that would be run names a port that all its sides have.
PlansValid ==
  \A p \in Plans : Accepted(p) => \A side \in p.sides : ValidPort(side, p.port)

\* Then no command fails on a link that holds, and what is off is owed.
HoldingInv ==
  /\ linked
  /\ \A c \in Cycles : phase[c] = "running" =>
       \A side \in plan[c].sides : ValidPort(side, plan[c].port)
  /\ \A p \in Ports : power[p] = "off" => \E c \in Cycles : p \in Covered(c) /\ Owes(c, p)

\* A port whose restore is heard is up.
LEMMA RestoreSets ==
  ASSUME CycleInv, NEW c \in Cycles, Running(c), Advance(c),
         IF Kind(c) = "sleep" THEN UNCHANGED power ELSE SetPower(c),
         NEW p \in Covered(c), p \in Ports, Owes(c, p), ~Owes(c, p)'
  PROVE  power'[p] # "off"
<1>1. TypeOK /\ todo'[c] = Tail(todo[c]) /\ phase[c] = "running"
  BY DEF CycleInv, TypeOK, Advance, Running
<1>2. Upcoming(c) = <<"on", p[1]>>
  BY <1>1, Ahead, OwesIs
<1>3. Kind(c) = "on" /\ Side(c) = p[1]
  BY <1>2 DEF Kind, Side
<1>4. power'[p] = plan[c].restore
  BY <1>3, PowerSet
<1>. QED BY <1>1, <1>4 DEF CycleInv, PhaseFits

LEMMA NextHolding ==
  ASSUME PlansValid, ~LinkDrops, ~Kills, AdapterPort = NoPort,
         CycleInv, HoldingInv, [Next]_vars
  PROVE  HoldingInv'
<1>. USE DEF HoldingInv
<1>0. TypeOK  BY DEF CycleInv
<1>1. ASSUME UNCHANGED <<power, linked, plan, todo>>,
             \A c \in Cycles : phase'[c] = "running" => phase[c] = "running"
      PROVE  HoldingInv'
  BY <1>1, CoveredSame, OwesIs
<1>2. ASSUME NEW c \in Cycles, Start(c) PROVE HoldingInv'
  <2>1. PICK p \in Plans :
          /\ plan' = [plan EXCEPT ![c] = p]
          /\ \/ Accepted(p) /\ phase' = [phase EXCEPT ![c] = "running"]
             \/ phase' = [phase EXCEPT ![c] = "done"]
          /\ \A d \in Cycles : d # c => todo'[d] = todo[d]
    BY <1>0, <1>2 DEF Start, TypeOK
  <2>2. /\ UNCHANGED <<power, linked>> /\ plan'[c] = p
        /\ \A d \in Cycles : d # c => plan'[d] = plan[d] /\ phase'[d] = phase[d]
    BY <1>0, <1>2, <2>1 DEF Start, TypeOK
  <2>3. phase'[c] = "running" => \A side \in p.sides : ValidPort(side, p.port)
    BY <1>0, <2>1 DEF TypeOK, PlansValid
  <2>4. Covered(c) = {} /\ \A d \in Cycles : d # c => Covered(d)' = Covered(d)
    BY <1>2, <2>2 DEF Start, CycleInv, PhaseFits, Covered
  <2>5. \A d \in Cycles : d # c => \A q : Owes(d, q)' <=> Owes(d, q)
    BY <2>1, OwesIs
  <2>. QED BY <2>2, <2>3, <2>4, <2>5
<1>3. ASSUME NEW c \in Cycles, Answered(c) \/ Silence(c) \/ Wake(c) PROVE HoldingInv'
  <2>1. /\ Running(c) /\ Advance(c) /\ UNCHANGED <<plan, phase>> /\ linked' /\ Taken(c)
        /\ IF Kind(c) = "sleep" THEN UNCHANGED power ELSE SetPower(c)
    BY <1>3 DEF Answered, Silence, Wake, Reachable, Taken
  <2>2. \A d \in Cycles : Covered(d)' = Covered(d)
    BY <2>1, CoveredSame
  <2>3. ASSUME NEW p \in Ports, power'[p] = "off"
        PROVE  \E d \in Cycles : p \in Covered(d)' /\ Owes(d, p)'
    <3>1. CASE p \in Covered(c) /\ Owes(c, p)'
      BY <2>2, <3>1
    <3>2. CASE ~(p \in Covered(c) /\ Owes(c, p)')
      <4>1. power[p] = "off"  BY <2>1, <2>3, <3>2, Succeeding
      <4>2. PICK d \in Cycles : p \in Covered(d) /\ Owes(d, p)  BY <4>1
      <4>3. d # c
        BY <2>1, <2>3, <3>2, <4>2, RestoreSets
      <4>. QED BY <2>1, <2>2, <4>2, <4>3, Succeeding
    <3>. QED BY <3>1, <3>2
  <2>. QED BY <2>1, <2>3
<1>4. ASSUME NEW c \in Cycles, Unheard(c) \/ Unanswered(c) PROVE FALSE
  <2>1. ValidPort(Side(c), plan[c].port)
    BY <1>4, Ahead DEF Unheard, Unanswered, Running
  <2>. QED BY <1>4, <2>1 DEF Unheard, Unanswered, Reachable
<1>5. ASSUME NEW c \in Cycles, End(c) PROVE HoldingInv'
  BY <1>0, <1>1, <1>5 DEF End, TypeOK
<1>. QED
  BY <1>1, <1>2, <1>3, <1>4, <1>5 DEF Next, Step, Kill, LinkChanges, Finished, vars

\* A cycle does bring its ports back up, on a link that holds, for every plan but
\* those the code runs though they name a port that one of their sides lacks.
THEOREM ValidPlansBringBack ==
  ASSUME PlansValid, LinkDrops = FALSE, Kills = FALSE, AdapterPort = NoPort
  PROVE  Spec => []BroughtBack
<1>1. Init => HoldingInv
  BY DEF Init, HoldingInv
<1>2. CycleInv /\ HoldingInv /\ [Next]_vars => HoldingInv'
  BY NextHolding
<1>3. CycleInv /\ HoldingInv => BroughtBack
  BY DEF CycleInv, HoldingInv, PhaseFits, Owes, BroughtBack
<1>. QED BY <1>1, <1>2, <1>3, CycleCorrect, PTL DEF Spec

=============================================================================
