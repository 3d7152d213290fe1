----------------------------- MODULE ScanProof -----------------------------
(***************************************************************************)
(* Proofs about Scan, for any network of switches and any limits.          *)
(***************************************************************************)
EXTENDS Scan, WellFoundedInduction, TLAPS

(***************************************************************************)
(* The inductive invariant.                                                *)
(***************************************************************************)
\* The counter of frames, or of the probe's receives, is below its limit.
Counter ==
    /\ pc \in {"sendHello", "sendRep"} => sent < Retries
    /\ pc = "await" => sent < ProbeTries
    /\ pc \in {"hear", "hearRep", "report", "probe"} => sent = 0

\* A loop that goes on has not aged beyond its limit.
Young ==
    /\ pc = "hear" => age <= HelloPatience
    /\ pc = "hearRep" => age <= RepPatience
    /\ pc \in {"sendHello", "probe", "await"} => age = 0

\* The lists fill in the order of the phases, and the table comes last.
Phases ==
    /\ pc \in {"sendHello", "probe", "await"} => hellos = <<>>
    /\ pc \in {"sendHello", "hear", "sendRep", "probe", "await"} => reps = <<>>
    /\ pc # "done" => rows = {}
    /\ pc = "probe" => target = NoMac
    /\ pc \in {"probe", "await"} => facing = NoReply
    /\ pc = "await" => target # NoMac
    /\ pc \in {"sendHello", "hear", "sendRep", "hearRep", "report"} => target = NoMac

\* The lists hold what was heard, each answer once.
Listed ==
    /\ \A f \in HelloAnswers : f \in heard <=> Contains(hellos, f)
    /\ \A m \in RepMacs : [kind |-> "rep", src |-> m] \in heard <=> Contains(reps, m)
    /\ \A i, j \in 1 .. Len(hellos) : hellos[i] = hellos[j] => i = j
    /\ \A i, j \in 1 .. Len(reps) : reps[i] = reps[j] => i = j

\* The table is that of the lists.
Printed == Scanned => rows = Table

\* What is on its way to a probe was so when it began or is from its target.
Answering ==
    /\ pc = "probe" => \A f \in HelloAnswers : air[f] > 0 => f \in early
    /\ target # NoMac => \A f \in HelloAnswers : air[f] > 0 => f.src = target \/ f \in early

IInv ==
    /\ TypeOK /\ Counter /\ Young /\ Phases /\ Listed /\ Printed
    /\ Answering /\ ProbeAnswersTarget

-----------------------------------------------------------------------------
(***************************************************************************)
(* Answers, the network and the lists                                      *)
(***************************************************************************)
LEMMA Limits ==
    /\ Retries \in Nat \ {0} /\ QuietAge \in Nat \ {0} /\ ProbeTries \in Nat \ {0}
    /\ Copies \in Nat \ {0} /\ HelloPatience \in Nat /\ RepPatience \in Nat
BY LimitsAssumption

LEMMA Replies ==
    /\ \A f \in HelloAnswers : HelloReply(f) /\ f \in Answers /\ f.src \in Switches
    /\ \A f \in RepAnswers : /\ ~HelloReply(f) /\ f \in Answers
                             /\ f.src \in RepMacs /\ f = [kind |-> "rep", src |-> f.src]
    /\ \A m \in RepMacs : [kind |-> "rep", src |-> m] \in RepAnswers
    /\ NoReply \notin HelloAnswers
    /\ NoMac \notin Switches
<1>1. \A f \in HelloAnswers : HelloReply(f)
  BY AnswersAssumption DEF HelloReply
<1>2. NoReply \notin HelloAnswers
  BY <1>1 DEF HelloReply, NoReply
<1> QED
  BY <1>1, <1>2, AnswersAssumption DEF HelloReply, Answers, RepAnswers, Switches

\* Of the positions with something in common one is the first.
LEMMA Least ==
    ASSUME NEW S \in SUBSET Nat, S # {}
    PROVE  \E n \in S : \A k \in S : n <= k
<1>1. PICK n \in S : \A k \in S : <<k, n>> \notin OpToRel(<, Nat)
  BY NatLessThanWellFounded, WFMin, Zenon
<1>2. \A k \in S : ~ (k < n)
  BY <1>1, Zenon DEF OpToRel
<1> QED
  BY <1>2

AirType == air \in [Answers -> 0 .. Copies]

\* A receive brings nothing on its way.
LEMMA AirFalls ==
    ASSUME AirType, NEW F \in SUBSET Answers,
           ReceiveUseless(F) \/ \E f \in F : Arrives(f)
    PROVE  AirType' /\ \A g \in Answers : air'[g] > 0 => air[g] > 0
<1>1. CASE UNCHANGED air
  BY <1>1 DEF AirType
<1>2. ASSUME NEW f \in F, Arrives(f) PROVE AirType' /\ \A g \in Answers : air'[g] > 0 => air[g] > 0
  <2>1. air[f] \in 0 .. Copies /\ air[f] > 0 /\ air[f] - 1 \in 0 .. Copies
    BY <1>2, Limits DEF AirType, Arrives
  <2> QED
    BY <1>2, <2>1 DEF AirType, Arrives
<1> QED
  BY <1>1, <1>2 DEF ReceiveUseless

\* A frame brings on their way the answers of those it is for.
LEMMA AirAsked ==
    ASSUME AirType, NEW F \in SUBSET Answers, Ask(F)
    PROVE  AirType' /\ \A g \in Answers : air'[g] > 0 => air[g] > 0 \/ g \in F
<1>1. PICK A \in SUBSET F :
          air' = [f \in Answers |-> IF f \in A /\ air[f] < Copies THEN air[f] + 1 ELSE air[f]]
  BY DEF Ask
<1>2. \A f \in Answers : air[f] \in 0 .. Copies
  BY DEF AirType
<1>3. \A n \in 0 .. Copies : n < Copies => n + 1 \in 0 .. Copies
  BY Limits
<1> QED
  BY <1>1, <1>2, <1>3 DEF AirType

\* An entry that is new goes in front and keeps each entry single.
LEMMA InFront ==
    ASSUME NEW S, NEW s \in Seq(S), NEW e \in S
    PROVE  LET t == <<e>> \o s
           IN  /\ t \in Seq(S)
               /\ \A x : Contains(t, x) <=> x = e \/ Contains(s, x)
               /\ ~Contains(s, e) /\ (\A i, j \in 1 .. Len(s) : s[i] = s[j] => i = j)
                    => \A i, j \in 1 .. Len(t) : t[i] = t[j] => i = j
<1> DEFINE t == <<e>> \o s
<1>1. t \in Seq(S) /\ Len(t) = Len(s) + 1 /\ Len(s) \in Nat
  OBVIOUS
<1>2. t[1] = e /\ \A i \in 1 .. Len(s) : t[i + 1] = s[i]
  OBVIOUS
<1>3. \A i \in 1 .. Len(t) : i = 1 \/ (i - 1 \in 1 .. Len(s) /\ t[i] = s[i - 1])
  BY <1>1, <1>2
<1>4. ASSUME NEW x PROVE Contains(t, x) <=> x = e \/ Contains(s, x)
  <2>1. ASSUME Contains(t, x) PROVE x = e \/ Contains(s, x)
    BY <1>2, <1>3, <2>1 DEF Contains
  <2>2. ASSUME x = e PROVE Contains(t, x)
    BY <1>1, <1>2, <2>2 DEF Contains
  <2>3. ASSUME Contains(s, x) PROVE Contains(t, x)
    <3>1. PICK i \in 1 .. Len(s) : s[i] = x
      BY <2>3 DEF Contains
    <3>2. i + 1 \in 1 .. Len(t) /\ t[i + 1] = x
      BY <1>1, <1>2, <3>1
    <3> QED
      BY <3>2 DEF Contains
  <2> QED
    BY <2>1, <2>2, <2>3
<1>5. ASSUME ~Contains(s, e), \A i, j \in 1 .. Len(s) : s[i] = s[j] => i = j,
             NEW i \in 1 .. Len(t), NEW j \in 1 .. Len(t), t[i] = t[j]
      PROVE  i = j
  <2>1. CASE i = 1 /\ j # 1
    BY <1>2, <1>3, <1>5, <2>1 DEF Contains
  <2>2. CASE i # 1 /\ j = 1
    BY <1>2, <1>3, <1>5, <2>2 DEF Contains
  <2>3. CASE i # 1 /\ j # 1
    <3>1. i - 1 = j - 1
      BY <1>3, <1>5, <2>3
    <3> QED
      BY <1>1, <3>1
  <2> QED
    BY <2>1, <2>2, <2>3
<1> QED
  BY <1>1, <1>4, <1>5

-----------------------------------------------------------------------------
(***************************************************************************)
(* Each part of the invariant is kept                                      *)
(***************************************************************************)
LEMMA CounterStep == ASSUME IInv, [Next]_vars PROVE Counter'
<1> USE Limits DEF IInv, TypeOK, Counter
<1>1. CASE SendHello \/ SendRep
  BY <1>1 DEF SendHello, SendRep, SendAll
<1>2. CASE \E m \in Switches : SendProbe(m)
  BY <1>2 DEF SendProbe
<1>3. CASE TakeOther
  BY <1>3 DEF TakeOther
<1>4. CASE \E f \in HelloAnswers : HearNewHello(f) \/ HearKnownHello(f) \/ TakeReply(f)
  BY <1>4 DEF HearNewHello, HearKnownHello, TakeReply
<1>5. CASE \E f \in RepAnswers : HearNewRep(f) \/ HearKnownRep(f)
  BY <1>5 DEF HearNewRep, HearKnownRep
<1>6. CASE HearOther \/ HearSilence \/ HearOtherRep \/ HearSilenceRep
  BY <1>6 DEF HearOther, HearSilence, HearOtherRep, HearSilenceRep, Ages
<1>7. CASE Report \/ SendFails \/ UNCHANGED vars
  BY <1>7 DEF Report, SendFails, vars
<1> QED
  BY <1>1, <1>2, <1>3, <1>4, <1>5, <1>6, <1>7 DEF Next, Scan, Probe

LEMMA YoungStep == ASSUME IInv, [Next]_vars PROVE Young'
<1> USE Limits DEF IInv, TypeOK, Young
<1>1. CASE SendHello \/ SendRep
  BY <1>1 DEF SendHello, SendRep, SendAll
<1>2. CASE \E m \in Switches : SendProbe(m)
  BY <1>2 DEF SendProbe
<1>3. CASE TakeOther
  BY <1>3 DEF TakeOther
<1>4. CASE \E f \in HelloAnswers : HearNewHello(f) \/ HearKnownHello(f) \/ TakeReply(f)
  BY <1>4 DEF HearNewHello, HearKnownHello, TakeReply
<1>5. CASE \E f \in RepAnswers : HearNewRep(f) \/ HearKnownRep(f)
  BY <1>5 DEF HearNewRep, HearKnownRep
<1>6. CASE HearOther \/ HearSilence \/ HearOtherRep \/ HearSilenceRep
  BY <1>6 DEF HearOther, HearSilence, HearOtherRep, HearSilenceRep, Ages
<1>7. CASE Report \/ SendFails \/ UNCHANGED vars
  BY <1>7 DEF Report, SendFails, vars
<1> QED
  BY <1>1, <1>2, <1>3, <1>4, <1>5, <1>6, <1>7 DEF Next, Scan, Probe

LEMMA PhasesStep == ASSUME IInv, [Next]_vars PROVE Phases'
<1> USE DEF IInv, Phases, lists, probe
<1>1. CASE SendHello \/ SendRep
  BY <1>1 DEF SendHello, SendRep, SendAll
<1>2. CASE \E m \in Switches : SendProbe(m)
  BY <1>2, Replies DEF SendProbe
<1>3. CASE TakeOther
  BY <1>3 DEF TakeOther
<1>4. CASE \E f \in HelloAnswers : HearNewHello(f) \/ HearKnownHello(f) \/ TakeReply(f)
  BY <1>4 DEF HearNewHello, HearKnownHello, TakeReply
<1>5. CASE \E f \in RepAnswers : HearNewRep(f) \/ HearKnownRep(f)
  BY <1>5 DEF HearNewRep, HearKnownRep
<1>6. CASE HearOther \/ HearSilence \/ HearOtherRep \/ HearSilenceRep
  BY <1>6 DEF HearOther, HearSilence, HearOtherRep, HearSilenceRep, Ages
<1>7. CASE Report \/ SendFails \/ UNCHANGED vars
  BY <1>7 DEF Report, SendFails, vars
<1> QED
  BY <1>1, <1>2, <1>3, <1>4, <1>5, <1>6, <1>7 DEF Next, Scan, Probe

\* Only the answers of its own phase, heard for the first time, enter a list.
LEMMA OthersListNothing ==
    ASSUME Next \/ UNCHANGED vars,
           ~ \E f \in HelloAnswers : HearNewHello(f) \/ HearKnownHello(f),
           ~ \E f \in RepAnswers : HearNewRep(f)
    PROVE  UNCHANGED <<hellos, reps, heard>>
BY DEF Next, Scan, Probe, SendHello, SendRep, SendAll, Report, SendProbe, TakeReply, TakeOther,
   SendFails, HearKnownRep, HearOther, HearSilence, HearOtherRep, HearSilenceRep, lists, history, vars

LEMMA ListedStep == ASSUME IInv, [Next]_vars PROVE Listed'
<1>1. ASSUME NEW f \in HelloAnswers, HearNewHello(f) PROVE Listed'
  <2>1. /\ hellos' = <<f>> \o hellos /\ UNCHANGED reps /\ heard' = heard \cup {f}
        /\ ~Contains(hellos, f) /\ hellos \in Seq(HelloAnswers)
    BY <1>1 DEF HearNewHello, KnownHello, IInv, TypeOK
  <2>2. /\ \A x : Contains(hellos', x) <=> x = f \/ Contains(hellos, x)
        /\ \A i, j \in 1 .. Len(hellos') : hellos'[i] = hellos'[j] => i = j
    BY <2>1, InFront DEF IInv, Listed
  <2>3. \A m \in RepMacs : [kind |-> "rep", src |-> m] # f
    BY Replies
  <2> QED
    BY <2>1, <2>2, <2>3 DEF IInv, Listed
<1>2. ASSUME NEW f \in HelloAnswers, HearKnownHello(f) PROVE Listed'
  <2>1. UNCHANGED <<hellos, reps>> /\ heard' = heard \cup {f} /\ Contains(hellos, f)
    BY <1>2 DEF HearKnownHello, KnownHello, lists
  <2>2. heard' = heard
    BY <2>1 DEF IInv, Listed
  <2> QED
    BY <2>1, <2>2 DEF IInv, Listed
<1>3. ASSUME NEW f \in RepAnswers, HearNewRep(f) PROVE Listed'
  <2>1. /\ reps' = <<f.src>> \o reps /\ UNCHANGED hellos /\ heard' = heard \cup {f}
        /\ ~Contains(reps, f.src) /\ reps \in Seq(RepMacs)
    BY <1>3 DEF HearNewRep, KnownRep, IInv, TypeOK
  <2>2. /\ \A x : Contains(reps', x) <=> x = f.src \/ Contains(reps, x)
        /\ \A i, j \in 1 .. Len(reps') : reps'[i] = reps'[j] => i = j
    BY SMTT(30), <2>1, InFront, Replies DEF IInv, Listed
  <2>3. \A g \in HelloAnswers : g # f
    BY Replies
  <2>4. \A m \in RepMacs : [kind |-> "rep", src |-> m] = f <=> m = f.src
    BY Replies
  <2> QED
    BY <2>1, <2>2, <2>3, <2>4 DEF IInv, Listed
<1>4. CASE UNCHANGED <<hellos, reps, heard>>
  BY <1>4 DEF IInv, Listed
<1> QED
  BY <1>1, <1>2, <1>3, <1>4, OthersListNothing

\* Only Report ends a scan, and nothing follows it.
LEMMA PrintedStep == ASSUME IInv, [Next]_vars PROVE Printed'
<1> SUFFICES ASSUME Scanned' PROVE rows' = Table'
  BY DEF Printed
<1>1. CASE Report
  BY <1>1 DEF Report, Table, HelloLine, RepLine, HiddenLine, RepOnly, GaveHello, Hidden, lists
<1>2. CASE UNCHANGED vars
  BY <1>2 DEF IInv, Printed, Scanned, Table, HelloLine, RepLine, HiddenLine, RepOnly, GaveHello, Hidden, vars, lists, probe
<1>3. CASE \E f \in HelloAnswers : TakeReply(f)
  BY <1>3 DEF TakeReply, Scanned, IInv, Phases, probe
<1>4. CASE TakeOther
  BY <1>4 DEF TakeOther, Scanned, IInv, Phases, probe
<1>5. CASE SendHello \/ SendRep \/ SendFails \/ \E m \in Switches : SendProbe(m)
  BY <1>5 DEF SendHello, SendRep, SendAll, SendFails, SendProbe, Scanned
<1>6. CASE \/ \E f \in HelloAnswers : HearNewHello(f) \/ HearKnownHello(f)
           \/ \E f \in RepAnswers : HearNewRep(f) \/ HearKnownRep(f)
  BY <1>6 DEF HearNewHello, HearKnownHello, HearNewRep, HearKnownRep, Scanned
<1>7. CASE HearOther \/ HearSilence \/ HearOtherRep \/ HearSilenceRep
  BY <1>7 DEF HearOther, HearSilence, HearOtherRep, HearSilenceRep, Ages, Scanned
<1> QED
  BY <1>1, <1>2, <1>3, <1>4, <1>5, <1>6, <1>7 DEF Next, Scan, Probe

LEMMA AnsweringStep == ASSUME IInv, [Next]_vars PROVE Answering' /\ ProbeAnswersTarget'
<1>1. AirType
  BY DEF IInv, TypeOK, AirType
<1>2. HelloAnswers \in SUBSET Answers /\ RepAnswers \in SUBSET Answers
  BY DEF Answers
<1>3. CASE SendHello \/ SendRep
  <2>1. target = NoMac /\ target' = NoMac /\ facing' = facing /\ pc' # "probe" /\ early' = early
    BY <1>3 DEF SendHello, SendRep, SendAll, IInv, Phases, probe, history
  <2> QED
    BY <2>1 DEF Answering, ProbeAnswersTarget, IInv
<1>4. ASSUME NEW m \in Switches, SendProbe(m) PROVE Answering' /\ ProbeAnswersTarget'
  <2>1. pc' = "await" /\ target' = m /\ facing' = NoReply /\ early' = early
    BY <1>4 DEF SendProbe, IInv, Phases, history
  <2>2. \A f \in HelloAnswers : air[f] > 0 => f \in early
    BY <1>4 DEF SendProbe, IInv, Answering
  <2>3. \A f \in HelloAnswers : air'[f] > 0 => air[f] > 0 \/ f.src = m
    <3>1. Ask({f \in HelloAnswers : f.src = m}) /\ {f \in HelloAnswers : f.src = m} \in SUBSET Answers
      BY <1>2, <1>4 DEF SendProbe
    <3> QED
      BY <1>1, <1>2, <3>1, AirAsked
  <2> QED
    BY <2>1, <2>2, <2>3 DEF Answering, ProbeAnswersTarget
<1>5. ASSUME NEW f \in HelloAnswers, TakeReply(f) PROVE Answering' /\ ProbeAnswersTarget'
  <2>1. \A g \in HelloAnswers : air'[g] > 0 => air[g] > 0
    BY <1>1, <1>2, <1>5, AirFalls DEF TakeReply
  <2>2. air[f] > 0 /\ facing' = f /\ target' = target /\ target # NoMac /\ pc' = "done" /\ early' = early
    BY <1>5 DEF TakeReply, Arrives, IInv, Phases, history
  <2> QED
    BY <2>1, <2>2 DEF Answering, ProbeAnswersTarget, IInv
<1>6. CASE \/ TakeOther \/ HearOther \/ HearOtherRep
           \/ \E f \in HelloAnswers : HearNewHello(f) \/ HearKnownHello(f)
           \/ \E f \in RepAnswers : HearNewRep(f) \/ HearKnownRep(f)
  <2>1. \A g \in HelloAnswers : air'[g] > 0 => air[g] > 0
    BY <1>1, <1>2, <1>6, AirFalls DEF TakeOther, HearOther, HearOtherRep,
       HearNewHello, HearKnownHello, HearNewRep, HearKnownRep
  <2>2. UNCHANGED <<target, facing, early>> /\ pc' # "probe"
    BY <1>6 DEF TakeOther, HearOther, HearOtherRep, Ages, probe, history,
       HearNewHello, HearKnownHello, HearNewRep, HearKnownRep
  <2> QED
    BY <2>1, <2>2 DEF Answering, ProbeAnswersTarget, IInv
<1>7. CASE HearSilence \/ HearSilenceRep \/ Report \/ SendFails \/ UNCHANGED vars
  <2>1. UNCHANGED <<target, facing, early, air>> /\ (pc' = "probe" => pc = "probe")
    BY <1>7 DEF HearSilence, HearSilenceRep, Ages, Report, SendFails, probe, history, vars
  <2> QED
    BY <2>1 DEF Answering, ProbeAnswersTarget, IInv
<1> QED
  BY <1>3, <1>4, <1>5, <1>6, <1>7 DEF Next, Scan, Probe

\* The lines of the table: what a line of each kind says.
LEMMA TableLines ==
    \A row \in Table :
        \/ \E i \in 1 .. Len(hellos) : row = HelloLine(i)
        \/ \E i \in RepOnly : row = RepLine(i)
        \/ \E i \in Hidden : row = HiddenLine(i)
BY DEF Table

LEMMA HelloLines ==
    /\ \A i : /\ HelloLine(i).mac = hellos[i].src
              /\ HelloLine(i).uplink = hellos[i].uplink
              /\ HelloLine(i).via = hellos[i].via
    /\ \A i : HelloLine(i).hello
    /\ \A i : HelloLine(i).rep <=> /\ Contains(reps, hellos[i].src)
                                   /\ \A j \in 1 .. i - 1 : hellos[j].src # hellos[i].src
<1>1. \A i : /\ HelloLine(i).mac = hellos[i].src
            /\ HelloLine(i).uplink = hellos[i].uplink
            /\ HelloLine(i).via = hellos[i].via
  BY DEF HelloLine, Row
<1>2. \A i : HelloLine(i).hello
  BY DEF HelloLine, Row
<1>3. \A i : HelloLine(i).rep <=> /\ Contains(reps, hellos[i].src)
                                 /\ \A j \in 1 .. i - 1 : hellos[j].src # hellos[i].src
  BY DEF HelloLine, Row
<1> QED
  BY <1>1, <1>2, <1>3

LEMMA RepLines == \A i : RepLine(i).mac = reps[i] /\ ~RepLine(i).hello /\ RepLine(i).rep
BY DEF RepLine, Row

LEMMA HiddenLines ==
    \A i : /\ HiddenLine(i).mac = hellos[i].uplink
          /\ ~HiddenLine(i).hello /\ ~HiddenLine(i).rep
BY DEF HiddenLine, Row

\* They are yes-or-no lines.
LEMMA LinesAreTyped == \A row \in Table : row.hello \in BOOLEAN /\ row.rep \in BOOLEAN
<1>1. \A i : HelloLine(i).hello \in BOOLEAN /\ HelloLine(i).rep \in BOOLEAN
  BY DEF HelloLine, Row
<1>2. \A i : RepLine(i).hello \in BOOLEAN /\ RepLine(i).rep \in BOOLEAN
  BY DEF RepLine, Row
<1>3. \A i : HiddenLine(i).hello \in BOOLEAN /\ HiddenLine(i).rep \in BOOLEAN
  BY DEF HiddenLine, Row
<1>4. ASSUME NEW row \in Table PROVE row.hello \in BOOLEAN /\ row.rep \in BOOLEAN
  <2>1. CASE \E i \in 1 .. Len(hellos) : row = HelloLine(i)
    BY <1>1, <2>1
  <2>2. CASE \E i \in RepOnly : row = RepLine(i)
    BY <1>2, <2>2
  <2>3. CASE \E i \in Hidden : row = HiddenLine(i)
    BY <1>3, <2>3
  <2> QED
    BY <2>1, <2>2, <2>3, TableLines
<1> QED
  BY <1>4

LEMMA AirStep == ASSUME IInv, [Next]_vars PROVE AirType'
<1>1. AirType
  BY DEF IInv, TypeOK, AirType
<1>2. HelloAnswers \in SUBSET Answers /\ RepAnswers \in SUBSET Answers
  BY DEF Answers
<1>3. CASE SendHello \/ SendRep
  BY <1>1, <1>2, <1>3, AirAsked DEF SendHello, SendRep, SendAll
<1>4. ASSUME NEW m \in Switches, SendProbe(m) PROVE AirType'
  <2>1. Ask({f \in HelloAnswers : f.src = m}) /\ {f \in HelloAnswers : f.src = m} \in SUBSET Answers
    BY <1>2, <1>4 DEF SendProbe
  <2> QED
    BY <1>1, <2>1, AirAsked
<1>5. CASE \/ TakeOther \/ HearOther \/ HearOtherRep
           \/ \E f \in HelloAnswers : HearNewHello(f) \/ HearKnownHello(f) \/ TakeReply(f)
           \/ \E f \in RepAnswers : HearNewRep(f) \/ HearKnownRep(f)
  BY <1>1, <1>2, <1>5, AirFalls DEF TakeOther, HearOther, HearOtherRep, TakeReply,
     HearNewHello, HearKnownHello, HearNewRep, HearKnownRep
<1>6. CASE HearSilence \/ HearSilenceRep \/ Report \/ SendFails \/ UNCHANGED vars
  BY <1>1, <1>6 DEF HearSilence, HearSilenceRep, Report, SendFails, vars, AirType
<1> QED
  BY <1>3, <1>4, <1>5, <1>6 DEF Next, Scan, Probe

\* Where the process is, its counter and its age.
LEMMA ControlStep ==
    ASSUME IInv, [Next]_vars
    PROVE  /\ pc' \in {"sendHello", "hear", "sendRep", "hearRep", "report",
                       "probe", "await", "done", "exited"}
           /\ sent' \in 0 .. Retries + ProbeTries
           /\ age' \in 0 .. (IF pc' \in {"hear", "sendRep", "exited"} THEN HelloPatience
                                                          ELSE RepPatience) + QuietAge
<1> USE Limits DEF IInv, TypeOK, Counter, Young
<1>1. CASE SendHello \/ SendRep
  BY <1>1 DEF SendHello, SendRep, SendAll
<1>2. CASE \E m \in Switches : SendProbe(m)
  BY <1>2 DEF SendProbe
<1>3. CASE TakeOther
  BY <1>3 DEF TakeOther
<1>4. CASE \E f \in HelloAnswers : HearNewHello(f) \/ HearKnownHello(f) \/ TakeReply(f)
  BY <1>4 DEF HearNewHello, HearKnownHello, TakeReply
<1>5. CASE \E f \in RepAnswers : HearNewRep(f) \/ HearKnownRep(f)
  BY <1>5 DEF HearNewRep, HearKnownRep
<1>6. CASE HearOther \/ HearSilence
  BY <1>6 DEF HearOther, HearSilence, Ages
<1>7. CASE HearOtherRep \/ HearSilenceRep
  BY <1>7 DEF HearOtherRep, HearSilenceRep, Ages
<1>8. CASE Report \/ SendFails \/ UNCHANGED vars
  BY <1>8 DEF Report, SendFails, vars
<1> QED
  BY <1>1, <1>2, <1>3, <1>4, <1>5, <1>6, <1>7, <1>8 DEF Next, Scan, Probe

LEMMA TypeStep == ASSUME IInv, [Next]_vars PROVE TypeOK'
<1>1. hellos' \in Seq(HelloAnswers) /\ reps' \in Seq(RepMacs) /\ heard' \subseteq Answers
  <2>1. ASSUME NEW f \in HelloAnswers, HearNewHello(f) \/ HearKnownHello(f)
        PROVE  hellos' \in Seq(HelloAnswers) /\ reps' \in Seq(RepMacs) /\ heard' \subseteq Answers
    <3>1. <<f>> \o hellos \in Seq(HelloAnswers)
      BY DEF IInv, TypeOK
    <3>2. hellos' = <<f>> \o hellos \/ hellos' = hellos
      BY <2>1 DEF HearNewHello, HearKnownHello, lists
    <3>3. reps' = reps /\ heard' = heard \cup {f}
      BY <2>1 DEF HearNewHello, HearKnownHello, lists
    <3> QED
      BY <3>1, <3>2, <3>3, Replies DEF IInv, TypeOK
  <2>2. ASSUME NEW f \in RepAnswers, HearNewRep(f)
        PROVE  hellos' \in Seq(HelloAnswers) /\ reps' \in Seq(RepMacs) /\ heard' \subseteq Answers
    BY <2>2, Replies DEF HearNewRep, IInv, TypeOK
  <2> QED
    BY <2>1, <2>2, OthersListNothing DEF IInv, TypeOK
<1>2. \A row \in rows' : row.hello \in BOOLEAN /\ row.rep \in BOOLEAN
  <2>1. \A row \in Table : row.hello \in BOOLEAN /\ row.rep \in BOOLEAN
    BY LinesAreTyped
  <2>2. rows' = rows \/ rows' = Table
    BY DEF Next, Scan, Probe, SendHello, SendRep, SendAll, Report, SendProbe, TakeReply, TakeOther,
       SendFails, HearNewHello, HearKnownHello, HearNewRep, HearKnownRep, HearOther, HearSilence,
       HearOtherRep, HearSilenceRep, vars
  <2> QED
    BY <2>1, <2>2 DEF IInv, TypeOK
<1>3. target' \in Switches \cup {NoMac} /\ facing' \in HelloAnswers \cup {NoReply} /\ early' = early
  <2>1. CASE (\E m \in Switches : SendProbe(m)) \/ \E f \in HelloAnswers : TakeReply(f)
    BY <2>1 DEF SendProbe, TakeReply, IInv, TypeOK, history
  <2>2. CASE UNCHANGED <<target, facing, early>>
    BY <2>2 DEF IInv, TypeOK
  <2> QED
    BY <2>1, <2>2 DEF Next, Scan, Probe, SendHello, SendRep, SendAll, Report, TakeOther, SendFails,
       HearNewHello, HearKnownHello, HearNewRep, HearKnownRep, HearOther, HearSilence,
       HearOtherRep, HearSilenceRep, probe, history, vars
<1> QED
  BY <1>1, <1>2, <1>3, AirStep, ControlStep DEF TypeOK, AirType, IInv

-----------------------------------------------------------------------------
(***************************************************************************)
(* The theorems                                                            *)
(***************************************************************************)
LEMMA InvInit == Init => IInv
<1> SUFFICES ASSUME Init PROVE IInv
  OBVIOUS
<1>1. TypeOK
  <2>1. 0 .. 1 \subseteq 0 .. Copies
    BY Limits
  <2> QED
    BY <2>1, Limits DEF Init, TypeOK
<1>2. Counter /\ Young /\ Phases
  BY Limits DEF Init, Counter, Young, Phases
<1>3. Listed /\ Printed
  BY DEF Init, Listed, Contains, Printed, Scanned
<1>4. Answering /\ ProbeAnswersTarget
  BY DEF Init, Answering, ProbeAnswersTarget, Answers
<1> QED
  BY <1>1, <1>2, <1>3, <1>4 DEF IInv

LEMMA InvStep == IInv /\ [Next]_vars => IInv'
BY TypeStep, CounterStep, YoungStep, PhasesStep, ListedStep, PrintedStep, AnsweringStep DEF IInv

LEMMA InvHolds == Spec => []IInv
BY InvInit, InvStep, PTL DEF Spec

\* The variables hold values of their kinds: no loop ages beyond its limit by
\* more than one receive.
THEOREM TypeCorrect == Spec => []TypeOK
<1>1. IInv => TypeOK
  BY DEF IInv
<1> QED
  BY <1>1, InvHolds, PTL

\* The probe takes an answer of the switch it has asked, unless the answer to
\* some other host's tool was on its way when it began.
THEOREM ProbeAnswersTargetHolds == Spec => []ProbeAnswersTarget
<1>1. IInv => ProbeAnswersTarget
  BY DEF IInv
<1> QED
  BY <1>1, InvHolds, PTL

\* What the lists hold, in the words of the properties.
LEMMA ListsTell ==
    ASSUME IInv
    PROVE  /\ hellos \in Seq(HelloAnswers) /\ reps \in Seq(RepMacs)
           /\ \A m : HeardHello(m) <=> GaveHello(m)
           /\ \A m : HeardRep(m) <=> Contains(reps, m)
<1>1. hellos \in Seq(HelloAnswers) /\ reps \in Seq(RepMacs) /\ heard \subseteq Answers
  BY DEF IInv, TypeOK
<1>2. \A f \in heard : HelloReply(f) => f \in HelloAnswers
  BY <1>1, Replies DEF Answers
<1>3. \A i \in 1 .. Len(hellos) : hellos[i] \in HelloAnswers
  BY <1>1
<1>4. ASSUME NEW m PROVE HeardHello(m) <=> GaveHello(m)
  <2>1. ASSUME HeardHello(m) PROVE GaveHello(m)
    BY <1>2, <2>1 DEF HeardHello, GaveHello, IInv, Listed, Contains
  <2>2. ASSUME GaveHello(m) PROVE HeardHello(m)
    <3>1. PICK i \in 1 .. Len(hellos) : hellos[i].src = m
      BY <2>2 DEF GaveHello
    <3>2. hellos[i] \in HelloAnswers /\ Contains(hellos, hellos[i])
      BY <1>3 DEF Contains
    <3>3. hellos[i] \in heard /\ HelloReply(hellos[i])
      BY <3>2, Replies DEF IInv, Listed
    <3> QED
      BY <3>1, <3>3 DEF HeardHello
  <2> QED
    BY <2>1, <2>2
<1>5. ASSUME NEW m PROVE HeardRep(m) <=> Contains(reps, m)
  <2>1. ASSUME HeardRep(m) PROVE m \in RepMacs
    <3>1. [kind |-> "rep", src |-> m] \in Answers /\ ~HelloReply([kind |-> "rep", src |-> m])
      BY <1>1, <2>1 DEF HeardRep, HelloReply
    <3>2. [kind |-> "rep", src |-> m] \in RepAnswers
      BY <3>1, Replies DEF Answers
    <3>3. [kind |-> "rep", src |-> m].src \in RepMacs
      BY <3>2, Replies
    <3> QED
      BY <3>3
  <2>2. Contains(reps, m) => m \in RepMacs
    BY <1>1 DEF Contains
  <2> QED
    BY <2>1, <2>2 DEF HeardRep, IInv, Listed
<1> QED
  BY <1>1, <1>4, <1>5

\* What the table of rtl83xx_scan says of a switch is true.
THEOREM ReportTrueHolds == Spec => []ReportTrue
<1>1. IInv => ReportTrue
  <2> SUFFICES ASSUME IInv, Scanned, NEW row \in rows
               PROVE  /\ row.hello <=> HeardHello(row.mac)
                      /\ row.rep => HeardRep(row.mac)
                      /\ ~row.hello /\ ~row.rep =>
                            /\ ~HeardRep(row.mac)
                            /\ \E f \in heard : HelloReply(f) /\ f.uplink = row.mac
    BY DEF ReportTrue
  <2>1. row \in Table
    BY DEF IInv, Printed
  <2>2. CASE \E i \in 1 .. Len(hellos) : row = HelloLine(i)
    <3>1. PICK i \in 1 .. Len(hellos) : row = HelloLine(i)
      BY <2>2
    <3>2. row.hello /\ row.mac = hellos[i].src /\ (row.rep => Contains(reps, hellos[i].src))
      BY <3>1, HelloLines
    <3>3. GaveHello(hellos[i].src)
      BY DEF GaveHello
    <3> QED
      BY <3>2, <3>3, ListsTell
  <2>3. CASE \E i \in RepOnly : row = RepLine(i)
    <3>1. PICK i \in RepOnly : row = RepLine(i)
      BY <2>3
    <3>2. ~row.hello /\ row.rep /\ row.mac = reps[i]
      BY <3>1, RepLines
    <3>3. ~GaveHello(reps[i]) /\ Contains(reps, reps[i])
      BY DEF RepOnly, Contains
    <3> QED
      BY <3>2, <3>3, ListsTell
  <2>4. CASE \E i \in Hidden : row = HiddenLine(i)
    <3>1. PICK i \in Hidden : row = HiddenLine(i)
      BY <2>4
    <3>2. ~row.hello /\ ~row.rep /\ row.mac = hellos[i].uplink
      BY <3>1, HiddenLines
    <3>3. ~GaveHello(hellos[i].uplink) /\ ~Contains(reps, hellos[i].uplink) /\ i \in 1 .. Len(hellos)
      BY DEF Hidden
    <3>4. hellos[i] \in HelloAnswers /\ Contains(hellos, hellos[i])
      BY <3>3 DEF Contains, IInv, TypeOK
    <3>5. hellos[i] \in heard /\ HelloReply(hellos[i])
      BY <3>4, Replies DEF IInv, Listed
    <3> QED
      BY <3>2, <3>3, <3>5, ListsTell
  <2> QED
    BY <2>1, <2>2, <2>3, <2>4, TableLines
<1> QED
  BY <1>1, InvHolds, PTL

\* A line that says REP is the first line of a switch that answered REP.
LEMMA OneLineSaysRep ==
    ASSUME IInv, Scanned, NEW m \in RepMacs, HeardRep(m)
    PROVE  Single({row \in rows : row.rep /\ row.mac = m})
<1>1. rows = Table /\ Contains(reps, m) /\ hellos \in Seq(HelloAnswers) /\ reps \in Seq(RepMacs)
  BY ListsTell DEF IInv, Printed
<1>2. ASSUME NEW row \in rows, row.rep, row.mac = m
      PROVE  \/ \E i \in 1 .. Len(hellos) : row = HelloLine(i) /\ hellos[i].src = m
             \/ \E i \in RepOnly : row = RepLine(i) /\ reps[i] = m
  <2>1. CASE \E i \in 1 .. Len(hellos) : row = HelloLine(i)
    BY <1>2, <2>1, HelloLines
  <2>2. CASE \E i \in RepOnly : row = RepLine(i)
    BY <1>2, <2>2, RepLines
  <2>3. CASE \E i \in Hidden : row = HiddenLine(i)
    BY <1>2, <2>3, HiddenLines
  <2> QED
    BY <1>1, <2>1, <2>2, <2>3, TableLines
<1>3. CASE GaveHello(m)
  <2> DEFINE S == {i \in 1 .. Len(hellos) : hellos[i].src = m}
  <2>1. S \in SUBSET Nat /\ S # {}
    BY <1>1, <1>3 DEF GaveHello
  <2>2. PICK n \in S : \A k \in S : n <= k
    BY <2>1, Least
  <2>3. HelloLine(n).rep /\ HelloLine(n).mac = m /\ HelloLine(n) \in rows
    <3>1. n \in 1 .. Len(hellos) /\ hellos[n].src = m
      BY <2>2
    <3>2. \A j \in 1 .. n - 1 : j \in 1 .. Len(hellos) /\ ~ (n <= j)
      BY <1>1, <3>1
    <3>3. \A j \in 1 .. n - 1 : hellos[j].src # m
      BY <2>2, <3>2
    <3> QED
      BY <1>1, <3>1, <3>3, HelloLines DEF Table
  <2>4. \A i \in RepOnly : reps[i] # m
    BY <1>3 DEF RepOnly
  <2>5. ASSUME NEW i \in S, HelloLine(i).rep PROVE i = n
    <3>1. \A j \in 1 .. i - 1 : hellos[j].src # m
      BY <2>5, HelloLines
    <3>2. n \in Nat /\ i \in Nat /\ n <= i /\ n >= 1 /\ hellos[n].src = m
      BY <1>1, <2>2
    <3> QED
      BY <3>1, <3>2
  <2>6. ASSUME NEW row \in rows, row.rep, row.mac = m PROVE row = HelloLine(n)
    BY <1>2, <2>4, <2>5, <2>6
  <2> QED
    BY <2>3, <2>6 DEF Single
<1>4. CASE ~GaveHello(m)
  <2>1. PICK n \in 1 .. Len(reps) : reps[n] = m
    BY <1>1 DEF Contains
  <2>2. RepLine(n).rep /\ RepLine(n).mac = m
    BY <2>1, RepLines
  <2>3. RepLine(n) \in rows
    BY <1>1, <1>4, <2>1 DEF Table, RepOnly
  <2>4. ASSUME NEW row \in rows, row.rep, row.mac = m PROVE row = RepLine(n)
    <3>1. PICK i \in RepOnly : row = RepLine(i) /\ reps[i] = m
      BY <1>2, <1>4, <2>4 DEF GaveHello
    <3>2. i = n
      BY <2>1, <3>1 DEF RepOnly, IInv, Listed
    <3> QED
      BY <2>1, <3>1, <3>2
  <2> QED
    BY <2>2, <2>3, <2>4 DEF Single
<1> QED
  BY <1>3, <1>4

\* A hello answer has one line, and the uplink it names has one of some kind.
LEMMA OneLineForHello ==
    ASSUME IInv, Scanned, NEW f \in HelloAnswers, f \in heard
    PROVE  /\ Single({row \in rows : /\ row.hello
                                     /\ <<row.mac, row.uplink, row.via>>
                                        = <<f.src, f.uplink, f.via>>})
           /\ f.uplink \notin ZeroMacs => \E row \in rows : row.mac = f.uplink
<1>1. rows = Table /\ hellos \in Seq(HelloAnswers) /\ reps \in Seq(RepMacs)
  BY ListsTell DEF IInv, Printed
<1>2. PICK n \in 1 .. Len(hellos) : hellos[n] = f
  BY DEF IInv, Listed, Contains
<1>3. HelloLine(n) \in rows /\ HelloLine(n).hello
      /\ <<HelloLine(n).mac, HelloLine(n).uplink, HelloLine(n).via>> = <<f.src, f.uplink, f.via>>
  BY <1>1, <1>2, HelloLines DEF Table
<1>4. ASSUME NEW row \in rows, row.hello,
             <<row.mac, row.uplink, row.via>> = <<f.src, f.uplink, f.via>>
      PROVE  row = HelloLine(n)
  <2>1. PICK i \in 1 .. Len(hellos) : row = HelloLine(i)
    BY <1>1, <1>4, TableLines, HelloLines, RepLines, HiddenLines
  <2>2. hellos[i] \in HelloAnswers /\ hellos[i].src = f.src
        /\ hellos[i].uplink = f.uplink /\ hellos[i].via = f.via
    BY <1>1, <1>4, <2>1, HelloLines
  <2>3. hellos[i] = f
    BY <2>2, AnswersAssumption
  <2>4. i = n
    BY <1>2, <2>3 DEF IInv, Listed
  <2> QED
    BY <2>1, <2>4
<1>5. ASSUME f.uplink \notin ZeroMacs PROVE \E row \in rows : row.mac = f.uplink
  <2>1. CASE GaveHello(f.uplink)
    BY <1>1, <2>1, HelloLines DEF GaveHello, Table
  <2>2. CASE ~GaveHello(f.uplink) /\ Contains(reps, f.uplink)
    <3>1. PICK i \in RepOnly : reps[i] = f.uplink
      BY <2>2 DEF RepOnly, Contains
    <3>2. RepLine(i) \in rows
      BY <1>1 DEF Table
    <3> QED
      BY <3>1, <3>2, RepLines
  <2>3. CASE ~GaveHello(f.uplink) /\ ~Contains(reps, f.uplink)
    <3>1. n \in Hidden
      BY <1>2, <1>5, <2>3 DEF Hidden
    <3>2. HiddenLine(n) \in rows
      BY <1>1, <3>1 DEF Table
    <3> QED
      BY <1>2, <3>2, HiddenLines
  <2> QED
    BY <2>1, <2>2, <2>3
<1> QED
  BY <1>3, <1>4, <1>5 DEF Single

\* The table leaves nothing out and says nothing twice.
THEOREM ReportCompleteHolds == Spec => []ReportComplete
<1>1. IInv => ReportComplete
  <2> SUFFICES ASSUME IInv, Scanned, NEW f \in heard
               PROVE  /\ HelloReply(f) =>
                            /\ Single({row \in rows : /\ row.hello
                                                      /\ <<row.mac, row.uplink, row.via>>
                                                         = <<f.src, f.uplink, f.via>>})
                            /\ f.uplink \notin ZeroMacs => \E row \in rows : row.mac = f.uplink
                      /\ ~HelloReply(f) => Single({row \in rows : row.rep /\ row.mac = f.src})
    BY DEF ReportComplete
  <2>1. f \in HelloAnswers \/ f \in RepAnswers
    BY DEF IInv, TypeOK, Answers
  <2>2. CASE f \in HelloAnswers
    BY <2>2, OneLineForHello, Replies
  <2>3. CASE f \in RepAnswers
    <3>1. f.src \in RepMacs /\ HeardRep(f.src) /\ ~HelloReply(f)
      BY <2>3, Replies DEF HeardRep
    <3> QED
      BY <3>1, OneLineSaysRep
  <2> QED
    BY <2>1, <2>2, <2>3
<1> QED
  BY <1>1, InvHolds, PTL

=============================================================================
