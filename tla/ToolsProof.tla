----------------------------- MODULE ToolsProof -----------------------------
(***************************************************************************)
(* Proofs about any number of tools at work on one switch, for any         *)
(* registers, commands, sittings and first contents of the switch:         *)
(*   - no step disturbs a field its process was not asked about, unless    *)
(*     somebody else changed it meanwhile;                                 *)
(*   - what a process has in hand fits its tool, and what it set was read  *)
(*     or set whole before it is written: with that every variable keeps   *)
(*     its type.                                                           *)
(***************************************************************************)
EXTENDS Tools, TLAPS, SequenceTheorems, NaturalsInduction, WellFoundedInduction

(***************************************************************************)
(* The inductive invariant.                                                *)
(***************************************************************************)
\* What the variables are functions of.
OfActors(v) == v = [a \in Actor |-> v[a]]
Shape ==
    /\ DOMAIN hw = Field
    /\ OfActors(status) /\ OfActors(copy) /\ OfActors(edit)
    /\ OfActors(foreign) /\ OfActors(stage)
    /\ \A a \in Actor : copy[a] = [f \in Field |-> copy[a][f]]

\* A copy has what the switch has, or the process has set the field, or
\* another changed it; or the field has not been read.
Faithful == \A a \in Actor, f \in Field :
    \/ copy[a][f] \in {hw[f], Unread}
    \/ f \in foreign[a]
    \/ f \in DOMAIN edit[a]

\* A process that has not begun, or is gone, knows nothing.
Ignorant == \A a \in Actor, f \in Field : ~Running(a) => copy[a][f] = Unread

\* A check that has not yet been heard by the switch has set nothing.
NothingSet == \A a \in Actor :
    stage[a] \in {"hello", "default"} => Is(a, "check_rrcp") /\ DOMAIN edit[a] = {}

IInv == Shape /\ Faithful /\ Ignorant /\ NothingSet

-----------------------------------------------------------------------------
LEMMA InitIInv == Init => IInv
<1> SUFFICES ASSUME Init PROVE IInv
  OBVIOUS
<1> USE DEF Init, SharedInit
<1>1. Shape
  BY InitialHwAssumption DEF Shape, OfActors
<1>2. Faithful /\ Ignorant
  BY DEF Faithful, Ignorant
<1>3. NothingSet
  BY DEF NothingSet
<1> QED
  BY <1>1, <1>2, <1>3 DEF IInv

-----------------------------------------------------------------------------
\* A step that changes neither the registers nor any copy, and takes nothing
\* out of what others changed or the running processes have set.
Quiet ==
    /\ UNCHANGED <<hw, copy, foreign, sitting>>
    /\ \A a \in Actor : Running(a) => Running(a)' /\ DOMAIN edit[a] \subseteq DOMAIN edit'[a]

LEMMA QuietStep ==
    ASSUME IInv, Quiet
    PROVE  Faithful' /\ Ignorant'
<1>1. Faithful'
  BY DEF Quiet, IInv, Faithful, Ignorant
<1>2. Ignorant'
  BY DEF Quiet, IInv, Ignorant
<1> QED
  BY <1>1, <1>2

LEMMA BeginStep ==
    ASSUME IInv, NEW a \in Actor, NEW c, NEW job, NEW s, Begin(a, c, job, s),
           s \in {"hello", "default"} => Is(a, "check_rrcp") /\ DOMAIN job.edit = {}
    PROVE  IInv'
<1> USE DEF Begin
<1>1. Shape'
  BY DEF IInv, Shape, OfActors
<1>2. Quiet
  BY DEF Quiet, Running, IInv, Shape, OfActors
<1>3. NothingSet'
  BY DEF NothingSet, IInv, Shape, OfActors, Is
<1> QED
  BY <1>1, <1>2, <1>3, QuietStep DEF IInv

LEMMA ExitStep ==
    ASSUME IInv, NEW a \in Actor, NEW how, how # "running", Exit(a, how)
    PROVE  IInv'
<1> USE DEF Exit, Leave
<1>1. Shape'
  BY DEF IInv, Shape, OfActors
<1>2. Ignorant'
  BY DEF Ignorant, Running, IInv, Shape, OfActors
<1>3. Faithful'
  BY DEF Faithful, IInv, Shape, OfActors
<1>4. NothingSet'
  BY DEF NothingSet, IInv, Shape, OfActors, Is
<1> QED
  BY <1>1, <1>2, <1>3, <1>4 DEF IInv

\* What a process takes into its copy is what the switch has now.
LEMMA TakeStep ==
    ASSUME IInv, NEW a \in Actor, NEW r, Running(a), Take(a, r),
           UNCHANGED <<hw, status>>,
           \A b \in Actor : DOMAIN edit[b] \subseteq DOMAIN edit'[b]
    PROVE  /\ Faithful' /\ Ignorant'
           /\ OfActors(copy)' /\ OfActors(foreign)'
           /\ (\A b \in Actor : copy[b] = [f \in Field |-> copy[b][f]])'
<1> USE DEF Take, Overtake
<1>1. /\ OfActors(copy)' /\ OfActors(foreign)'
      /\ (\A b \in Actor : copy[b] = [f \in Field |-> copy[b][f]])'
  BY DEF IInv, Shape, OfActors
<1>2. Ignorant'
  BY DEF Ignorant, Running, IInv, Shape, OfActors
<1>3. Faithful'
  <2> SUFFICES ASSUME NEW b \in Actor, NEW f \in Field
               PROVE  (\/ copy[b][f] \in {hw[f], Unread}
                       \/ f \in foreign[b]
                       \/ f \in DOMAIN edit[b])'
    BY DEF Faithful
  <2>1. CASE b = a /\ f \in FieldsIn[r]
    BY <2>1 DEF IInv, Shape, OfActors
  <2>2. CASE b = a /\ f \notin FieldsIn[r]
    BY <2>2 DEF IInv, Shape, OfActors, Faithful
  <2>3. CASE b # a
    BY <2>3 DEF IInv, Shape, OfActors, Faithful
  <2> QED
    BY <2>1, <2>2, <2>3
<1> QED
  BY <1>1, <1>2, <1>3

-----------------------------------------------------------------------------
\* A write changes a field only if the process has set it, or somebody else
\* changed it since this process read it, or it was never read.
LEMMA WriteChanges ==
    ASSUME IInv, NEW a \in Actor, WriteReg(a), NEW f \in Field, Changes(f)
    PROVE  AtWrite(a) /\ f \in FieldsIn[OpReg(a)] /\ SteppedOver(a, f)
<1>1. AtWrite(a) /\ hw' = Written(a, OpReg(a))
  BY DEF WriteReg
<1>2. f \in FieldsIn[OpReg(a)]
  BY <1>1 DEF Written, Changes
<1>3. hw'[f] = Value(a, f)
  BY <1>1, <1>2 DEF Written
<1> QED
  BY <1>1, <1>2, <1>3 DEF Changes, Value, SteppedOver, IInv, Faithful

\* The others have what was written among what others changed, and the
\* process itself what it has set, or its copy.
LEMMA WriteStep ==
    ASSUME IInv, NEW a \in Actor, WriteReg(a), UNCHANGED toolVars
    PROVE  IInv'
<1> DEFINE r == OpReg(a)
<1>0. /\ hw' = Written(a, r)
      /\ Overtake(a, hw', FieldsIn[r])
      /\ UNCHANGED <<status, copy, edit, lost, toolVars>>
      /\ Running(a)
  BY DEF WriteReg, Reaches
<1> HIDE DEF r
<1>1. Shape'
  BY <1>0 DEF IInv, Shape, OfActors, Written, Overtake, toolVars
<1>2. Ignorant'
  BY <1>0 DEF IInv, Ignorant, Running
<1>3. NothingSet'
  BY <1>0 DEF IInv, NothingSet, toolVars, Is
<1>4. Faithful'
  <2> SUFFICES ASSUME NEW b \in Actor, NEW f \in Field
               PROVE  (\/ copy[b][f] \in {hw[f], Unread}
                       \/ f \in foreign[b]
                       \/ f \in DOMAIN edit[b])'
    BY DEF Faithful
  <2>1. CASE b = a /\ f \in FieldsIn[r]
    BY <1>0, <2>1 DEF Written, Value
  <2>2. CASE b = a /\ f \notin FieldsIn[r]
    <3>1. hw'[f] = hw[f]
      BY <1>0, <2>2 DEF Written
    <3>2. foreign'[b] = foreign[b] \ FieldsIn[r]
      BY <1>0, <2>2 DEF Overtake
    <3> QED
      BY <1>0, <2>2, <3>1, <3>2 DEF IInv, Faithful
  <2>3. CASE b # a /\ ~Running(b)
    BY <1>0, <2>3 DEF IInv, Ignorant
  <2>4. CASE b # a /\ Running(b)
    <3>1. foreign'[b] = foreign[b] \cup {g \in Field : hw'[g] # hw[g]}
      BY <1>0, <2>4 DEF Overtake
    <3> QED
      BY <1>0, <2>4, <3>1 DEF IInv, Faithful
  <2> QED
    BY <2>1, <2>2, <2>3, <2>4
<1> QED
  BY <1>1, <1>2, <1>3, <1>4 DEF IInv

-----------------------------------------------------------------------------
\* The sessions of rtl83xx and rrcpcli.
LEMMA SessionStep ==
    ASSUME IInv, NEW a \in Actor, Session(a)
    PROVE  IInv'
<1>1. CASE StartRtl83xx(a)
  <2>1. PICK c, wraps : Begin(a, c, Rtl83xxJob(c, wraps), "command")
    BY <1>1 DEF StartRtl83xx
  <2> QED
    BY <2>1, BeginStep
<1>2. CASE StartRrcpCli(a)
  BY <1>2, BeginStep DEF StartRrcpCli
<1>3. CASE GiveCommand(a)
  <2>1. PICK c : edit' = [edit EXCEPT ![a] = CliJob(a, c).edit ++ @]
    BY <1>3 DEF GiveCommand
  <2>2. \A b \in Actor : DOMAIN edit[b] \subseteq DOMAIN edit'[b]
    <3>1. DOMAIN edit'[a] = DOMAIN CliJob(a, c).edit \cup DOMAIN edit[a]
      BY <2>1 DEF IInv, Shape, OfActors, ++
    <3> QED
      BY <2>1, <3>1 DEF IInv, Shape, OfActors
  <2>3. UNCHANGED <<hw, status, copy, foreign, sitting, stage>>
    BY <1>3 DEF GiveCommand
  <2>4. Shape'
    BY <2>1, <2>3 DEF IInv, Shape, OfActors
  <2>5. NothingSet'
    BY <1>3, <2>1, <2>3 DEF IInv, NothingSet, Shape, OfActors, Is, GiveCommand, Prompt
  <2> QED
    BY <2>2, <2>3, <2>4, <2>5, QuietStep DEF Quiet, Running, IInv
<1>4. CASE Access(a)
  <2>1. CASE ReadReg(a) /\ edit' = [edit EXCEPT ![a] = Refined(a)] /\ UNCHANGED toolVars
    <3>1. DOMAIN Refined(a) = DOMAIN edit[a]
      BY DEF Refined
    <3>2. \A b \in Actor : DOMAIN edit'[b] = DOMAIN edit[b]
      BY <2>1, <3>1 DEF IInv, Shape, OfActors
    <3>3. /\ Running(a)
          /\ Take(a, OpReg(a))
          /\ UNCHANGED <<hw, status, sitting, stage>>
      BY <2>1 DEF ReadReg, Reaches, toolVars
    <3>4. Shape'
      BY <2>1, <3>2, <3>3, TakeStep DEF IInv, Shape, OfActors
    <3>5. NothingSet'
      BY <3>2, <3>3 DEF IInv, NothingSet, Is
    <3> QED
      BY <3>2, <3>3, <3>4, <3>5, TakeStep DEF IInv
  <2>2. CASE WriteReg(a) /\ UNCHANGED toolVars
    BY <2>2, WriteStep
  <2>3. CASE (LoseWrite(a) \/ SkipWrite(a)) /\ UNCHANGED toolVars
    <3>1. UNCHANGED <<hw, status, copy, edit, foreign, sitting, stage>>
      BY <2>3 DEF LoseWrite, SkipWrite, toolVars
    <3> QED
      BY <3>1, QuietStep DEF Quiet, Running, IInv, Shape, OfActors, NothingSet, Is
  <2> QED
    BY <1>4, <2>1, <2>2, <2>3 DEF Access
<1>5. CASE Finish(a) \/ EndInside(a)
  BY <1>5, ExitStep DEF Finish, EndInside
<1> QED
  BY <1>1, <1>2, <1>3, <1>4, <1>5 DEF Session

-----------------------------------------------------------------------------
\* Steps that only choose what comes next.
Planning ==
    /\ UNCHANGED <<hw, status, copy, foreign, sitting>>
    /\ OfActors(edit)' /\ OfActors(stage)'
    /\ \A a \in Actor : DOMAIN edit[a] \subseteq DOMAIN edit'[a]
    /\ NothingSet'

LEMMA PlanningStep ==
    ASSUME IInv, Planning
    PROVE  IInv'
<1>1. Quiet
  BY DEF Planning, Quiet, Running
<1>2. Shape'
  BY DEF Planning, IInv, Shape, OfActors
<1> QED
  BY <1>1, <1>2, QuietStep DEF Planning, IInv

\* A step that leaves what the processes have set goes to a stage after the
\* hellos, or stays at its own.
LEMMA StageStep ==
    ASSUME IInv, NEW a \in Actor, NEW s, s \notin {"hello", "default"},
           stage' = [stage EXCEPT ![a] = s],
           UNCHANGED <<hw, status, copy, edit, foreign, sitting>>
    PROVE  IInv'
<1>1. Planning
  BY DEF Planning, IInv, Shape, OfActors, NothingSet, Is
<1> QED
  BY <1>1, PlanningStep

LEMMA SameStageStep ==
    ASSUME IInv, UNCHANGED <<hw, status, copy, edit, foreign, sitting, stage>>
    PROVE  IInv'
<1>1. Planning
  BY DEF Planning, IInv, Shape, OfActors, NothingSet, Is
<1> QED
  BY <1>1, PlanningStep

LEMMA RestoreStep ==
    ASSUME IInv, NEW a \in Actor, Restore(a)
    PROVE  IInv'
<1>1. \A b \in Actor : DOMAIN edit'[b] = DOMAIN edit[b]
  BY DEF Restore, IInv, Shape, OfActors
<1>2. Planning
  BY <1>1 DEF Restore, Planning, IInv, Shape, OfActors, NothingSet, Is
<1> QED
  BY <1>2, PlanningStep

LEMMA CaptureStep ==
    ASSUME IInv, NEW a \in Actor, Capture(a)
    PROVE  IInv'
<1>1. CASE StartCapture(a)
  <2>1. PICK c, job : Begin(a, c, job, "setup")
    BY <1>1 DEF StartCapture
  <2> QED
    BY <2>1, BeginStep
<1>2. CASE Signal(a) \/ SetSecondWord(a)
  BY <1>2, SameStageStep DEF Signal, SetSecondWord, sharedVars, toolVars
<1>3. CASE BeginReset(a)
  BY <1>3, StageStep DEF BeginReset
<1>4. CASE ClearCaptured(a) \/ StopCapturing(a)
  <2>1. CASE Restore(a)
    BY <2>1, RestoreStep
  <2>2. CASE ~Restore(a)
    <3>1. PICK s \in {"loop", "reset"} : stage' = [stage EXCEPT ![a] = s]
      BY <1>4, <2>2 DEF ClearCaptured, StopCapturing
    <3>2. UNCHANGED <<hw, status, copy, edit, foreign, sitting>>
      BY <1>4, <2>2 DEF ClearCaptured, StopCapturing
    <3> QED
      BY <3>1, <3>2, StageStep
  <2> QED
    BY <2>1, <2>2
<1>5. CASE FinishCapture(a)
  BY <1>5, ExitStep DEF FinishCapture
<1> QED
  BY <1>1, <1>2, <1>3, <1>4, <1>5 DEF Capture

-----------------------------------------------------------------------------
\* The plug-in.
LEMMA HelloAnsweredStep ==
    ASSUME IInv, NEW a \in Actor, HelloAnswered(a)
    PROVE  IInv'
<1>1. /\ Running(a)
      /\ Take(a, OpReg(a))
      /\ UNCHANGED <<hw, status, sitting>>
  BY DEF HelloAnswered, Reaches
<1>2. /\ OfActors(edit)' /\ OfActors(stage)'
      /\ \A b \in Actor : DOMAIN edit[b] \subseteq DOMAIN edit'[b]
      /\ NothingSet'
  <2>1. CASE stage[a] \in {"hello", "again"}
    <3>1. edit' = edit /\ stage' = [stage EXCEPT ![a] = "checks"]
      BY <2>1 DEF HelloAnswered, GoOn
    <3> QED
      BY <3>1, <1>1 DEF IInv, Shape, OfActors, NothingSet, Is
  <2>2. CASE stage[a] = "default"
    <3>1. /\ edit' = [edit EXCEPT ![a] = Flags({"authkey"}, cmd[a].authkey)]
          /\ stage' = [stage EXCEPT ![a] = "setkey"]
      BY <2>2 DEF HelloAnswered, GoOn
    <3>2. DOMAIN edit[a] = {}
      BY <2>2 DEF IInv, NothingSet
    <3>3. OfActors(edit)' /\ OfActors(stage)'
      BY <3>1 DEF IInv, Shape, OfActors
    <3>4. \A b \in Actor : b # a => edit'[b] = edit[b] /\ stage'[b] = stage[b]
      BY <3>1 DEF IInv, Shape, OfActors
    <3>5. \A b \in Actor : DOMAIN edit[b] \subseteq DOMAIN edit'[b]
      BY <3>2, <3>4
    <3>6. stage'[a] = "setkey"
      BY <3>1 DEF IInv, Shape, OfActors
    <3>7. NothingSet'
      BY <3>4, <3>6, <1>1 DEF IInv, NothingSet, Is
    <3> QED
      BY <3>3, <3>5, <3>7
  <2> QED
    BY <2>1, <2>2 DEF HelloAnswered
<1>3. Shape'
  BY <1>1, <1>2, TakeStep DEF IInv, Shape, OfActors
<1> QED
  BY <1>1, <1>2, <1>3, TakeStep DEF IInv

LEMMA CheckAnsweredStep ==
    ASSUME IInv, NEW a \in Actor, CheckAnswered(a)
    PROVE  IInv'
<1>1. /\ Running(a)
      /\ Take(a, OpReg(a))
      /\ UNCHANGED <<hw, status, edit, sitting, stage>>
  BY DEF CheckAnswered, Reaches, toolVars
<1>2. Shape'
  BY <1>1, TakeStep DEF IInv, Shape, OfActors
<1>3. NothingSet'
  BY <1>1 DEF IInv, NothingSet, Is
<1> QED
  BY <1>1, <1>2, <1>3, TakeStep DEF IInv

LEMMA CheckStep ==
    ASSUME IInv, NEW a \in Actor, CheckRun(a)
    PROVE  IInv'
<1>1. CASE StartCheck(a)
  <2>1. PICK c : Begin(a, c, Job(Try("loop_status"), Keep), "hello")
    BY <1>1 DEF StartCheck
  <2>2. Is(a, "check_rrcp") /\ DOMAIN Job(Try("loop_status"), Keep).edit = {}
    BY <1>1 DEF StartCheck, Job, Keep
  <2> QED
    BY <2>1, <2>2, BeginStep
<1>2. CASE HelloFails(a)
  <2>1. /\ stage[a] \in {"hello", "default", "again"}
        /\ \/ stage' = [stage EXCEPT ![a] = "default"] /\ stage[a] = "hello"
           \/ stage' = [stage EXCEPT ![a] = "CRITICAL"]
        /\ UNCHANGED <<hw, status, copy, edit, foreign, sitting>>
    BY <1>2 DEF HelloFails, GoOn, Quit
  <2>2. CASE stage' = [stage EXCEPT ![a] = "default"] /\ stage[a] = "hello"
    <3>1. Planning
      BY <2>1, <2>2 DEF Planning, IInv, Shape, OfActors, NothingSet, Is
    <3> QED
      BY <3>1, PlanningStep
  <2>3. CASE stage' = [stage EXCEPT ![a] = "CRITICAL"]
    BY <2>1, <2>3, StageStep
  <2> QED
    BY <2>1, <2>2, <2>3
<1>3. CASE UseNewKey(a)
  BY <1>3, StageStep DEF UseNewKey, GoOn
<1>4. CASE CheckFails(a)
  BY <1>4, SameStageStep DEF CheckFails
<1>5. CASE Conclude(a)
  <2>1. PICK v \in {"WARNING", "OK"} : Quit(a, v)
    BY <1>5 DEF Conclude
  <2> QED
    BY <1>5, <2>1, StageStep DEF Conclude, Quit, GoOn
<1>6. CASE Alarm(a)
  BY <1>6, StageStep DEF Alarm, Quit, GoOn
<1>7. CASE ExitCheck(a)
  BY <1>7, ExitStep DEF ExitCheck
<1> QED
  BY <1>1, <1>2, <1>3, <1>4, <1>5, <1>6, <1>7, HelloAnsweredStep, CheckAnsweredStep
     DEF CheckRun

LEMMA DetectStep ==
    ASSUME IInv, NEW a \in Actor, DetectRun(a)
    PROVE  IInv'
<1>1. CASE StartDetection(a)
  <2>1. PICK c, job : Begin(a, c, job, "detect")
    BY <1>1 DEF StartDetection
  <2> QED
    BY <2>1, BeginStep
<1>2. CASE CountPorts(a) \/ ReadId(a) \/ CompareByte(a) \/ TestEcho(a)
  <2>1. UNCHANGED <<hw, status, copy, edit, foreign, sitting, stage>>
    BY <1>2 DEF CountPorts, ReadId, CompareByte, TestEcho, PastEnd, NextPlace, EndsUnread,
                NextSteps
  <2> QED
    BY <2>1, SameStageStep
<1>3. CASE Decide(a)
  BY <1>3, StageStep DEF Decide, sharedVars
<1>4. CASE FinishDetection(a)
  BY <1>4, ExitStep DEF FinishDetection
<1> QED
  BY <1>1, <1>2, <1>3, <1>4 DEF DetectRun

-----------------------------------------------------------------------------
\* What changes by itself is another's change to everybody at work.
LEMMA WireStep ==
    ASSUME IInv, NEW g \in Field, Wire(g)
    PROVE  IInv' /\ \A f \in Field : Changes(f) => f \in Moving
<1> USE DEF Wire
<1>1. \A f \in Field : f # g => hw'[f] = hw[f]
  BY DEF IInv, Shape
<1>2. UNCHANGED <<status, copy, edit, sitting, stage>>
  BY DEF toolVars
<1>3. Shape'
  BY <1>2 DEF IInv, Shape, OfActors
<1>4. Ignorant' /\ NothingSet'
  BY <1>2 DEF IInv, Ignorant, NothingSet, Running, Is
<1>5. \A b \in Actor : foreign'[b] = IF Running(b) THEN foreign[b] \cup {g} ELSE foreign[b]
  OBVIOUS
<1>6. Faithful'
  BY <1>1, <1>2, <1>5 DEF IInv, Faithful, Ignorant
<1> QED
  BY <1>1, <1>3, <1>4, <1>6 DEF IInv, Changes

LEMMA StepIInv == IInv /\ [Next]_vars => IInv'
<1> SUFFICES ASSUME IInv, [Next]_vars PROVE IInv'
  OBVIOUS
<1>1. CASE Next
  BY <1>1, SessionStep, CaptureStep, CheckStep, DetectStep, WireStep DEF Next
<1>2. CASE UNCHANGED vars
  BY <1>2, SameStageStep DEF vars, sharedVars, toolVars
<1> QED
  BY <1>1, <1>2

-----------------------------------------------------------------------------
\* Only a write and the world outside change a register.
LEMMA OnlyWrites ==
    ASSUME IInv, Next, NEW f \in Field, Changes(f)
    PROVE  f \in Moving \/ \E a \in Actor : WriteReg(a)
<1>1. CASE \E a \in Actor : Session(a)
  <2>1. PICK a \in Actor : Session(a)
    BY <1>1
  <2> QED
    BY <2>1 DEF Session, StartRtl83xx, StartRrcpCli, Begin, GiveCommand, Access, ReadReg,
                LoseWrite, SkipWrite, Finish, EndInside, Exit, Leave, Changes
<1>2. CASE \E a \in Actor : Capture(a)
  BY <1>2 DEF Capture, StartCapture, Begin, Signal, sharedVars, SetSecondWord, BeginReset,
              ClearCaptured, StopCapturing, Restore, FinishCapture, Exit, Leave, Changes
<1>3. CASE \E a \in Actor : CheckRun(a)
  BY <1>3 DEF CheckRun, StartCheck, Begin, HelloAnswered, HelloFails, UseNewKey,
              CheckAnswered, CheckFails, Conclude, Alarm, ExitCheck, Exit, Leave, Changes
<1>4. CASE \E a \in Actor : DetectRun(a)
  BY <1>4 DEF DetectRun, StartDetection, Begin, CountPorts, ReadId, CompareByte, TestEcho,
              PastEnd, NextPlace, EndsUnread, NextSteps, Decide, sharedVars,
              FinishDetection, Exit, Leave, Changes
<1>5. CASE \E g \in Field : Wire(g)
  BY <1>5, WireStep
<1> QED
  BY <1>1, <1>2, <1>3, <1>4, <1>5 DEF Next

LEMMA Invariance == Spec => []IInv
<1> QED
  BY InitIInv, StepIInv, PTL DEF Spec

\* No step of a tool disturbs a field it neither set nor has an outdated
\* value of: the whole-register writes of all the commands of rtl83xx and
\* rrcpcli, of the capture and of check_rrcp, together in any number.
THEOREM OthersKeptHolds == Spec => OthersKept
<1> DEFINE Kept == \A f \in Field : Changes(f) =>
                       \/ f \in Moving
                       \/ \E a \in Actor : AtWrite(a) /\ f \in FieldsIn[OpReg(a)]
                                               /\ SteppedOver(a, f)
<1>1. ASSUME IInv, Next PROVE Kept
  BY <1>1, OnlyWrites, WriteChanges
<1>2. IInv /\ [Next]_vars => [Kept]_vars
  BY <1>1
<1> QED
  BY <1>2, Invariance, PTL DEF Spec, OthersKept

-----------------------------------------------------------------------------
(***************************************************************************)
(* A process by itself                                                     *)
(***************************************************************************)

\* A step of a process.
Step(a) == Session(a) \/ Capture(a) \/ CheckRun(a) \/ DetectRun(a)

\* What the variables are functions of, these and the rest of them.
Rest == /\ OfActors(todo) /\ OfActors(key) /\ OfActors(lost)
        /\ OfActors(cmd) /\ OfActors(given) /\ OfActors(notes)
Owned == Shape /\ Rest

\* A step that leaves process a alone, but for the registers and what it is
\* told of the changes.
Apart(a) ==
    /\ UNCHANGED <<status[a], todo[a], copy[a], edit[a], key[a], lost[a],
                   cmd[a], given[a], stage[a], notes[a], sitting>>
    /\ foreign[a] \subseteq foreign'[a]
    /\ Running(a) => \A f \in Field : hw'[f] # hw[f] => f \in foreign'[a]

LEMMA OvertakenApart ==
    ASSUME Owned, NEW a \in Actor, NEW b \in Actor, a # b, NEW seen, Overtake(b, hw', seen)
    PROVE  /\ foreign[a] \subseteq foreign'[a]
           /\ Running(a) => \A f \in Field : hw'[f] # hw[f] => f \in foreign'[a]
BY DEF Overtake

LEMMA OthersApart ==
    ASSUME Owned, NEW a \in Actor, NEW b \in Actor, a # b, Step(b)
    PROVE  Apart(a)
<1> USE DEF Owned, Rest, Shape, OfActors, Apart
<1>1. ASSUME NEW c, NEW job, NEW s, Begin(b, c, job, s),
             UNCHANGED key \/ \E k : key' = [key EXCEPT ![b] = k]
      PROVE  Apart(a)
  BY <1>1 DEF Begin
<1>2. ASSUME NEW how, Exit(b, how) PROVE Apart(a)
  BY <1>2 DEF Exit, Leave
<1>3. ASSUME NEW r, Take(b, r) PROVE copy'[a] = copy[a] /\ foreign[a] \subseteq foreign'[a]
  BY <1>3 DEF Take, Overtake
<1>4. CASE Session(b)
  <2>1. CASE StartRtl83xx(b)
    BY <1>1, <2>1 DEF StartRtl83xx
  <2>2. CASE StartRrcpCli(b)
    BY <1>1, <2>2 DEF StartRrcpCli
  <2>3. CASE GiveCommand(b)
    BY <2>3 DEF GiveCommand
  <2>4. CASE Access(b)
    <3>1. CASE ReadReg(b) /\ edit' = [edit EXCEPT ![b] = Refined(b)] /\ UNCHANGED toolVars
      BY <1>3, <3>1 DEF ReadReg, Advance, toolVars
    <3>2. CASE WriteReg(b) /\ UNCHANGED toolVars
      BY <3>2, OvertakenApart DEF WriteReg, Advance, toolVars
    <3>3. CASE (LoseWrite(b) \/ SkipWrite(b)) /\ UNCHANGED toolVars
      BY <3>3 DEF LoseWrite, SkipWrite, Advance, toolVars
    <3> QED
      BY <2>4, <3>1, <3>2, <3>3 DEF Access
  <2>5. CASE Finish(b) \/ EndInside(b)
    BY <1>2, <2>5 DEF Finish, EndInside
  <2> QED
    BY <1>4, <2>1, <2>2, <2>3, <2>4, <2>5 DEF Session
<1>5. CASE Capture(b)
  <2>1. CASE StartCapture(b)
    BY <1>1, <2>1 DEF StartCapture
  <2>2. CASE Signal(b) \/ SetSecondWord(b) \/ BeginReset(b)
    BY <2>2 DEF Signal, SetSecondWord, BeginReset, sharedVars, toolVars
  <2>3. CASE Restore(b)
    BY <2>3 DEF Restore
  <2>4. CASE ClearCaptured(b) \/ StopCapturing(b)
    BY <2>3, <2>4 DEF ClearCaptured, StopCapturing, Advance
  <2>5. CASE FinishCapture(b)
    BY <1>2, <2>5 DEF FinishCapture
  <2> QED
    BY <1>5, <2>1, <2>2, <2>4, <2>5 DEF Capture
<1>6. CASE CheckRun(b)
  <2>1. CASE StartCheck(b)
    BY <1>1, <2>1 DEF StartCheck
  <2>2. CASE HelloAnswered(b)
    BY <1>3, <2>2 DEF HelloAnswered, GoOn, Note
  <2>3. CASE CheckAnswered(b)
    BY <1>3, <2>3 DEF CheckAnswered, toolVars
  <2>4. CASE HelloFails(b) \/ UseNewKey(b) \/ CheckFails(b) \/ Conclude(b) \/ Alarm(b)
    BY <2>4 DEF HelloFails, UseNewKey, CheckFails, Conclude, Alarm, Quit, GoOn, Note
  <2>5. CASE ExitCheck(b)
    BY <1>2, <2>5 DEF ExitCheck
  <2> QED
    BY <1>6, <2>1, <2>2, <2>3, <2>4, <2>5 DEF CheckRun
<1>7. CASE DetectRun(b)
  <2>1. CASE StartDetection(b)
    BY <1>1, <2>1 DEF StartDetection
  <2>2. CASE CountPorts(b) \/ ReadId(b) \/ CompareByte(b) \/ TestEcho(b)
    <3>1. PICK ops, learnt : NextSteps(b, ops, learnt)
      BY <2>2 DEF CountPorts, ReadId, CompareByte, TestEcho, PastEnd, NextPlace, EndsUnread
    <3> QED
      BY <3>1 DEF NextSteps
  <2>3. CASE Decide(b)
    BY <2>3 DEF Decide, sharedVars
  <2>4. CASE FinishDetection(b)
    BY <1>2, <2>4 DEF FinishDetection
  <2> QED
    BY <1>7, <2>1, <2>2, <2>3, <2>4 DEF DetectRun
<1> QED
  BY <1>4, <1>5, <1>6, <1>7 DEF Step

LEMMA WireApart ==
    ASSUME Owned, NEW a \in Actor, NEW f \in Field, Wire(f)
    PROVE  Apart(a)
BY DEF Wire, Apart, Owned, Rest, Shape, OfActors, toolVars

\* The variables stay functions of the processes.
LEMMA RestStep ==
    ASSUME Owned, NEW b \in Actor, Step(b)
    PROVE  Rest' /\ UNCHANGED sitting
<1> USE DEF Owned, Rest, OfActors
<1>1. ASSUME NEW c, NEW job, NEW s, Begin(b, c, job, s),
             UNCHANGED key \/ \E k : key' = [key EXCEPT ![b] = k]
      PROVE  Rest' /\ UNCHANGED sitting
  BY <1>1 DEF Begin
<1>2. ASSUME NEW how, Exit(b, how) PROVE Rest' /\ UNCHANGED sitting
  BY <1>2 DEF Exit, Leave
<1>3. CASE Session(b)
  <2>1. CASE StartRtl83xx(b) \/ StartRrcpCli(b)
    BY <1>1, <2>1 DEF StartRtl83xx, StartRrcpCli
  <2>2. CASE GiveCommand(b)
    BY <2>2 DEF GiveCommand
  <2>3. CASE Access(b)
    BY <2>3 DEF Access, ReadReg, WriteReg, LoseWrite, SkipWrite, Advance, toolVars
  <2>4. CASE Finish(b) \/ EndInside(b)
    BY <1>2, <2>4 DEF Finish, EndInside
  <2> QED
    BY <1>3, <2>1, <2>2, <2>3, <2>4 DEF Session
<1>4. CASE Capture(b)
  <2>1. CASE StartCapture(b)
    BY <1>1, <2>1 DEF StartCapture
  <2>2. CASE Signal(b) \/ SetSecondWord(b) \/ BeginReset(b)
    BY <2>2 DEF Signal, SetSecondWord, BeginReset, sharedVars, toolVars
  <2>3. CASE ClearCaptured(b) \/ StopCapturing(b)
    BY <2>3 DEF Restore, ClearCaptured, StopCapturing, Advance
  <2>4. CASE FinishCapture(b)
    BY <1>2, <2>4 DEF FinishCapture
  <2> QED
    BY <1>4, <2>1, <2>2, <2>3, <2>4 DEF Capture
<1>5. CASE CheckRun(b)
  <2>1. CASE StartCheck(b)
    BY <1>1, <2>1 DEF StartCheck
  <2>2. CASE HelloAnswered(b) \/ CheckAnswered(b)
    BY <2>2 DEF HelloAnswered, CheckAnswered, GoOn, Note, toolVars
  <2>3. CASE HelloFails(b) \/ UseNewKey(b) \/ CheckFails(b) \/ Conclude(b) \/ Alarm(b)
    BY <2>3 DEF HelloFails, UseNewKey, CheckFails, Conclude, Alarm, Quit, GoOn, Note
  <2>4. CASE ExitCheck(b)
    BY <1>2, <2>4 DEF ExitCheck
  <2> QED
    BY <1>5, <2>1, <2>2, <2>3, <2>4 DEF CheckRun
<1>6. CASE DetectRun(b)
  <2>1. CASE StartDetection(b)
    BY <1>1, <2>1 DEF StartDetection
  <2>2. CASE CountPorts(b) \/ ReadId(b) \/ CompareByte(b) \/ TestEcho(b)
    <3>1. PICK ops, learnt : NextSteps(b, ops, learnt)
      BY <2>2 DEF CountPorts, ReadId, CompareByte, TestEcho, PastEnd, NextPlace, EndsUnread
    <3> QED
      BY <3>1 DEF NextSteps
  <2>3. CASE Decide(b)
    BY <2>3 DEF Decide, sharedVars
  <2>4. CASE FinishDetection(b)
    BY <1>2, <2>4 DEF FinishDetection
  <2> QED
    BY <1>6, <2>1, <2>2, <2>3, <2>4 DEF DetectRun
<1> QED
  BY <1>3, <1>4, <1>5, <1>6 DEF Step

LEMMA StepOrApart ==
    ASSUME Owned, [Next]_vars, NEW a \in Actor
    PROVE  Step(a) \/ Apart(a) \/ UNCHANGED vars
BY OthersApart, WireApart DEF Next, Step

LEMMA OwnedStep == IInv /\ Owned /\ [Next]_vars => Owned'
<1> SUFFICES ASSUME IInv, Owned, [Next]_vars PROVE Owned'
  OBVIOUS
<1>1. Shape'
  BY StepIInv DEF IInv
<1>2. Rest'
  <2>1. CASE \E a \in Actor : Step(a)
    BY <2>1, RestStep
  <2>2. CASE \E f \in Field : Wire(f)
    BY <2>2 DEF Wire, Owned, Rest, OfActors, toolVars
  <2>3. CASE UNCHANGED vars
    BY <2>3 DEF vars, sharedVars, toolVars, Owned, Rest, OfActors
  <2> QED
    BY <2>1, <2>2, <2>3 DEF Next, Step
<1> QED
  BY <1>1, <1>2 DEF Owned

LEMMA OwnedInit == Init => Owned
<1> SUFFICES ASSUME Init PROVE Owned
  OBVIOUS
<1>1. Shape
  BY InitIInv DEF IInv
<1>2. Rest
  BY DEF Init, SharedInit, Rest, OfActors
<1> QED
  BY <1>1, <1>2 DEF Owned

LEMMA AlwaysOwned == Spec => []Owned
BY OwnedInit, OwnedStep, Invariance, PTL DEF Spec

-----------------------------------------------------------------------------
(***************************************************************************)
(* What the tools write                                                    *)
(***************************************************************************)
LEMMA RegFields == \A r \in Reg : FieldsIn[r] \subseteq Field
BY DEF Field

LEMMA PartsOf == Parts("alt_mask") \in Nat /\ Parts("alt_config") = 1
<1>1. "alt_mask" \in DOMAIN PortRegs /\ PortRegs["alt_mask"].per = WordPorts
  BY DEF PortRegs
<1>2. "alt_config" \notin DOMAIN PortRegs
  BY DEF PortRegs
<1>3. (NumPorts + WordPorts - 1) \div WordPorts \in Nat
  <2>1. NumPorts \in Nat \ {0} /\ WordPorts \in Nat \ {0}
    BY SwitchRegsAssumption
  <2>2. NumPorts + WordPorts - 1 \in Nat
    BY <2>1
  <2> QED
    BY <2>1, <2>2
<1> QED
  BY <1>1, <1>2, <1>3 DEF Parts

\* The registers put back are those read at first.
LEMMA Masks ==
    /\ Restoring \in Seq({"write"} \X Reg)
    /\ Len(Learning) = Len(Restoring)
    /\ \A n \in 1 .. Len(Learning) : Learning[n][2] = Restoring[n][2]
<1> DEFINE Words(kind, name) == [n \in 1 .. Parts(name) |-> <<kind, <<name, 0, n - 1>>>>]
<1>1. \A kind : /\ All(kind, "alt_config", 0) = Words(kind, "alt_config")
                /\ All(kind, "alt_mask", 0) = Words(kind, "alt_mask")
  BY DEF All
<1>2. \A name \in {"alt_config", "alt_mask"} : \A n \in 1 .. Parts(name) : <<name, 0, n - 1>> \in Reg
  <2>1. {"alt_config", "alt_mask"} \subseteq DOMAIN PortRegs \cup DOMAIN FlagRegs
    BY DEF PortRegs, FlagRegs
  <2>2. \A name \in {"alt_config", "alt_mask"} : SlotsOf(name) = {0}
    BY DEF SlotsOf
  <2> QED
    BY <2>1, <2>2, PartsOf DEF Reg
<1> DEFINE wc == Words("write", "alt_config")
           wm == Words("write", "alt_mask")
           rc == Words("read", "alt_config")
           rm == Words("read", "alt_mask")
<1>3. wc \in Seq({"write"} \X Reg) /\ wm \in Seq({"write"} \X Reg)
  BY <1>2, PartsOf
<1>4. rc \in Seq({"read"} \X Reg) /\ rm \in Seq({"read"} \X Reg)
  BY <1>2, PartsOf
<1>5. Len(wc) = Len(rc) /\ Len(wm) = Len(rm)
      /\ (\A n \in 1 .. Len(wc) : wc[n][2] = rc[n][2])
      /\ \A n \in 1 .. Len(wm) : wm[n][2] = rm[n][2]
  BY PartsOf
<1>6. Restoring = wc \o wm /\ Learning = rc \o rm
  BY <1>1 DEF Restoring, Learning, Writes, Reads
<1> HIDE DEF wc, wm, rc, rm
<1>7. Restoring \in Seq({"write"} \X Reg) /\ Len(Learning) = Len(Restoring)
  <2>1. \A S : \A s, t \in Seq(S) : s \o t \in Seq(S) /\ Len(s \o t) = Len(s) + Len(t)
    OBVIOUS
  <2> DEFINE W == {"write"} \X Reg
             R == {"read"} \X Reg
  <2>2. wc \in Seq(W) /\ wm \in Seq(W) /\ rc \in Seq(R) /\ rm \in Seq(R)
    BY <1>3, <1>4
  <2> HIDE DEF W, R
  <2>3. Restoring \in Seq(W) /\ Len(Restoring) = Len(wc) + Len(wm)
    BY <1>6, <2>1, <2>2
  <2>4. Len(Learning) = Len(rc) + Len(rm)
    BY <1>6, <2>1, <2>2
  <2> QED
    BY <1>5, <2>3, <2>4 DEF W
<1>8. ASSUME NEW n \in 1 .. Len(Learning) PROVE Learning[n][2] = Restoring[n][2]
  <2>1. CASE n <= Len(wc)
    <3>1. Learning[n] = rc[n] /\ Restoring[n] = wc[n]
      BY <1>3, <1>4, <1>5, <1>6, <2>1
    <3> QED
      BY <1>3, <1>5, <2>1, <3>1
  <2>2. CASE ~ (n <= Len(wc))
    <3> DEFINE m == n - Len(wc)
    <3>1. /\ n \in Nat /\ Len(rc) < n /\ Len(wc) < n
          /\ n <= Len(rc) + Len(rm) /\ n <= Len(wc) + Len(wm)
          /\ Len(wc) \in Nat /\ Len(rc) \in Nat /\ Len(wm) \in Nat
      BY <1>3, <1>4, <1>5, <1>6, <1>7, <2>2
    <3>2. Learning[n] = rm[n - Len(rc)]
      BY <1>4, <1>6, <3>1
    <3>3. Restoring[n] = wm[n - Len(wc)]
      BY <1>3, <1>6, <3>1
    <3>4. m \in 1 .. Len(wm) /\ Learning[n] = rm[m] /\ Restoring[n] = wm[m]
      BY <1>5, <3>1, <3>2, <3>3
    <3> HIDE DEF m
    <3> QED
      BY <1>5, <3>4
  <2> QED
    BY <2>1, <2>2
<1> QED
  BY <1>7, <1>8

\* Of the numbers with something in common one is the least.
LEMMA Least ==
    ASSUME NEW S \in SUBSET Nat, S # {}
    PROVE  \E n \in S : \A k \in S : n <= k
<1>1. PICK n \in S : \A k \in S : <<k, n>> \notin OpToRel(<, Nat)
  BY NatLessThanWellFounded, WFMin, Zenon
<1>2. \A k \in S : ~ (k < n)
  BY <1>1, Zenon DEF OpToRel
<1> QED
  BY <1>2

\* Lists of accesses are joined one after the other.
LEMMA FlattenRuns ==
    ASSUME NEW S, NEW seqs \in Seq(Seq(S)), NEW k \in 1 .. Len(seqs)
    PROVE  \E f : f = [i \in 1 .. k |-> IF i = 1 THEN seqs[i] ELSE f[i - 1] \o seqs[i]]
<1> DEFINE Runs(m) == \E f : f = [i \in 1 .. m |-> IF i = 1 THEN seqs[i] ELSE f[i - 1] \o seqs[i]]
           T == {m \in 1 .. Len(seqs) : ~Runs(m)}
<1>1. SUFFICES ASSUME T # {} PROVE FALSE
  OBVIOUS
<1>2. PICK m \in T : \A j \in T : m <= j
  <2>1. T \in SUBSET Nat
    <3>1. Len(seqs) \in Nat
      OBVIOUS
    <3> DEFINE last == Len(seqs)
    <3> HIDE DEF Runs, last
    <3> QED
      OBVIOUS
  <2> HIDE DEF T
  <2> QED
    BY <1>1, <2>1, Least
<1>3. CASE m = 1
  <2> DEFINE f == [i \in 1 .. 1 |-> seqs[1]]
  <2>1. f = [i \in 1 .. m |-> IF i = 1 THEN seqs[i] ELSE f[i - 1] \o seqs[i]]
    BY <1>3
  <2> HIDE DEF f
  <2> QED
    BY <1>2, <2>1
<1>4. CASE m # 1
  <2>1. m \in Nat /\ m - 1 \in 1 .. Len(seqs) /\ ~ (m <= m - 1)
    BY <1>4
  <2>2. Runs(m - 1)
    BY <1>2, <2>1
  <2>3. PICK f : f = [i \in 1 .. m - 1 |-> IF i = 1 THEN seqs[i] ELSE f[i - 1] \o seqs[i]]
    BY <2>2
  <2> DEFINE g == [i \in 1 .. m |-> IF i = m THEN f[m - 1] \o seqs[m] ELSE f[i]]
  <2>4. \A i \in 1 .. m - 1 : f[i] = IF i = 1 THEN seqs[i] ELSE f[i - 1] \o seqs[i]
    BY <2>3
  <2>5. ASSUME NEW i \in 1 .. m
        PROVE  g[i] = IF i = 1 THEN seqs[i] ELSE g[i - 1] \o seqs[i]
    <3>1. CASE i = m
      <4>1. g[i - 1] = f[m - 1]
        BY <1>4, <2>1, <3>1
      <4> QED
        BY <1>4, <3>1, <4>1
    <3>2. CASE i # m
      <4>1. i \in 1 .. m - 1 /\ g[i] = f[i]
        BY <2>1, <3>2
      <4>2. i # 1 => g[i - 1] = f[i - 1]
        BY <2>1, <3>2
      <4> QED
        BY <2>4, <4>1, <4>2
    <3> QED
      BY <3>1, <3>2
  <2>6. g = [i \in 1 .. m |-> IF i = 1 THEN seqs[i] ELSE g[i - 1] \o seqs[i]]
    BY <2>5
  <2> HIDE DEF g
  <2>7. Runs(m)
    BY <2>6
  <2> QED
    BY <1>2, <2>7
<1> QED
  BY <1>3, <1>4

LEMMA Flattened ==
    ASSUME NEW S, NEW seqs \in Seq(Seq(S))
    PROVE  FlattenSeq(seqs) \in Seq(S)
<1> DEFINE n == Len(seqs)
           flatten == CHOOSE f : f = [i \in 1 .. n |-> IF i = 1 THEN seqs[i] ELSE f[i - 1] \o seqs[i]]
           T == {i \in 1 .. n : flatten[i] \notin Seq(S)}
<1>1. CASE n = 0
  <2>1. seqs = <<>>
    BY <1>1
  <2> QED
    BY <1>1, <2>1 DEF FlattenSeq
<1>2. CASE n # 0
  <2>1. n \in 1 .. n /\ n \in Nat
    BY <1>2
  <2>2. FlattenSeq(seqs) = flatten[n]
    BY <1>2 DEF FlattenSeq
  <2>3. flatten = [i \in 1 .. n |-> IF i = 1 THEN seqs[i] ELSE flatten[i - 1] \o seqs[i]]
    BY <2>1, FlattenRuns
  <2> HIDE DEF flatten
  <2>4. \A i \in 1 .. n : flatten[i] = IF i = 1 THEN seqs[i] ELSE flatten[i - 1] \o seqs[i]
    BY <2>3
  <2>5. T = {}
    <3>1. SUFFICES ASSUME T # {} PROVE FALSE
      OBVIOUS
    <3>2. PICK m \in T : \A j \in T : m <= j
      <4>1. T \in SUBSET Nat
        BY <2>1
      <4> HIDE DEF T
      <4> QED
        BY <3>1, <4>1, Least
    <3>3. m # 1
      BY <2>4
    <3>4. m - 1 \in 1 .. n /\ ~ (m <= m - 1)
      BY <2>1, <3>3
    <3>5. flatten[m - 1] \in Seq(S)
      BY <3>2, <3>4
    <3>6. flatten[m] = flatten[m - 1] \o seqs[m] /\ seqs[m] \in Seq(S)
      <4>1. m \in 1 .. Len(seqs)
        OBVIOUS
      <4> HIDE DEF T
      <4>2. flatten[m] = flatten[m - 1] \o seqs[m]
        BY <2>4, <3>3, <4>1
      <4>3. \A R : \A s \in Seq(R) : \A i \in 1 .. Len(s) : s[i] \in R
        OBVIOUS
      <4>4. seqs[m] \in Seq(S)
        BY <4>1, <4>3
      <4> QED
        BY <4>2, <4>4
    <3>7. flatten[m] \notin Seq(S)
      OBVIOUS
    <3>8. \A R : \A s, t \in Seq(R) : s \o t \in Seq(R)
      OBVIOUS
    <3> QED
      BY <3>5, <3>6, <3>7, <3>8
  <2> QED
    BY <2>1, <2>2, <2>5
<1> QED
  BY <1>1, <1>2
LEMMA LastPart ==
    ASSUME NEW n \in Nat \ {0}, NEW w \in Nat \ {0}
    PROVE  (n + w - 1) \div w \in Nat \ {0}
<1>1. n + w - 1 \in Nat /\ w <= n + w - 1
  OBVIOUS
<1> DEFINE m == n + w - 1
<1> HIDE DEF m
<1>2. m \in Nat /\ w <= m
  BY <1>1 DEF m
<1>3. m \div w \in Nat /\ m < w * (m \div w) + w
  BY <1>2
<1>4. m \div w # 0
  BY <1>2, <1>3
<1> QED
  BY <1>3, <1>4 DEF m

\* The registers of the configuration, and what the tools do with registers.
Plain ==
    {"rrcp_byport_disable", "qos_port_priority", "port_disable", "alt_mask", "insert_vid",
     "sniffer", "sniffed_rx", "sniffed_tx", "output_tag", "port_vlan", "bandwidth",
     "port_config", "rrcp_config", "authkey", "alt_config", "alt_igmp_snooping", "vlan",
     "qos_config", "port_config_global"}
Tables == {"vlan_entry", "vlan_vid"}
ConfigRegs == {r \in Reg : r[1] \in Plain \cup Tables}

Kinds == {"read", "write", "writeIfChanged", "writeUnlessBreak"}
Accesses == Kinds \X ConfigRegs
Steps ==
    Accesses \cup ({"try"} \X Reg) \cup ({"clear", "phy", "id", "echo"} \X Nat)
      \cup ({"compare"} \X Nat \X Nat)

LEMMA Names ==
    /\ Plain \cup Tables \cup {"loop_status", "loop_ports", "link"}
          \subseteq DOMAIN PortRegs \cup DOMAIN FlagRegs \cup {"vlan_vid"}
    /\ \A name \in Plain \cup {"loop_status", "loop_ports", "link"} : SlotsOf(name) = {0}
    /\ \A name \in Tables : SlotsOf(name) = Slots
<1>1. Plain \cup Tables \cup {"loop_status", "loop_ports", "link"}
          \subseteq DOMAIN PortRegs \cup DOMAIN FlagRegs \cup {"vlan_vid"}
  BY DEF Plain, Tables, PortRegs, FlagRegs
<1>2. \A name \in Plain \cup {"loop_status", "loop_ports", "link"} : SlotsOf(name) = {0}
  BY DEF Plain, SlotsOf
<1> QED
  BY <1>1, <1>2 DEF Tables, SlotsOf

LEMMA PartsNat == \A name : Parts(name) \in Nat \ {0}
<1> SUFFICES ASSUME NEW name PROVE Parts(name) \in Nat \ {0}
  OBVIOUS
<1>1. CASE name \in DOMAIN PortRegs
  <2> DEFINE per == PortRegs[name].per
  <2>1. per \in {WordPorts, TagPorts, 2}
    BY <1>1 DEF PortRegs
  <2>2. NumPorts \in Nat \ {0} /\ per \in Nat \ {0}
    BY <2>1, SwitchRegsAssumption
  <2> HIDE DEF per
  <2>3. (NumPorts + per - 1) \div per \in Nat \ {0}
    BY <2>2, LastPart
  <2> QED
    BY <1>1, <2>3 DEF Parts, per
<1>2. CASE name \notin DOMAIN PortRegs
  BY <1>2 DEF Parts
<1> QED
  BY <1>1, <1>2

\* All the accesses to the registers of a name.
LEMMA InAll ==
    ASSUME NEW kind, NEW name \in DOMAIN PortRegs \cup DOMAIN FlagRegs \cup {"vlan_vid"},
           NEW slot \in SlotsOf(name)
    PROVE  /\ All(kind, name, slot) \in Seq({kind} \X {r \in Reg : r[1] = name})
           /\ Len(All(kind, name, slot)) = Parts(name)
           /\ \A n \in 1 .. Parts(name) : All(kind, name, slot)[n] = <<kind, <<name, slot, n - 1>>>>
<1>1. Parts(name) \in Nat
  BY PartsNat
<1>2. \A n \in 1 .. Parts(name) : <<name, slot, n - 1>> \in Reg
  <2>1. \A n \in 1 .. Parts(name) : n - 1 \in 0 .. Parts(name) - 1
    BY <1>1
  <2> QED
    BY <2>1 DEF Reg
<1> QED
  BY <1>1, <1>2 DEF All

LEMMA AllAccesses ==
    ASSUME NEW kind \in Kinds, NEW name \in Plain \cup Tables, NEW slot \in SlotsOf(name)
    PROVE  All(kind, name, slot) \in Seq(Accesses)
<1>1. All(kind, name, slot) \in Seq({kind} \X {r \in Reg : r[1] = name})
  <2>1. name \in DOMAIN PortRegs \cup DOMAIN FlagRegs \cup {"vlan_vid"}
    BY Names
  <2> QED
    BY <2>1, InAll
<1>2. {kind} \X {r \in Reg : r[1] = name} \subseteq Accesses
  BY DEF Accesses, ConfigRegs
<1>3. \A S, T : S \subseteq T => Seq(S) \subseteq Seq(T)
  OBVIOUS
<1> QED
  BY <1>1, <1>2, <1>3

\* Reading, writing, and both.
LEMMA PlainAccesses ==
    /\ \A name \in Plain : /\ Reads(name) \in Seq(Accesses)
                           /\ Writes(name) \in Seq(Accesses)
                           /\ All("writeIfChanged", name, 0) \in Seq(Accesses)
    /\ \A s, t \in Seq(Accesses) : s \o t \in Seq(Accesses)
<1>1. \A R : \A s, t \in Seq(R) : s \o t \in Seq(R)
  OBVIOUS
<1>2. \A name \in Plain : 0 \in SlotsOf(name)
  BY Names
<1> QED
  BY <1>1, <1>2, AllAccesses DEF Reads, Writes, Kinds

LEMMA SomePorts ==
    ASSUME NEW name \in Plain, NEW ports
    PROVE  WritesFor(name, ports) \in Seq(Accesses)
<1> DEFINE one(n) == <<<<"write", <<name, 0, n - 1>>>>>>
           seqs == [n \in 1 .. Parts(name) |->
                       IF \E q \in ports : q \div PortRegs[name].per = n - 1 THEN one(n) ELSE <<>>]
<1>1. Parts(name) \in Nat
  BY PartsNat
<1>2. \A n \in 1 .. Parts(name) : <<"write", <<name, 0, n - 1>>>> \in Accesses
  <2>1. \A n \in 1 .. Parts(name) : n - 1 \in 0 .. Parts(name) - 1
    BY <1>1
  <2>2. \A n \in 1 .. Parts(name) : <<name, 0, n - 1>> \in Reg
    BY <2>1, Names DEF Reg
  <2> QED
    BY <2>2 DEF Accesses, Kinds, ConfigRegs
<1>3. \A n \in 1 .. Parts(name) : one(n) \in Seq(Accesses)
  <2>1. \A x \in Accesses : <<x>> \in Seq(Accesses)
    OBVIOUS
  <2> QED
    BY <1>2, <2>1
<1> HIDE DEF one
<1>4. seqs \in Seq(Seq(Accesses))
  <2>1. <<>> \in Seq(Accesses)
    OBVIOUS
  <2> DEFINE L == Seq(Accesses)
  <2>2. \A n \in 1 .. Parts(name) : seqs[n] \in L
    BY <1>3, <2>1
  <2> HIDE DEF L
  <2>3. seqs \in Seq(L)
    BY <1>1, <2>2
  <2> QED
    BY <2>3 DEF L
<1>5. WritesFor(name, ports) = FlattenSeq(seqs)
  BY DEF WritesFor, one
<1> HIDE DEF seqs
<1> QED
  BY <1>4, <1>5, Flattened

-----------------------------------------------------------------------------
\* What a command reads and writes.
Careful(job) == job.ops \in Seq(Accesses)

LEMMA Shapes ==
    /\ \A ops \in Seq(Accesses) : \A e : Careful(Job(ops, e))
    /\ \A name \in Plain : \A e : /\ Careful(EditFlags(name, e)) /\ Careful(IfChanged(name, e))
                                  /\ Careful(Set(name, e))
    /\ \A name \in Plain : \A e, q : Careful(SetPort(name, e, q))
    /\ \A name \in Plain : \A ports, val : Careful(do_32bit_reg_action(name, ports, val))
<1>1. \A ops \in Seq(Accesses) : \A e : Careful(Job(ops, e))
  BY DEF Careful, Job
<1>2. \A name \in Plain : \A q : WritesFor(name, {q}) \in Seq(Accesses)
  BY SomePorts
<1> QED
  BY <1>1, <1>2, PlainAccesses
  DEF EditFlags, IfChanged, ReadWrite, Set, SetPort, do_32bit_reg_action

LEMMA CliJobs ==
    ASSUME NEW a, NEW c, IsRrcpCli(c)
    PROVE  Careful(CliJob(a, c))
<1> DEFINE media == [q \in PhysPorts |-> Value(a, Port("media", q))]
           q == Phys[CHOOSE l \in c.ports : TRUE]
<1>1. CASE c.ports # {}
  <2>1. \A v, w, m : /\ Careful(cmd_config_int_shutdown(q, v)) /\ Careful(cmd_rate_limit(q, v, w))
                     /\ Careful(cmd_config_int_mac_learning(q, v)) /\ Careful(cmd_config_int_rrcp(q, v))
                     /\ Careful(cmd_config_int_mls(q, v)) /\ Careful(cmd_config_int_speed(q, v, m))
    BY Shapes DEF cmd_config_int_shutdown, cmd_rate_limit, cmd_config_int_mac_learning,
       cmd_config_int_rrcp, cmd_config_int_mls, cmd_config_int_speed, Plain
  <2>2. \A v, m : Careful(cmd_config_int_duplex(q, v, m))
    <3>1. <<>> \in Seq(Accesses)
      OBVIOUS
    <3> QED
      BY <3>1, Shapes DEF cmd_config_int_duplex, Plain
  <2>3. CliJob(a, c) = InterfaceCommandJob(c, media)
    BY <1>1 DEF CliJob
  <2> HIDE DEF media
  <2>4. Careful(InterfaceCommandJob(c, media))
    BY <1>1, <2>1, <2>2 DEF InterfaceCommandJob, IsRrcpCli
  <2> QED
    BY <2>3, <2>4
<1>2. CASE c.ports = {}
  <2>1. \A v, w : /\ Careful(cmd_config_mac_aging(v)) /\ Careful(cmd_config_ip_igmp_snooping(v))
                  /\ Careful(cmd_config_rrcp(v, w)) /\ Careful(cmd_config_vlan_leaky(v, w))
                  /\ Careful(cmd_config_vlan_drop(v, w))
    BY Shapes DEF cmd_config_mac_aging, cmd_config_ip_igmp_snooping, cmd_config_rrcp,
       cmd_config_vlan_leaky, cmd_config_vlan_drop, Plain
  <2>2. \A v, w : /\ Careful(cmd_config_qos(v, w)) /\ Careful(cmd_config_qos_wrr_queue_ratio(v))
                  /\ Careful(cmd_config_stormcontrol(v, w))
                  /\ Careful(cmd_config_stormcontrol_multicast(v)) /\ Careful(cmd_config_spanning_tree(v))
    BY Shapes DEF cmd_config_qos, cmd_config_qos_wrr_queue_ratio, cmd_config_stormcontrol,
       cmd_config_stormcontrol_multicast, cmd_config_spanning_tree, Plain
  <2>3. \A v : Careful(set_authkey(v)) /\ Careful(cmd_config_flowcontrol(v))
    <3>1. Writes("authkey") \in Seq(Accesses)
          /\ Writes("port_config_global") \o Writes("qos_config") \in Seq(Accesses)
      BY PlainAccesses DEF Plain
    <3> QED
      BY <3>1, Shapes DEF set_authkey, cmd_config_flowcontrol
  <2>4. Careful(GlobalCommandJob(c))
    BY <1>2, <2>1, <2>2, <2>3 DEF GlobalCommandJob, IsRrcpCli
  <2> QED
    BY <1>2, <2>4 DEF CliJob
<1> QED
  BY <1>1, <1>2

-----------------------------------------------------------------------------
LEMMA StatusReal ==
    /\ <<"loop_status", 0, 0>> \in Reg
    /\ Flag("loop_found") \in FieldsIn[<<"loop_status", 0, 0>>]
    /\ \A q \in PhysPorts : /\ <<"link", 0, q \div 2>> \in Reg
                            /\ q \div 2 + 1 \in 1 .. Parts("link")
                            /\ Port("link", q) \in FieldsIn[<<"link", 0, q \div 2>>]
    /\ StatusFields \subseteq Field
<1>1. <<"loop_status", 0, 0>> \in Reg
  <2>1. 0 \in 0 .. Parts("loop_status") - 1
    BY PartsNat
  <2>2. "loop_status" \in DOMAIN FlagRegs /\ 0 \in SlotsOf("loop_status")
    BY Names DEF FlagRegs
  <2> QED
    BY <2>1, <2>2 DEF Reg
<1>2. Flag("loop_found") \in FieldsIn[<<"loop_status", 0, 0>>]
  BY <1>1 DEF FieldsIn, FlagRegs, PortRegs, Flag
<1>3. PortRegs["link"] = [fields |-> {"link"}, per |-> 2] /\ "link" \in DOMAIN PortRegs
  BY DEF PortRegs
<1>4. ASSUME NEW q \in PhysPorts
      PROVE  /\ <<"link", 0, q \div 2>> \in Reg
             /\ q \div 2 + 1 \in 1 .. Parts("link")
             /\ Port("link", q) \in FieldsIn[<<"link", 0, q \div 2>>]
  <2>1. NumPorts \in Nat \ {0} /\ q \in Nat /\ q < NumPorts
    BY SwitchRegsAssumption DEF PhysPorts
  <2>2. q \div 2 \in Nat /\ q \div 2 < (NumPorts + 1) \div 2 /\ (NumPorts + 1) \div 2 \in Nat
    BY <2>1
  <2>3. Parts("link") = (NumPorts + 1) \div 2
    <3>1. NumPorts + 2 - 1 = NumPorts + 1
      BY <2>1
    <3> QED
      BY <1>3, <3>1 DEF Parts
  <2>4. q \div 2 \in 0 .. Parts("link") - 1 /\ q \div 2 + 1 \in 1 .. Parts("link")
    BY <2>2, <2>3
  <2>5. <<"link", 0, q \div 2>> \in Reg
    BY <1>3, <2>4, Names DEF Reg
  <2> QED
    BY <1>3, <2>4, <2>5 DEF FieldsIn, Port
<1>5. \A r \in Reg : FieldsIn[r] \subseteq Field
  BY RegFields
<1> QED
  BY <1>1, <1>2, <1>4, <1>5 DEF StatusFields

\* Who changes a register.
LEMMA Writers ==
    ASSUME [Next]_vars
    PROVE  (\E a \in Actor : WriteReg(a)) \/ (\E g \in Field : Wire(g)) \/ UNCHANGED hw
<1>1. ASSUME NEW a \in Actor, Session(a) PROVE WriteReg(a) \/ UNCHANGED hw
  BY <1>1 DEF Session, StartRtl83xx, StartRrcpCli, Begin, GiveCommand, Access, ReadReg, Take,
              LoseWrite, SkipWrite, Finish, EndInside, Exit, Leave
<1>2. ASSUME NEW a \in Actor, Capture(a) PROVE UNCHANGED hw
  BY <1>2 DEF Capture, StartCapture, Begin, Signal, sharedVars, SetSecondWord, BeginReset,
              ClearCaptured, StopCapturing, Restore, FinishCapture, Exit, Leave
<1>3. ASSUME NEW a \in Actor, CheckRun(a) PROVE UNCHANGED hw
  BY <1>3 DEF CheckRun, StartCheck, Begin, HelloAnswered, HelloFails, UseNewKey,
              CheckAnswered, CheckFails, Conclude, Alarm, ExitCheck, Exit, Leave
<1>4. ASSUME NEW a \in Actor, DetectRun(a) PROVE UNCHANGED hw
  BY <1>4 DEF DetectRun, StartDetection, Begin, CountPorts, ReadId, CompareByte, TestEcho,
              PastEnd, NextPlace, EndsUnread, NextSteps, Decide, sharedVars,
              FinishDetection, Exit, Leave
<1> QED
  BY <1>1, <1>2, <1>3, <1>4 DEF Next, vars, sharedVars

-----------------------------------------------------------------------------
\* What the processes have in hand are such steps, and nobody writes the
\* registers that tell of the switch itself.
Calm ==
    /\ sitting \in Sittings
    /\ \A a \in Actor : todo[a] \in Seq(Steps)
    /\ \A f \in StatusFields : hw[f] \in {0, 1}

LEMMA StepLists ==
    /\ Seq(Accesses) \subseteq Seq(Steps) /\ <<>> \in Seq(Steps)
    /\ \A s, t \in Seq(Steps) : s \o t \in Seq(Steps)
    /\ \A s \in Seq(Steps) : s # <<>> => Head(s) \in Steps /\ Tail(s) \in Seq(Steps)
    /\ \A x \in Steps : <<x>> \in Seq(Steps)
<1>1. \A S, T : S \subseteq T => Seq(S) \subseteq Seq(T)
  OBVIOUS
<1>2. Accesses \subseteq Steps
  BY DEF Steps
<1>3. \A R : \A s, t \in Seq(R) : s \o t \in Seq(R)
  OBVIOUS
<1>4. \A R : \A s \in Seq(R) : s # <<>> => Head(s) \in R /\ Tail(s) \in Seq(R)
  OBVIOUS
<1>5. \A R : <<>> \in Seq(R) /\ \A x \in R : <<x>> \in Seq(R)
  OBVIOUS
<1> QED
  BY <1>1, <1>2, <1>3, <1>4, <1>5

LEMMA TryLists ==
    ASSUME NEW name \in Plain \cup {"loop_status", "loop_ports", "link"}
    PROVE  /\ Try(name) \in Seq(Steps) /\ Len(Try(name)) = Parts(name)
           /\ \A n \in 1 .. Parts(name) : /\ Try(name)[n] = <<"try", <<name, 0, n - 1>>>>
                                          /\ <<name, 0, n - 1>> \in Reg
<1>1. /\ Try(name) \in Seq({"try"} \X {r \in Reg : r[1] = name})
      /\ Len(Try(name)) = Parts(name)
      /\ \A n \in 1 .. Parts(name) : Try(name)[n] = <<"try", <<name, 0, n - 1>>>>
  BY InAll, Names DEF Try
<1>2. {"try"} \X {r \in Reg : r[1] = name} \subseteq Steps
  BY DEF Steps
<1>3. \A S, T : S \subseteq T => Seq(S) \subseteq Seq(T)
  OBVIOUS
<1>4. Try(name) \in Seq(Steps)
  BY <1>1, <1>2, <1>3
<1>5. ASSUME NEW n \in 1 .. Parts(name) PROVE <<name, 0, n - 1>> \in Reg
  <2>1. n - 1 \in 0 .. Parts(name) - 1
    BY PartsNat
  <2> QED
    BY <2>1, Names DEF Reg
<1> QED
  BY <1>1, <1>4, <1>5

LEMMA CheckLists == \A c : CheckOps(c) \in Seq(Steps)
<1>1. Try("rrcp_config") \in Seq(Steps) /\ Try("vlan") \in Seq(Steps) /\ Try("link") \in Seq(Steps)
  BY TryLists DEF Plain
<1> QED
  BY <1>1, StepLists DEF CheckOps

LEMMA CaptureLists == Learning \o CaptureSetup \in Seq(Steps) /\ Restoring \in Seq(Steps)
<1>1. \A name \in {"alt_config", "alt_mask"} : /\ Reads(name) \in Seq(Steps)
                                               /\ Writes(name) \in Seq(Steps)
  BY PlainAccesses, StepLists DEF Plain
<1> DEFINE words == [n \in 1 .. Parts("alt_mask") |->
                        <<IF n = 1 THEN "write" ELSE "writeUnlessBreak", <<"alt_mask", 0, n - 1>>>>]
<1>2. words \in Seq(Steps)
  <2>1. Parts("alt_mask") \in Nat
    BY PartsNat
  <2>2. \A n \in 1 .. Parts("alt_mask") : n - 1 \in 0 .. Parts("alt_mask") - 1
    BY <2>1
  <2>3. \A n \in 1 .. Parts("alt_mask") : <<"alt_mask", 0, n - 1>> \in ConfigRegs
    BY <2>2, Names DEF Reg, ConfigRegs, Plain
  <2>4. \A n \in 1 .. Parts("alt_mask") : words[n] \in Steps
    BY <2>3 DEF Steps, Accesses, Kinds
  <2> QED
    BY <2>1, <2>4
<1> HIDE DEF words
<1>3. CaptureSetup = Writes("alt_config") \o words
  BY DEF CaptureSetup, words
<1> QED
  BY <1>1, <1>2, <1>3, StepLists DEF Learning, Restoring

LEMMA DetectLists ==
    /\ <<<<"phy", 3>>>> \in Seq(Steps) /\ Ids \in Seq(Steps) /\ Echoes \in Seq(Steps)
    /\ \A i \in Nat : Compare(i) \in Seq(Steps)
<1>1. \A n \in Nat : <<"phy", n>> \in Steps /\ <<"id", n>> \in Steps /\ <<"echo", n>> \in Steps
  BY DEF Steps
<1>2. \A i, j \in Nat : <<"compare", i, j>> \in Steps
  BY DEF Steps
<1>3. IdBytes \in Nat
  BY DetectionAssumption
<1> DEFINE S == Steps
<1>4. (\A n \in Nat : <<"id", n>> \in S) /\ (\A n \in Nat : <<"echo", n>> \in S)
      /\ \A i, j \in Nat : <<"compare", i, j>> \in S
  BY <1>1, <1>2
<1> HIDE DEF S
<1>5. Ids \in Seq(S) /\ Echoes \in Seq(S)
  BY <1>3, <1>4 DEF Ids, Echoes
<1>6. \A i \in Nat : Compare(i) \in Seq(S)
  BY <1>3, <1>4 DEF Compare
<1> QED
  BY <1>1, <1>5, <1>6, StepLists DEF S

LEMMA KindsApart ==
    ASSUME NEW x \in Steps
    PROVE  /\ x[1] \in {"read", "write", "writeIfChanged", "writeUnlessBreak"} =>
                  x[2] \in ConfigRegs
           /\ x[1] = "compare" => x[2] \in Nat /\ x[3] \in Nat
<1>1. CASE x \in Accesses
  BY <1>1 DEF Accesses, Kinds
<1>2. CASE x \in {"try"} \X Reg
  BY <1>2
<1>3. CASE x \in {"clear", "phy", "id", "echo"} \X Nat
  BY <1>3
<1>4. CASE x \in {"compare"} \X Nat \X Nat
  BY <1>4
<1> QED
  BY <1>1, <1>2, <1>3, <1>4 DEF Steps

-----------------------------------------------------------------------------
(***************************************************************************)
(* What a list of accesses does                                            *)
(***************************************************************************)
Reading(x) == x[1] = "read"
Storing(x) == x[1] \in {"write", "writeIfChanged", "writeUnlessBreak"}

\* The fields it reads; each field it writes is known, or read before; each
\* field of a set that it reads is written after; it writes a field; it
\* compares only with what it has just read; clearing the VLAN table, it
\* reads the mode before it writes the first number.
ReadIn(s) == UNION {FieldsIn[s[n][2]] : n \in {n \in 1 .. Len(s) : Reading(s[n])}}
Sourced(s, K) ==
    \A n \in 1 .. Len(s) : Storing(s[n]) =>
        \A f \in FieldsIn[s[n][2]] :
            f \in K \/ \E m \in 1 .. n - 1 : Reading(s[m]) /\ f \in FieldsIn[s[m][2]]
Due(s, f) == \E n \in 1 .. Len(s) : Storing(s[n]) /\ f \in FieldsIn[s[n][2]]
Ordered(s, D) ==
    \A n \in 1 .. Len(s) : Reading(s[n]) =>
        \A f \in D \cap FieldsIn[s[n][2]] :
            \E m \in n + 1 .. Len(s) : Storing(s[m]) /\ f \in FieldsIn[s[m][2]]
Fresh(s) == \A n \in 2 .. Len(s) : s[n][1] = "writeIfChanged" => s[n - 1] = <<"read", s[n][2]>>
ClearOrder(s) ==
    \A n \in 1 .. Len(s) : Reading(s[n]) =>
        /\ s[n][2] = <<"vlan", 0, 0>>
        /\ \E m \in n + 1 .. Len(s) : Storing(s[m]) /\ Vid(0) \in FieldsIn[s[m][2]]

LEMMA TailOf ==
    ASSUME NEW S, NEW s \in Seq(S), s # <<>>
    PROVE  /\ Len(s) \in Nat \ {0} /\ Tail(s) \in Seq(S) /\ Len(Tail(s)) = Len(s) - 1
           /\ Head(s) = s[1] /\ \A n \in 1 .. Len(s) - 1 : Tail(s)[n] = s[n + 1]
<1>1. /\ Tail(s) \in Seq(S) /\ Len(Tail(s)) = Len(s) - 1
      /\ \A n \in 1 .. Len(Tail(s)) : Tail(s)[n] = s[n + 1]
  BY HeadTailProperties
<1> QED
  BY <1>1

\* What holds of a list holds of the rest of it.
LEMMA RestSourced ==
    ASSUME NEW S, NEW s \in Seq(S), s # <<>>, NEW K, Sourced(s, K)
    PROVE  /\ Reading(Head(s)) => Sourced(Tail(s), K \cup FieldsIn[Head(s)[2]])
           /\ ~Reading(Head(s)) => Sourced(Tail(s), K)
           /\ Storing(Head(s)) => FieldsIn[Head(s)[2]] \subseteq K
<1> DEFINE t == Tail(s)
           L == IF Reading(Head(s)) THEN K \cup FieldsIn[Head(s)[2]] ELSE K
<1>1. /\ Len(s) \in Nat \ {0} /\ Len(t) = Len(s) - 1
      /\ Head(s) = s[1] /\ \A n \in 1 .. Len(s) - 1 : t[n] = s[n + 1]
  BY TailOf
<1> HIDE DEF t
<1>2. Sourced(t, L)
  <2> SUFFICES ASSUME NEW n \in 1 .. Len(t), Storing(t[n]), NEW f \in FieldsIn[t[n][2]]
               PROVE  f \in L \/ \E m \in 1 .. n - 1 : Reading(t[m]) /\ f \in FieldsIn[t[m][2]]
    BY DEF Sourced
  <2>1. n + 1 \in 1 .. Len(s) /\ n \in 1 .. Len(s) - 1 /\ t[n] = s[n + 1]
    BY <1>1
  <2>2. f \in K \/ \E m \in 1 .. n : Reading(s[m]) /\ f \in FieldsIn[s[m][2]]
    BY <2>1 DEF Sourced
  <2>3. CASE f \in K
    BY <2>3
  <2>4. ASSUME NEW m \in 1 .. n, Reading(s[m]), f \in FieldsIn[s[m][2]]
        PROVE  f \in L \/ \E k \in 1 .. n - 1 : Reading(t[k]) /\ f \in FieldsIn[t[k][2]]
    <3>1. CASE m = 1
      BY <1>1, <2>4, <3>1
    <3>2. CASE m # 1
      <4>1. m - 1 \in 1 .. n - 1 /\ m - 1 \in 1 .. Len(s) - 1 /\ m - 1 + 1 = m
        BY <2>1, <3>2
      <4>2. t[m - 1] = s[m]
        BY <1>1, <4>1
      <4> QED
        BY <2>4, <4>1, <4>2
    <3> QED
      BY <3>1, <3>2
  <2> QED
    BY <2>2, <2>3, <2>4
<1>3. Storing(Head(s)) => FieldsIn[Head(s)[2]] \subseteq K
  <2>1. 1 \in 1 .. Len(s) /\ 1 .. 1 - 1 = {}
    BY <1>1
  <2> QED
    BY <1>1, <2>1 DEF Sourced
<1> QED
  BY <1>2, <1>3 DEF t

LEMMA RestRead ==
    ASSUME NEW S, NEW s \in Seq(S), s # <<>>
    PROVE  /\ Reading(Head(s)) => ReadIn(s) = FieldsIn[Head(s)[2]] \cup ReadIn(Tail(s))
           /\ ~Reading(Head(s)) => ReadIn(s) = ReadIn(Tail(s))
<1> DEFINE t == Tail(s)
<1>1. /\ Len(s) \in Nat \ {0} /\ Len(t) = Len(s) - 1
      /\ Head(s) = s[1] /\ \A n \in 1 .. Len(s) - 1 : t[n] = s[n + 1]
  BY TailOf
<1> HIDE DEF t
<1>2. \A f : f \in ReadIn(s) <=> \E n \in 1 .. Len(s) : Reading(s[n]) /\ f \in FieldsIn[s[n][2]]
  BY DEF ReadIn
<1>3. \A f : f \in ReadIn(t) <=> \E n \in 1 .. Len(t) : Reading(t[n]) /\ f \in FieldsIn[t[n][2]]
  BY DEF ReadIn
<1>4. ASSUME NEW f, f \in ReadIn(t) PROVE f \in ReadIn(s)
  <2>1. PICK n \in 1 .. Len(t) : Reading(t[n]) /\ f \in FieldsIn[t[n][2]]
    BY <1>3, <1>4
  <2>2. n + 1 \in 1 .. Len(s) /\ t[n] = s[n + 1]
    BY <1>1
  <2> QED
    BY <1>2, <2>1, <2>2
<1>5. ASSUME NEW f, f \in ReadIn(s)
      PROVE  f \in ReadIn(t) \/ (Reading(Head(s)) /\ f \in FieldsIn[Head(s)[2]])
  <2>1. PICK n \in 1 .. Len(s) : Reading(s[n]) /\ f \in FieldsIn[s[n][2]]
    BY <1>2, <1>5
  <2>2. CASE n # 1
    <3>1. n - 1 \in 1 .. Len(t) /\ n - 1 \in 1 .. Len(s) - 1 /\ n - 1 + 1 = n
      BY <1>1, <2>2
    <3>2. t[n - 1] = s[n]
      BY <1>1, <3>1
    <3> QED
      BY <1>3, <2>1, <3>1, <3>2
  <2> QED
    BY <1>1, <2>1, <2>2
<1>6. Reading(Head(s)) => FieldsIn[Head(s)[2]] \subseteq ReadIn(s)
  BY <1>1, <1>2
<1> QED
  BY <1>4, <1>5, <1>6 DEF t

LEMMA RestDue ==
    ASSUME NEW S, NEW s \in Seq(S), s # <<>>, NEW f, Due(s, f)
    PROVE  Due(Tail(s), f) \/ (Storing(Head(s)) /\ f \in FieldsIn[Head(s)[2]])
<1> DEFINE t == Tail(s)
<1>1. /\ Len(s) \in Nat \ {0} /\ Len(t) = Len(s) - 1
      /\ Head(s) = s[1] /\ \A n \in 1 .. Len(s) - 1 : t[n] = s[n + 1]
  BY TailOf
<1> HIDE DEF t
<1>2. PICK n \in 1 .. Len(s) : Storing(s[n]) /\ f \in FieldsIn[s[n][2]]
  BY DEF Due
<1>3. CASE n # 1
  <2>1. n - 1 \in 1 .. Len(t) /\ n - 1 \in 1 .. Len(s) - 1 /\ n - 1 + 1 = n
    BY <1>1, <1>3
  <2>2. t[n - 1] = s[n]
    BY <1>1, <2>1
  <2> QED
    BY <1>2, <2>1, <2>2 DEF Due, t
<1> QED
  BY <1>1, <1>2, <1>3

LEMMA RestOrdered ==
    ASSUME NEW S, NEW s \in Seq(S), s # <<>>, NEW D, Ordered(s, D)
    PROVE  /\ Ordered(Tail(s), D)
           /\ Reading(Head(s)) => \A f \in D \cap FieldsIn[Head(s)[2]] : Due(Tail(s), f)
<1> DEFINE t == Tail(s)
<1>1. /\ Len(s) \in Nat \ {0} /\ Len(t) = Len(s) - 1
      /\ Head(s) = s[1] /\ \A n \in 1 .. Len(s) - 1 : t[n] = s[n + 1]
  BY TailOf
<1> HIDE DEF t
<1>2. ASSUME NEW n \in 1 .. Len(s), Reading(s[n]), NEW f \in D \cap FieldsIn[s[n][2]]
      PROVE  \E m \in n .. Len(t) : Storing(t[m]) /\ f \in FieldsIn[t[m][2]]
  <2>1. PICK m \in n + 1 .. Len(s) : Storing(s[m]) /\ f \in FieldsIn[s[m][2]]
    BY <1>2 DEF Ordered
  <2>2. m - 1 \in n .. Len(t) /\ m - 1 \in 1 .. Len(s) - 1 /\ m - 1 + 1 = m
    BY <1>1, <2>1
  <2>3. t[m - 1] = s[m]
    BY <1>1, <2>2
  <2> QED
    BY <2>1, <2>2, <2>3
<1>3. Ordered(t, D)
  <2> SUFFICES ASSUME NEW n \in 1 .. Len(t), Reading(t[n]), NEW f \in D \cap FieldsIn[t[n][2]]
               PROVE  \E m \in n + 1 .. Len(t) : Storing(t[m]) /\ f \in FieldsIn[t[m][2]]
    BY DEF Ordered
  <2>1. n + 1 \in 1 .. Len(s) /\ t[n] = s[n + 1]
    BY <1>1
  <2> QED
    BY <1>2, <2>1
<1>4. Reading(Head(s)) => \A f \in D \cap FieldsIn[Head(s)[2]] : Due(t, f)
  BY <1>1, <1>2 DEF Due
<1> QED
  BY <1>3, <1>4 DEF t

LEMMA RestFresh ==
    ASSUME NEW S, NEW s \in Seq(S), s # <<>>, Fresh(s)
    PROVE  /\ Fresh(Tail(s))
           /\ Tail(s) # <<>> /\ Head(Tail(s))[1] = "writeIfChanged" =>
                 Head(s) = <<"read", Head(Tail(s))[2]>>
<1> DEFINE t == Tail(s)
<1>1. /\ Len(s) \in Nat \ {0} /\ Len(t) = Len(s) - 1 /\ t \in Seq(S)
      /\ Head(s) = s[1] /\ \A n \in 1 .. Len(s) - 1 : t[n] = s[n + 1]
  BY TailOf
<1> HIDE DEF t
<1>2. Fresh(t)
  <2> SUFFICES ASSUME NEW n \in 2 .. Len(t), t[n][1] = "writeIfChanged"
               PROVE  t[n - 1] = <<"read", t[n][2]>>
    BY DEF Fresh
  <2>1. n + 1 \in 2 .. Len(s) /\ t[n] = s[n + 1] /\ n + 1 - 1 = n
    BY <1>1
  <2>2. n - 1 \in 1 .. Len(s) - 1 /\ n - 1 + 1 = n
    BY <1>1
  <2>3. t[n - 1] = s[n]
    BY <1>1, <2>2
  <2> QED
    BY <2>1, <2>3 DEF Fresh
<1>3. t # <<>> /\ Head(t)[1] = "writeIfChanged" => Head(s) = <<"read", Head(t)[2]>>
  <2>1. t # <<>> => Head(t) = t[1] /\ Len(t) \in Nat \ {0}
    BY <1>1, TailOf
  <2>2. t # <<>> => t[1] = s[2] /\ 2 \in 2 .. Len(s) /\ 2 - 1 = 1
    BY <1>1, <2>1
  <2> QED
    BY <1>1, <2>1, <2>2 DEF Fresh
<1> QED
  BY <1>2, <1>3 DEF t

LEMMA RestClears ==
    ASSUME NEW S, NEW s \in Seq(S), s # <<>>, ClearOrder(s)
    PROVE  /\ ClearOrder(Tail(s))
           /\ Reading(Head(s)) => Head(s)[2] = <<"vlan", 0, 0>> /\ Due(Tail(s), Vid(0))
<1> DEFINE t == Tail(s)
<1>1. /\ Len(s) \in Nat \ {0} /\ Len(t) = Len(s) - 1
      /\ Head(s) = s[1] /\ \A n \in 1 .. Len(s) - 1 : t[n] = s[n + 1]
  BY TailOf
<1> HIDE DEF t
<1>2. ASSUME NEW n \in 1 .. Len(s), Reading(s[n])
      PROVE  /\ s[n][2] = <<"vlan", 0, 0>>
             /\ \E m \in n .. Len(t) : Storing(t[m]) /\ Vid(0) \in FieldsIn[t[m][2]]
  <2>1. s[n][2] = <<"vlan", 0, 0>>
    BY <1>2 DEF ClearOrder
  <2>2. PICK m \in n + 1 .. Len(s) : Storing(s[m]) /\ Vid(0) \in FieldsIn[s[m][2]]
    BY <1>2 DEF ClearOrder
  <2>3. m - 1 \in n .. Len(t) /\ m - 1 \in 1 .. Len(s) - 1 /\ m - 1 + 1 = m
    BY <1>1, <2>2
  <2>4. t[m - 1] = s[m]
    BY <1>1, <2>3
  <2> QED
    BY <2>1, <2>2, <2>3, <2>4
<1>3. ClearOrder(t)
  <2> SUFFICES ASSUME NEW n \in 1 .. Len(t), Reading(t[n])
               PROVE  /\ t[n][2] = <<"vlan", 0, 0>>
                      /\ \E m \in n + 1 .. Len(t) : Storing(t[m]) /\ Vid(0) \in FieldsIn[t[m][2]]
    BY DEF ClearOrder
  <2>1. n + 1 \in 1 .. Len(s) /\ t[n] = s[n + 1]
    BY <1>1
  <2> QED
    BY <1>2, <2>1
<1>4. Reading(Head(s)) => Head(s)[2] = <<"vlan", 0, 0>> /\ Due(t, Vid(0))
  BY <1>1, <1>2 DEF Due
<1> QED
  BY <1>3, <1>4 DEF t

StoredIn(s) == UNION {FieldsIn[s[n][2]] : n \in {n \in 1 .. Len(s) : Storing(s[n])}}

LEMMA InLists ==
    ASSUME NEW s
    PROVE  /\ \A f : f \in StoredIn(s) <=> Due(s, f)
           /\ \A f : f \in ReadIn(s) <=> \E n \in 1 .. Len(s) : Reading(s[n]) /\ f \in FieldsIn[s[n][2]]
BY DEF StoredIn, ReadIn, Due

\* One list after the other.
LEMMA JoinOf ==
    ASSUME NEW S, NEW s \in Seq(S), NEW t \in Seq(S)
    PROVE  /\ s \o t \in Seq(S) /\ Len(s \o t) = Len(s) + Len(t) /\ Len(s) \in Nat /\ Len(t) \in Nat
           /\ \A n \in 1 .. Len(s) : n \in 1 .. Len(s \o t) /\ (s \o t)[n] = s[n]
           /\ \A n \in 1 .. Len(t) : n + Len(s) \in 1 .. Len(s \o t) /\ (s \o t)[n + Len(s)] = t[n]
           /\ \A n \in 1 .. Len(s \o t) :
                 n \notin 1 .. Len(s) => n - Len(s) \in 1 .. Len(t) /\ (s \o t)[n] = t[n - Len(s)]
<1>1. Len(s) \in Nat /\ Len(t) \in Nat
  OBVIOUS
<1>2. s \o t \in Seq(S) /\ Len(s \o t) = Len(s) + Len(t)
  OBVIOUS
<1>3. \A n \in 1 .. Len(s) + Len(t) :
         (s \o t)[n] = IF n <= Len(s) THEN s[n] ELSE t[n - Len(s)]
  BY ConcatProperties
<1> DEFINE u == s \o t
           a == Len(s)
           b == Len(t)
<1>4. /\ a \in Nat /\ b \in Nat /\ Len(u) = a + b
      /\ \A n \in 1 .. a + b : u[n] = IF n <= a THEN s[n] ELSE t[n - a]
  BY <1>1, <1>2, <1>3
<1> HIDE DEF u, a, b
<1>5. \A n \in 1 .. a : n \in 1 .. Len(u) /\ u[n] = s[n]
  BY <1>4
<1>6. \A n \in 1 .. b : n + a \in 1 .. Len(u) /\ u[n + a] = t[n]
  <2> SUFFICES ASSUME NEW n \in 1 .. b PROVE n + a \in 1 .. Len(u) /\ u[n + a] = t[n]
    OBVIOUS
  <2>1. n + a \in 1 .. a + b /\ ~(n + a <= a) /\ n + a - a = n
    BY <1>4
  <2> QED
    BY <1>4, <2>1
<1>7. \A n \in 1 .. Len(u) : n \notin 1 .. a => n - a \in 1 .. b /\ u[n] = t[n - a]
  <2> SUFFICES ASSUME NEW n \in 1 .. Len(u), n \notin 1 .. a PROVE n - a \in 1 .. b /\ u[n] = t[n - a]
    OBVIOUS
  <2>1. n \in 1 .. a + b /\ ~(n <= a) /\ n - a \in 1 .. b
    BY <1>4
  <2> QED
    BY <1>4, <2>1
<1> QED
  BY <1>1, <1>2, <1>5, <1>6, <1>7 DEF u, a, b

LEMMA JoinFields ==
    ASSUME NEW S, NEW s \in Seq(S), NEW t \in Seq(S)
    PROVE  /\ ReadIn(s \o t) = ReadIn(s) \cup ReadIn(t)
           /\ StoredIn(s \o t) = StoredIn(s) \cup StoredIn(t)
           /\ ToSet(s \o t) = ToSet(s) \cup ToSet(t)
<1> DEFINE u == s \o t
<1>1. /\ \A n \in 1 .. Len(s) : n \in 1 .. Len(u) /\ u[n] = s[n]
      /\ \A n \in 1 .. Len(t) : n + Len(s) \in 1 .. Len(u) /\ u[n + Len(s)] = t[n]
      /\ \A n \in 1 .. Len(u) :
            n \notin 1 .. Len(s) => n - Len(s) \in 1 .. Len(t) /\ u[n] = t[n - Len(s)]
      /\ u \in Seq(S)
  BY JoinOf
<1> HIDE DEF u
<1>2. ReadIn(u) = ReadIn(s) \cup ReadIn(t)
  <2>1. \A f : f \in ReadIn(s) => f \in ReadIn(u)
    BY <1>1, InLists
  <2>2. \A f : f \in ReadIn(t) => f \in ReadIn(u)
    BY <1>1, InLists
  <2>3. ASSUME NEW f, f \in ReadIn(u) PROVE f \in ReadIn(s) \/ f \in ReadIn(t)
    <3>1. PICK n \in 1 .. Len(u) : Reading(u[n]) /\ f \in FieldsIn[u[n][2]]
      BY <2>3, InLists DEF Due
    <3>2. CASE n \in 1 .. Len(s)
      <4>1. u[n] = s[n]
        BY <1>1, <3>2
      <4> QED
        BY <3>1, <3>2, <4>1, InLists DEF Due
    <3>3. CASE n \notin 1 .. Len(s)
      <4>1. n - Len(s) \in 1 .. Len(t) /\ u[n] = t[n - Len(s)]
        BY <1>1, <3>3
      <4> QED
        BY <3>1, <4>1, InLists DEF Due
    <3> QED
      BY <3>2, <3>3
  <2> QED
    BY <2>1, <2>2, <2>3
<1>3. StoredIn(u) = StoredIn(s) \cup StoredIn(t)
  <2>1. \A f : f \in StoredIn(s) => f \in StoredIn(u)
    BY <1>1, InLists DEF Due
  <2>2. \A f : f \in StoredIn(t) => f \in StoredIn(u)
    BY <1>1, InLists DEF Due
  <2>3. ASSUME NEW f, f \in StoredIn(u) PROVE f \in StoredIn(s) \/ f \in StoredIn(t)
    <3>1. PICK n \in 1 .. Len(u) : Storing(u[n]) /\ f \in FieldsIn[u[n][2]]
      BY <2>3, InLists DEF Due
    <3>2. CASE n \in 1 .. Len(s)
      <4>1. u[n] = s[n]
        BY <1>1, <3>2
      <4> QED
        BY <3>1, <3>2, <4>1, InLists DEF Due
    <3>3. CASE n \notin 1 .. Len(s)
      <4>1. n - Len(s) \in 1 .. Len(t) /\ u[n] = t[n - Len(s)]
        BY <1>1, <3>3
      <4> QED
        BY <3>1, <4>1, InLists DEF Due
    <3> QED
      BY <3>2, <3>3
  <2> QED
    BY <2>1, <2>2, <2>3
<1>4. ToSet(u) = ToSet(s) \cup ToSet(t)
  <2>1. DOMAIN u = 1 .. Len(u) /\ DOMAIN s = 1 .. Len(s) /\ DOMAIN t = 1 .. Len(t)
    BY <1>1
  <2>2. \A x : x \in ToSet(u) <=> \E n \in 1 .. Len(u) : x = u[n]
    BY <2>1 DEF ToSet
  <2>3. \A x : x \in ToSet(s) <=> \E n \in 1 .. Len(s) : x = s[n]
    BY <2>1 DEF ToSet
  <2>4. \A x : x \in ToSet(t) <=> \E n \in 1 .. Len(t) : x = t[n]
    BY <2>1 DEF ToSet
  <2>5. ASSUME NEW x, x \in ToSet(u) PROVE x \in ToSet(s) \cup ToSet(t)
    <3>1. PICK n \in 1 .. Len(u) : x = u[n]
      BY <2>2, <2>5
    <3>2. n \in 1 .. Len(s) => x \in ToSet(s)
      BY <1>1, <2>3, <3>1
    <3>3. n \notin 1 .. Len(s) => n - Len(s) \in 1 .. Len(t) /\ x = t[n - Len(s)]
      BY <1>1, <3>1
    <3>4. n \notin 1 .. Len(s) => x \in ToSet(t)
      BY <2>4, <3>3
    <3> QED
      BY <3>2, <3>4
  <2>6. ASSUME NEW x, x \in ToSet(s) \cup ToSet(t) PROVE x \in ToSet(u)
    <3>1. CASE x \in ToSet(s)
      <4>1. PICK n \in 1 .. Len(s) : x = s[n]
        BY <2>3, <3>1
      <4>2. n \in 1 .. Len(u) /\ u[n] = s[n]
        BY <1>1
      <4> QED
        BY <2>2, <4>1, <4>2
    <3>2. CASE x \in ToSet(t)
      <4>1. PICK n \in 1 .. Len(t) : x = t[n]
        BY <2>4, <3>2
      <4>2. n + Len(s) \in 1 .. Len(u) /\ u[n + Len(s)] = t[n]
        BY <1>1
      <4> QED
        BY <2>2, <4>1, <4>2
    <3> QED
      BY <2>6, <3>1, <3>2
  <2> QED
    BY <2>5, <2>6
<1> QED
  BY <1>2, <1>3, <1>4 DEF u

LEMMA JoinSourced ==
    ASSUME NEW S, NEW s \in Seq(S), NEW t \in Seq(S), NEW K,
           Sourced(s, K), Sourced(t, K \cup ReadIn(s))
    PROVE  Sourced(s \o t, K)
<1> DEFINE u == s \o t
<1>1. /\ \A n \in 1 .. Len(s) : n \in 1 .. Len(u) /\ u[n] = s[n]
      /\ \A n \in 1 .. Len(t) : n + Len(s) \in 1 .. Len(u) /\ u[n + Len(s)] = t[n]
      /\ \A n \in 1 .. Len(u) :
            n \notin 1 .. Len(s) => n - Len(s) \in 1 .. Len(t) /\ u[n] = t[n - Len(s)]
      /\ Len(s) \in Nat /\ Len(t) \in Nat
  BY JoinOf
<1> HIDE DEF u
<1> SUFFICES ASSUME NEW n \in 1 .. Len(u), Storing(u[n]), NEW f \in FieldsIn[u[n][2]]
             PROVE  f \in K \/ \E m \in 1 .. n - 1 : Reading(u[m]) /\ f \in FieldsIn[u[m][2]]
  BY DEF Sourced, u
<1>2. CASE n \in 1 .. Len(s)
  <2>1. \A m \in 1 .. n - 1 : m \in 1 .. Len(s)
    BY <1>1, <1>2
  <2>2. f \in K \/ \E m \in 1 .. n - 1 : Reading(s[m]) /\ f \in FieldsIn[s[m][2]]
    BY <1>1, <1>2 DEF Sourced
  <2> QED
    BY <1>1, <2>1, <2>2
<1>3. CASE n \notin 1 .. Len(s)
  <2> DEFINE k == n - Len(s)
  <2>1. k \in 1 .. Len(t) /\ u[n] = t[k]
    BY <1>1, <1>3
  <2>2. \/ f \in K \cup ReadIn(s)
        \/ \E m \in 1 .. k - 1 : Reading(t[m]) /\ f \in FieldsIn[t[m][2]]
    BY <2>1 DEF Sourced
  <2>3. ASSUME f \in ReadIn(s)
        PROVE  \E m \in 1 .. n - 1 : Reading(u[m]) /\ f \in FieldsIn[u[m][2]]
    <3>1. PICK m \in 1 .. Len(s) : Reading(s[m]) /\ f \in FieldsIn[s[m][2]]
      BY <2>3, InLists
    <3>2. m \in 1 .. n - 1
      BY <1>1, <1>3
    <3> QED
      BY <1>1, <3>1, <3>2
  <2>4. ASSUME NEW m \in 1 .. k - 1, Reading(t[m]), f \in FieldsIn[t[m][2]]
        PROVE  \E j \in 1 .. n - 1 : Reading(u[j]) /\ f \in FieldsIn[u[j][2]]
    <3>1. m \in 1 .. Len(t) /\ m + Len(s) \in 1 .. n - 1
      BY <1>1, <2>1
    <3> QED
      BY <1>1, <2>4, <3>1
  <2> QED
    BY <2>2, <2>3, <2>4
<1> QED
  BY <1>2, <1>3

LEMMA JoinOrdered ==
    ASSUME NEW S, NEW s \in Seq(S), NEW t \in Seq(S), NEW D,
           Ordered(t, D),
           \A n \in 1 .. Len(s) : Reading(s[n]) =>
               \A f \in D \cap FieldsIn[s[n][2]] :
                  \/ Due(t, f)
                  \/ \E m \in n + 1 .. Len(s) : Storing(s[m]) /\ f \in FieldsIn[s[m][2]]
    PROVE  Ordered(s \o t, D)
<1> DEFINE u == s \o t
<1>1. /\ \A n \in 1 .. Len(s) : n \in 1 .. Len(u) /\ u[n] = s[n]
      /\ \A n \in 1 .. Len(t) : n + Len(s) \in 1 .. Len(u) /\ u[n + Len(s)] = t[n]
      /\ \A n \in 1 .. Len(u) :
            n \notin 1 .. Len(s) => n - Len(s) \in 1 .. Len(t) /\ u[n] = t[n - Len(s)]
      /\ Len(s) \in Nat /\ Len(t) \in Nat /\ Len(u) = Len(s) + Len(t)
  BY JoinOf
<1> HIDE DEF u
<1> SUFFICES ASSUME NEW n \in 1 .. Len(u), Reading(u[n]), NEW f \in D \cap FieldsIn[u[n][2]]
             PROVE  \E m \in n + 1 .. Len(u) : Storing(u[m]) /\ f \in FieldsIn[u[m][2]]
  BY DEF Ordered, u
<1>2. CASE n \in 1 .. Len(s)
  <2>1. Reading(s[n]) /\ f \in D \cap FieldsIn[s[n][2]]
    BY <1>1, <1>2
  <2>2. CASE Due(t, f)
    <3>1. PICK m \in 1 .. Len(t) : Storing(t[m]) /\ f \in FieldsIn[t[m][2]]
      BY <2>2 DEF Due
    <3>2. m + Len(s) \in n + 1 .. Len(u)
      BY <1>1, <1>2
    <3> QED
      BY <1>1, <3>1, <3>2
  <2>3. ASSUME NEW m \in n + 1 .. Len(s), Storing(s[m]), f \in FieldsIn[s[m][2]]
        PROVE  \E j \in n + 1 .. Len(u) : Storing(u[j]) /\ f \in FieldsIn[u[j][2]]
    <3>1. m \in 1 .. Len(s) /\ m \in n + 1 .. Len(u)
      BY <1>1, <1>2
    <3> QED
      BY <1>1, <2>3, <3>1
  <2> QED
    BY <1>2, <2>1, <2>2, <2>3
<1>3. CASE n \notin 1 .. Len(s)
  <2> DEFINE k == n - Len(s)
  <2>1. k \in 1 .. Len(t) /\ u[n] = t[k]
    BY <1>1, <1>3
  <2>2. PICK m \in k + 1 .. Len(t) : Storing(t[m]) /\ f \in FieldsIn[t[m][2]]
    BY <2>1 DEF Ordered
  <2>3. m \in 1 .. Len(t) /\ m + Len(s) \in n + 1 .. Len(u)
    BY <1>1, <2>1
  <2> QED
    BY <1>1, <2>2, <2>3
<1> QED
  BY <1>2, <1>3

LEMMA NeverCompares ==
    ASSUME NEW R, NEW s \in Seq({"read", "write"} \X R)
    PROVE  Fresh(s) /\ \A n \in 1 .. Len(s) : s[n][1] # "writeIfChanged"
BY DEF Fresh

LEMMA OnlyReads ==
    ASSUME NEW R, NEW s \in Seq({"read"} \X R)
    PROVE  /\ \A K : Sourced(s, K)
           /\ StoredIn(s) = {}
           /\ ReadIn(s) = UNION {FieldsIn[x[2]] : x \in ToSet(s)}
<1>1. \A n \in 1 .. Len(s) : Reading(s[n]) /\ ~Storing(s[n])
  BY DEF Reading, Storing
<1>2. \A x : x \in ToSet(s) <=> \E n \in 1 .. Len(s) : x = s[n]
  <2>1. DOMAIN s = 1 .. Len(s)
    OBVIOUS
  <2> QED
    BY <2>1 DEF ToSet
<1>3. ReadIn(s) = UNION {FieldsIn[x[2]] : x \in ToSet(s)}
  <2>1. \A f : f \in ReadIn(s) <=> \E n \in 1 .. Len(s) : f \in FieldsIn[s[n][2]]
    BY <1>1, InLists
  <2>2. \A f : f \in UNION {FieldsIn[x[2]] : x \in ToSet(s)} <=>
                  \E x \in ToSet(s) : f \in FieldsIn[x[2]]
    OBVIOUS
  <2>3. \A f : (\E x \in ToSet(s) : f \in FieldsIn[x[2]])
                  <=> \E n \in 1 .. Len(s) : f \in FieldsIn[s[n][2]]
    BY <1>2
  <2> QED
    BY <2>1, <2>2, <2>3
<1> QED
  BY <1>1, <1>3 DEF Sourced, StoredIn

LEMMA OnlyWritesList ==
    ASSUME NEW R, NEW s \in Seq({"write"} \X R)
    PROVE  /\ \A D : Ordered(s, D)
           /\ \A K : StoredIn(s) \subseteq K => Sourced(s, K)
           /\ ReadIn(s) = {}
           /\ StoredIn(s) = UNION {FieldsIn[x[2]] : x \in ToSet(s)}
<1>1. \A n \in 1 .. Len(s) : ~Reading(s[n]) /\ Storing(s[n])
  BY DEF Reading, Storing
<1>2. \A x : x \in ToSet(s) <=> \E n \in 1 .. Len(s) : x = s[n]
  <2>1. DOMAIN s = 1 .. Len(s)
    OBVIOUS
  <2> QED
    BY <2>1 DEF ToSet
<1>3. StoredIn(s) = UNION {FieldsIn[x[2]] : x \in ToSet(s)}
  <2>1. \A f : f \in StoredIn(s) <=> \E n \in 1 .. Len(s) : f \in FieldsIn[s[n][2]]
    BY <1>1, InLists DEF Due
  <2>2. \A f : f \in UNION {FieldsIn[x[2]] : x \in ToSet(s)} <=>
                  \E x \in ToSet(s) : f \in FieldsIn[x[2]]
    OBVIOUS
  <2>3. \A f : (\E x \in ToSet(s) : f \in FieldsIn[x[2]])
                  <=> \E n \in 1 .. Len(s) : f \in FieldsIn[s[n][2]]
    BY <1>2
  <2> QED
    BY <2>1, <2>2, <2>3
<1>4. \A K : StoredIn(s) \subseteq K => Sourced(s, K)
  <2>1. \A n \in 1 .. Len(s) : \A f \in FieldsIn[s[n][2]] : f \in StoredIn(s)
    BY <1>1, InLists DEF Due
  <2> QED
    BY <2>1 DEF Sourced
<1> QED
  BY <1>1, <1>3, <1>4 DEF Ordered, ReadIn

\* What a command does in order, if it sets the fields of D and knows those
\* of K.
InOrder(ops, D, K) ==
    Sourced(ops, D \cup K) /\ Ordered(ops, D) /\ Fresh(ops) /\ D \subseteq StoredIn(ops)

\* It reads, and then it writes what it has read and what it sets.
LEMMA ReadThenWrite ==
    ASSUME NEW R, NEW r \in Seq({"read"} \X R), NEW w \in Seq({"write"} \X R), NEW D, NEW K,
           D \subseteq StoredIn(w), StoredIn(w) \subseteq D \cup K \cup ReadIn(r)
    PROVE  InOrder(r \o w, D, K)
<1> DEFINE A == {"read", "write"} \X R
<1>1. r \in Seq(A) /\ w \in Seq(A)
  <2>1. \A S, T : S \subseteq T => Seq(S) \subseteq Seq(T)
    OBVIOUS
  <2>2. {"read"} \X R \subseteq A /\ {"write"} \X R \subseteq A
    OBVIOUS
  <2> HIDE DEF A
  <2> QED
    BY <2>1, <2>2
<1> HIDE DEF A
<1>2. Sourced(r \o w, D \cup K)
  <2>1. Sourced(r, D \cup K)
    BY OnlyReads
  <2>2. Sourced(w, (D \cup K) \cup ReadIn(r))
    BY OnlyWritesList
  <2> QED
    BY <1>1, <2>1, <2>2, JoinSourced
<1>3. Ordered(r \o w, D)
  <2>1. Ordered(w, D)
    BY OnlyWritesList
  <2>2. \A f \in D : Due(w, f)
    BY InLists
  <2> QED
    BY <1>1, <2>1, <2>2, JoinOrdered
<1>4. Fresh(r \o w)
  <2>1. r \o w \in Seq(A)
    BY <1>1, JoinOf
  <2> QED
    BY <2>1, NeverCompares DEF A
<1>5. D \subseteq StoredIn(r \o w)
  BY <1>1, JoinFields
<1> QED
  BY <1>2, <1>3, <1>4, <1>5 DEF InOrder

LEMMA FlattenPrefixes ==
    ASSUME NEW S, NEW seqs \in Seq(Seq(S)), seqs # <<>>
    PROVE  \E g : /\ g[Len(seqs)] = FlattenSeq(seqs)
                  /\ \A i \in 1 .. Len(seqs) : g[i] = IF i = 1 THEN seqs[i] ELSE g[i - 1] \o seqs[i]
<1> DEFINE n == Len(seqs)
           flatten == CHOOSE f : f = [i \in 1 .. n |-> IF i = 1 THEN seqs[i] ELSE f[i - 1] \o seqs[i]]
<1>1. n \in 1 .. n /\ n \in Nat /\ n # 0
  OBVIOUS
<1>2. FlattenSeq(seqs) = flatten[n]
  BY <1>1 DEF FlattenSeq
<1>3. flatten = [i \in 1 .. n |-> IF i = 1 THEN seqs[i] ELSE flatten[i - 1] \o seqs[i]]
  BY <1>1, FlattenRuns
<1> HIDE DEF flatten
<1>4. \A i \in 1 .. n : flatten[i] = IF i = 1 THEN seqs[i] ELSE flatten[i - 1] \o seqs[i]
  BY <1>3
<1> QED
  BY <1>2, <1>4

\* What holds of the empty list, of each of the lists, and of two of them
\* joined, holds of them all joined.
LEMMA FlattenIn ==
    ASSUME NEW S, NEW T \in SUBSET Seq(S), <<>> \in T, \A s, t \in T : s \o t \in T,
           NEW seqs \in Seq(T)
    PROVE  FlattenSeq(seqs) \in T
<1>1. seqs \in Seq(Seq(S)) /\ Len(seqs) \in Nat /\ \A i \in 1 .. Len(seqs) : seqs[i] \in T
  <2>1. \A R, Q : R \subseteq Q => Seq(R) \subseteq Seq(Q)
    OBVIOUS
  <2>2. Seq(T) \subseteq Seq(Seq(S))
    BY <2>1
  <2> QED
    BY <2>2
<1>2. CASE seqs = <<>>
  <2>1. Len(seqs) = 0
    BY <1>2
  <2> QED
    BY <1>2, <2>1 DEF FlattenSeq
<1>3. CASE seqs # <<>>
  <2> DEFINE n == Len(seqs)
  <2>1. PICK g : /\ g[n] = FlattenSeq(seqs)
                 /\ \A i \in 1 .. n : g[i] = IF i = 1 THEN seqs[i] ELSE g[i - 1] \o seqs[i]
    BY <1>1, <1>3, FlattenPrefixes
  <2>2. n \in 1 .. n /\ n \in Nat
    BY <1>1, <1>3
  <2> DEFINE Out == {i \in 1 .. n : g[i] \notin T}
  <2>3. Out = {}
    <3>1. SUFFICES ASSUME Out # {} PROVE FALSE
      OBVIOUS
    <3>2. PICK m \in Out : \A j \in Out : m <= j
      <4>1. Out \in SUBSET Nat
        BY <2>2
      <4> HIDE DEF Out
      <4> QED
        BY <3>1, <4>1, Least
    <3>3. m # 1
      BY <1>1, <2>1
    <3>4. m - 1 \in 1 .. n /\ ~ (m <= m - 1)
      BY <2>2, <3>3
    <3>5. g[m - 1] \in T
      BY <3>2, <3>4
    <3>6. g[m] = g[m - 1] \o seqs[m] /\ seqs[m] \in T
      BY <1>1, <2>1, <3>3
    <3> QED
      BY <3>5, <3>6
  <2> QED
    BY <2>1, <2>2, <2>3
<1> QED
  BY <1>2, <1>3

\* They read and write what one of them does.
LEMMA FlattenFields ==
    ASSUME NEW S, NEW seqs \in Seq(Seq(S))
    PROVE  /\ ReadIn(FlattenSeq(seqs)) = UNION {ReadIn(seqs[k]) : k \in 1 .. Len(seqs)}
           /\ StoredIn(FlattenSeq(seqs)) = UNION {StoredIn(seqs[k]) : k \in 1 .. Len(seqs)}
<1> DEFINE n == Len(seqs)
           R == UNION {ReadIn(seqs[k]) : k \in 1 .. n}
           W == UNION {StoredIn(seqs[k]) : k \in 1 .. n}
           T == {s \in Seq(S) : ReadIn(s) \subseteq R /\ StoredIn(s) \subseteq W}
<1>0. n \in Nat /\ \A i \in 1 .. n : seqs[i] \in Seq(S)
  OBVIOUS
<1>1. FlattenSeq(seqs) \in T
  <2>1. <<>> \in T
    <3>1. <<>> \in Seq(S) /\ Len(<<>>) = 0
      OBVIOUS
    <3> QED
      BY <3>1 DEF ReadIn, StoredIn
  <2>2. \A s, t \in T : s \o t \in T
    <3> HIDE DEF R, W
    <3> QED
      BY JoinFields, JoinOf
  <2>3. seqs \in Seq(T)
    <3>1. \A i \in 1 .. n : seqs[i] \in T
      BY <1>0
    <3>2. seqs = [i \in 1 .. n |-> seqs[i]]
      OBVIOUS
    <3> HIDE DEF T
    <3> QED
      BY <1>0, <3>1, <3>2
  <2>4. T \in SUBSET Seq(S)
    OBVIOUS
  <2> HIDE DEF T
  <2> QED
    BY <2>1, <2>2, <2>3, <2>4, FlattenIn
<1>2. ASSUME NEW k \in 1 .. n
      PROVE  ReadIn(seqs[k]) \subseteq ReadIn(FlattenSeq(seqs)) /\ StoredIn(seqs[k]) \subseteq StoredIn(FlattenSeq(seqs))
  <2>1. seqs # <<>> /\ k \in Nat /\ n \in Nat /\ n \in 1 .. n
    BY <1>2
  <2>2. PICK g : /\ g[n] = FlattenSeq(seqs)
                 /\ \A i \in 1 .. n : g[i] = IF i = 1 THEN seqs[i] ELSE g[i - 1] \o seqs[i]
    BY <2>1, FlattenPrefixes
  <2> DEFINE In(i) == /\ g[i] \in Seq(S)
                      /\ k <= i => /\ ReadIn(seqs[k]) \subseteq ReadIn(g[i])
                                   /\ StoredIn(seqs[k]) \subseteq StoredIn(g[i])
             Out == {i \in 1 .. n : ~In(i)}
  <2>3. Out = {}
    <3>1. SUFFICES ASSUME Out # {} PROVE FALSE
      OBVIOUS
    <3>2. PICK m \in Out : \A j \in Out : m <= j
      <4>1. Out \in SUBSET Nat
        BY <2>1
      <4> HIDE DEF Out
      <4> QED
        BY <3>1, <4>1, Least
    <3>3. m # 1
      <4>1. ASSUME m = 1 PROVE In(m)
        <5>1. g[m] = seqs[m] /\ m \in 1 .. n /\ (k <= m => k = m)
          BY <2>2, <2>1, <4>1
        <5> QED
          BY <1>0, <5>1
      <4> QED
        BY <4>1
    <3>4. m - 1 \in 1 .. n /\ ~ (m <= m - 1) /\ m \in 1 .. n
      BY <2>1, <3>3
    <3>5. In(m - 1)
      BY <3>2, <3>4
    <3>6. g[m] = g[m - 1] \o seqs[m] /\ seqs[m] \in Seq(S)
      BY <1>0, <2>2, <3>3, <3>4
    <3>7. /\ g[m] \in Seq(S)
          /\ ReadIn(g[m]) = ReadIn(g[m - 1]) \cup ReadIn(seqs[m])
          /\ StoredIn(g[m]) = StoredIn(g[m - 1]) \cup StoredIn(seqs[m])
      BY <3>5, <3>6, JoinFields, JoinOf
    <3>8. k <= m => k <= m - 1 \/ k = m
      BY <2>1, <3>4
    <3>9. In(m)
      BY <3>5, <3>7, <3>8
    <3> QED
      BY <3>9
  <2>4. In(n)
    BY <2>1, <2>3
  <2>5. k <= n
    BY <2>1
  <2> QED
    BY <2>2, <2>4, <2>5
<1> QED
  BY <1>1, <1>2

\* Lists that each have their order have it together.
LEMMA FlattenOrder ==
    ASSUME NEW S, NEW seqs \in Seq(Seq(S)), NEW D, NEW K,
           \A k \in 1 .. Len(seqs) : Sourced(seqs[k], K) /\ Ordered(seqs[k], D)
    PROVE  Sourced(FlattenSeq(seqs), K) /\ Ordered(FlattenSeq(seqs), D)
<1> DEFINE n == Len(seqs)
           T == {s \in Seq(S) : Sourced(s, K) /\ Ordered(s, D)}
<1>0. n \in Nat /\ \A i \in 1 .. n : seqs[i] \in Seq(S)
  OBVIOUS
<1>1. <<>> \in T
  <2>1. <<>> \in Seq(S) /\ Len(<<>>) = 0
    OBVIOUS
  <2> QED
    BY <2>1 DEF Sourced, Ordered
<1>2. ASSUME NEW s \in T, NEW t \in T PROVE s \o t \in T
  <2>1. Sourced(t, K \cup ReadIn(s))
    BY DEF Sourced
  <2>2. Ordered(s, D) /\ Ordered(t, D) /\ s \in Seq(S) /\ t \in Seq(S)
    OBVIOUS
  <2>3. \A m \in 1 .. Len(s) : Reading(s[m]) => \A f \in D \cap FieldsIn[s[m][2]] :
           \/ Due(t, f)
           \/ \E j \in m + 1 .. Len(s) : Storing(s[j]) /\ f \in FieldsIn[s[j][2]]
    BY <2>2 DEF Ordered
  <2>4. Sourced(s \o t, K)
    BY <2>1, JoinSourced
  <2>5. Ordered(s \o t, D)
    BY <2>2, <2>3, JoinOrdered
  <2> QED
    BY <2>2, <2>4, <2>5, JoinOf
<1>3. seqs \in Seq(T)
  <2>1. \A i \in 1 .. n : seqs[i] \in T
    BY <1>0
  <2>2. seqs = [i \in 1 .. n |-> seqs[i]]
    OBVIOUS
  <2> HIDE DEF T
  <2> QED
    BY <1>0, <2>1, <2>2
<1>4. T \in SUBSET Seq(S)
  OBVIOUS
<1>5. FlattenSeq(seqs) \in T
  <2> HIDE DEF T
  <2> QED
    BY <1>1, <1>2, <1>3, <1>4, FlattenIn
<1> QED
  BY <1>5

-----------------------------------------------------------------------------
(***************************************************************************)
(* The fields of the registers of a name                                   *)
(***************************************************************************)
NameFields(name, slot) == UNION {FieldsIn[r] : r \in {r \in Reg : r[1] = name /\ r[2] = slot}}

\* The register a port has its fields in.
LEMMA PartOf ==
    ASSUME NEW name \in DOMAIN PortRegs, NEW q \in PhysPorts
    PROVE  /\ q \div PortRegs[name].per \in 0 .. Parts(name) - 1
           /\ q \div PortRegs[name].per + 1 \in 1 .. Parts(name)
<1> DEFINE w == PortRegs[name].per
           m == q \div w
           p == (NumPorts + w - 1) \div w
<1>1. w \in Nat \ {0} /\ NumPorts \in Nat \ {0} /\ q \in Nat /\ q < NumPorts
  <2>1. w \in {WordPorts, TagPorts, 2}
    BY DEF PortRegs
  <2> QED
    BY <2>1, SwitchRegsAssumption DEF PhysPorts
<1>2. Parts(name) = p
  BY DEF Parts
<1>3. m \in Nat /\ p \in Nat
  <2>1. p \in Nat \ {0}
    BY <1>2, PartsNat
  <2> HIDE DEF w
  <2>2. m \in Nat
    BY <1>1
  <2> QED
    BY <2>1, <2>2
<1>4. w * m <= q
  <2> HIDE DEF w
  <2> QED
    BY <1>1
<1>5. NumPorts + w - 1 < w * p + w
  <2> DEFINE k == NumPorts + w - 1
  <2>1. k \in Nat /\ p = k \div w
    BY <1>1
  <2> HIDE DEF w, k, p
  <2>2. k < w * p + w
    BY <1>1, <2>1
  <2> QED
    BY <2>2 DEF k
<1> HIDE DEF w, m, p
<1>6. w * m < w * p
  <2>1. w * m \in Nat /\ w * p \in Nat
    BY <1>1, <1>3
  <2> QED
    BY <1>1, <1>4, <1>5, <2>1
<1>7. m < p
  <2> SUFFICES ASSUME ~(m < p) PROVE FALSE
    OBVIOUS
  <2>1. PICK d \in Nat : m = p + d
    <3>1. m - p \in Nat /\ m = p + (m - p)
      BY <1>3
    <3> QED
      BY <3>1
  <2>2. w * m = w * p + w * d /\ w * d \in Nat /\ w * p \in Nat
    BY <1>1, <1>3, <2>1
  <2> QED
    BY <1>6, <2>2
<1>8. m \in 0 .. p - 1 /\ m + 1 \in 1 .. p
  BY <1>3, <1>7
<1> QED
  BY <1>2, <1>8 DEF w, m

LEMMA PortFields ==
    ASSUME NEW name \in DOMAIN PortRegs, NEW slot \in SlotsOf(name)
    PROVE  NameFields(name, slot) = PortRegs[name].fields \X {slot} \X PhysPorts
<1> DEFINE w == PortRegs[name].per
           F == PortRegs[name].fields
<1>1. \A r \in Reg : r[1] = name /\ r[2] = slot =>
         FieldsIn[r] = F \X {slot} \X {q \in PhysPorts : q \div w = r[3]}
  BY DEF FieldsIn
<1>2. ASSUME NEW f \in F \X {slot} \X PhysPorts
      PROVE  f \in NameFields(name, slot)
  <2> DEFINE r == <<name, slot, f[3] \div w>>
  <2>1. f[3] \in PhysPorts
    OBVIOUS
  <2>2. f[3] \div w \in 0 .. Parts(name) - 1
    BY <2>1, PartOf
  <2>3. r \in Reg
    BY <2>2 DEF Reg
  <2>4. f \in F \X {slot} \X {q \in PhysPorts : q \div w = r[3]}
    BY <2>1
  <2>5. f \in FieldsIn[r]
    BY <1>1, <2>3, <2>4
  <2> QED
    BY <2>3, <2>5 DEF NameFields
<1>3. ASSUME NEW f \in NameFields(name, slot)
      PROVE  f \in F \X {slot} \X PhysPorts
  <2>1. PICK r \in Reg : r[1] = name /\ r[2] = slot /\ f \in FieldsIn[r]
    BY DEF NameFields
  <2> QED
    BY <1>1, <2>1
<1> QED
  BY <1>2, <1>3

LEMMA FlagFields ==
    ASSUME NEW name \in Plain \cap DOMAIN FlagRegs
    PROVE  /\ NameFields(name, 0) = {Flag(n) : n \in FlagRegs[name]}
           /\ <<name, 0, 0>> \in Reg /\ FieldsIn[<<name, 0, 0>>] = {Flag(n) : n \in FlagRegs[name]}
           /\ Parts(name) = 1
<1>1. name \notin DOMAIN PortRegs /\ name # "vlan_vid"
  BY DEF PortRegs, FlagRegs, Plain
<1>2. Parts(name) = 1
  BY <1>1 DEF Parts
<1>3. SlotsOf(name) = {0}
  BY Names
<1>4. <<name, 0, 0>> \in Reg /\ \A r \in Reg : r[1] = name => r = <<name, 0, 0>>
  <2>1. \A r \in Reg : r \in {r[1]} \X SlotsOf(r[1]) \X (0 .. Parts(r[1]) - 1)
    BY DEF Reg
  <2>2. 0 .. Parts(name) - 1 = {0}
    BY <1>2
  <2>3. <<name, 0, 0>> \in Reg
    BY <1>3, <2>2 DEF Reg
  <2> QED
    BY <1>3, <2>1, <2>2, <2>3
<1>5. FieldsIn[<<name, 0, 0>>] = {Flag(n) : n \in FlagRegs[name]}
  <2>1. FieldsIn[<<name, 0, 0>>] = FlagRegs[name] \X {0} \X {0}
    BY <1>1, <1>4 DEF FieldsIn
  <2>2. FlagRegs[name] \X {0} \X {0} = {Flag(n) : n \in FlagRegs[name]}
    BY DEF Flag
  <2> QED
    BY <2>1, <2>2
<1>6. NameFields(name, 0) = FieldsIn[<<name, 0, 0>>]
  BY <1>4 DEF NameFields
<1> QED
  BY <1>2, <1>4, <1>5, <1>6

LEMMA VidFields ==
    ASSUME NEW i \in Slots
    PROVE  NameFields("vlan_vid", i) = {Vid(i)} /\ i \in SlotsOf("vlan_vid")
<1>1. "vlan_vid" \notin DOMAIN PortRegs
  BY DEF PortRegs
<1>2. Parts("vlan_vid") = 1
  BY <1>1 DEF Parts
<1>3. SlotsOf("vlan_vid") = Slots
  BY Names DEF Tables
<1>4. <<"vlan_vid", i, 0>> \in Reg /\ \A r \in Reg : r[1] = "vlan_vid" /\ r[2] = i => r = <<"vlan_vid", i, 0>>
  <2>1. \A r \in Reg : r \in {r[1]} \X SlotsOf(r[1]) \X (0 .. Parts(r[1]) - 1)
    BY DEF Reg
  <2>2. 0 .. Parts("vlan_vid") - 1 = {0}
    BY <1>2
  <2>3. <<"vlan_vid", i, 0>> \in Reg
    BY <1>3, <2>2 DEF Reg
  <2> QED
    BY <1>3, <2>1, <2>2, <2>3
<1>5. FieldsIn[<<"vlan_vid", i, 0>>] = {Vid(i)}
  BY <1>1, <1>4 DEF FieldsIn, Vid
<1>6. NameFields("vlan_vid", i) = FieldsIn[<<"vlan_vid", i, 0>>]
  BY <1>4 DEF NameFields
<1> QED
  BY <1>3, <1>5, <1>6

\* The accesses to all the registers of a name.
LEMMA AllFields ==
    ASSUME NEW name \in Plain \cup Tables, NEW slot \in SlotsOf(name), NEW kind
    PROVE  /\ All(kind, name, slot) \in Seq({kind} \X ConfigRegs)
           /\ UNION {FieldsIn[x[2]] : x \in ToSet(All(kind, name, slot))} = NameFields(name, slot)
<1> DEFINE s == All(kind, name, slot)
<1>0. name \in DOMAIN PortRegs \cup DOMAIN FlagRegs \cup {"vlan_vid"}
  BY Names
<1>1. /\ s \in Seq({kind} \X {r \in Reg : r[1] = name})
      /\ Len(s) = Parts(name)
      /\ \A n \in 1 .. Parts(name) : s[n] = <<kind, <<name, slot, n - 1>>>>
  BY <1>0, InAll
<1>2. s \in Seq({kind} \X ConfigRegs)
  <2>1. \A S, T : S \subseteq T => Seq(S) \subseteq Seq(T)
    OBVIOUS
  <2>2. {kind} \X {r \in Reg : r[1] = name} \subseteq {kind} \X ConfigRegs
    BY DEF ConfigRegs
  <2> HIDE DEF s
  <2> QED
    BY <1>1, <2>1, <2>2
<1> HIDE DEF s
<1>3. \A x : x \in ToSet(s) <=> \E n \in 1 .. Parts(name) : x = s[n]
  <2>1. DOMAIN s = 1 .. Parts(name)
    BY <1>1
  <2> QED
    BY <2>1 DEF ToSet
<1>4. \A r \in Reg : r[1] = name /\ r[2] = slot <=> \E n \in 1 .. Parts(name) : r = <<name, slot, n - 1>>
  <2>1. Parts(name) \in Nat \ {0}
    BY PartsNat
  <2>2. \A r \in Reg : r \in {r[1]} \X SlotsOf(r[1]) \X (0 .. Parts(r[1]) - 1)
    BY DEF Reg
  <2>3. ASSUME NEW r \in Reg, r[1] = name, r[2] = slot
        PROVE  \E n \in 1 .. Parts(name) : r = <<name, slot, n - 1>>
    <3>1. r \in {name} \X SlotsOf(name) \X (0 .. Parts(name) - 1)
      BY <2>2, <2>3
    <3>2. r[3] \in 0 .. Parts(name) - 1 /\ r = <<name, slot, r[3]>>
      BY <2>3, <3>1
    <3>3. PICK n \in 1 .. Parts(name) : n - 1 = r[3]
      <4>1. ASSUME NEW p \in Nat, NEW k \in 0 .. p - 1 PROVE \E n \in 1 .. p : n - 1 = k
        <5>1. k + 1 \in 1 .. p /\ k + 1 - 1 = k
          OBVIOUS
        <5> QED
          BY <5>1
      <4> QED
        BY <2>1, <3>2, <4>1
    <3> QED
      BY <3>2, <3>3
  <2> QED
    BY <2>3
<1>5. \A n \in 1 .. Parts(name) : <<name, slot, n - 1>> \in Reg
  <2>1. \A n \in 1 .. Parts(name) : n - 1 \in 0 .. Parts(name) - 1
    BY PartsNat
  <2> QED
    BY <1>0, <2>1 DEF Reg
<1>6. UNION {FieldsIn[x[2]] : x \in ToSet(s)} = NameFields(name, slot)
  <2>1. ASSUME NEW f, f \in UNION {FieldsIn[x[2]] : x \in ToSet(s)} PROVE f \in NameFields(name, slot)
    <3>1. PICK x \in ToSet(s) : f \in FieldsIn[x[2]]
      BY <2>1
    <3>2. PICK n \in 1 .. Parts(name) : x = s[n]
      BY <1>3
    <3>3. x[2] = <<name, slot, n - 1>>
      BY <1>1, <3>2
    <3> QED
      BY <1>5, <3>1, <3>3 DEF NameFields
  <2>2. ASSUME NEW f, f \in NameFields(name, slot) PROVE f \in UNION {FieldsIn[x[2]] : x \in ToSet(s)}
    <3>1. PICK r \in Reg : r[1] = name /\ r[2] = slot /\ f \in FieldsIn[r]
      BY <2>2 DEF NameFields
    <3>2. PICK n \in 1 .. Parts(name) : r = <<name, slot, n - 1>>
      BY <1>4, <3>1
    <3>3. s[n] \in ToSet(s) /\ s[n][2] = r
      BY <1>1, <1>3, <3>2
    <3> QED
      BY <3>1, <3>3
  <2> QED
    BY <2>1, <2>2
<1> QED
  BY <1>2, <1>6 DEF s

LEMMA AllReads ==
    ASSUME NEW name \in Plain \cup Tables, NEW slot \in SlotsOf(name)
    PROVE  /\ All("read", name, slot) \in Seq({"read"} \X ConfigRegs)
           /\ ReadIn(All("read", name, slot)) = NameFields(name, slot)
BY AllFields, OnlyReads

LEMMA AllWrites ==
    ASSUME NEW name \in Plain \cup Tables, NEW slot \in SlotsOf(name)
    PROVE  /\ All("write", name, slot) \in Seq({"write"} \X ConfigRegs)
           /\ StoredIn(All("write", name, slot)) = NameFields(name, slot)
BY AllFields, OnlyWritesList

LEMMA PlainFields ==
    \A name \in Plain : /\ Reads(name) \in Seq({"read"} \X ConfigRegs)
                        /\ ReadIn(Reads(name)) = NameFields(name, 0)
                        /\ Writes(name) \in Seq({"write"} \X ConfigRegs)
                        /\ StoredIn(Writes(name)) = NameFields(name, 0)
<1>1. \A name \in Plain : 0 \in SlotsOf(name)
  BY Names
<1> QED
  BY <1>1, AllReads, AllWrites DEF Reads, Writes

\* Only those that hold one of the ports.
LEMMA SomeFields ==
    ASSUME NEW name \in Plain \cap DOMAIN PortRegs, NEW ports \in SUBSET PhysPorts
    PROVE  /\ WritesFor(name, ports) \in Seq({"write"} \X ConfigRegs)
           /\ StoredIn(WritesFor(name, ports)) \subseteq NameFields(name, 0)
           /\ PortRegs[name].fields \X {0} \X ports \subseteq StoredIn(WritesFor(name, ports))
<1> DEFINE W == {"write"} \X ConfigRegs
           per == PortRegs[name].per
           one(n) == <<<<"write", <<name, 0, n - 1>>>>>>
           Held(n) == \E q \in ports : q \div per = n - 1
           seqs == [n \in 1 .. Parts(name) |-> IF Held(n) THEN one(n) ELSE <<>>]
<1>1. Parts(name) \in Nat /\ 0 \in SlotsOf(name)
  BY PartsNat, Names
<1>2. \A n \in 1 .. Parts(name) : <<name, 0, n - 1>> \in ConfigRegs
  <2>1. \A n \in 1 .. Parts(name) : n - 1 \in 0 .. Parts(name) - 1
    BY <1>1
  <2> QED
    BY <1>1, <2>1 DEF Reg, ConfigRegs
<1>3. ASSUME NEW n \in 1 .. Parts(name)
      PROVE  one(n) \in Seq(W) /\ StoredIn(one(n)) = FieldsIn[<<name, 0, n - 1>>]
  <2> DEFINE x == <<"write", <<name, 0, n - 1>>>>
  <2>1. x \in W /\ x[2] = <<name, 0, n - 1>> /\ Storing(x)
    BY <1>2 DEF Storing
  <2>2. one(n) = <<x>>
    OBVIOUS
  <2> HIDE DEF W, x, one
  <2>3. <<x>> \in Seq(W) /\ Len(<<x>>) = 1 /\ <<x>>[1] = x
    BY <2>1
  <2>4. \A f : f \in StoredIn(<<x>>) <=> f \in FieldsIn[x[2]]
    BY <2>1, <2>3, InLists DEF Due
  <2>5. StoredIn(<<x>>) = FieldsIn[x[2]]
    BY <2>4
  <2> QED
    BY <2>1, <2>2, <2>3, <2>5
<1>4. <<>> \in Seq(W) /\ StoredIn(<<>>) = {}
  <2>1. <<>> \in Seq(W) /\ Len(<<>>) = 0
    OBVIOUS
  <2> QED
    BY <2>1 DEF StoredIn
<1> HIDE DEF one, W
<1>5. seqs \in Seq(Seq(W)) /\ Len(seqs) = Parts(name)
  <2> DEFINE L == Seq(W)
  <2>1. \A n \in 1 .. Parts(name) : seqs[n] \in L
    BY <1>3, <1>4
  <2> HIDE DEF L
  <2>2. seqs \in Seq(L) /\ Len(seqs) = Parts(name)
    BY <1>1, <2>1
  <2> QED
    BY <2>2 DEF L
<1>6. WritesFor(name, ports) = FlattenSeq(seqs)
  BY DEF WritesFor, one
<1>7. \A n \in 1 .. Parts(name) : StoredIn(seqs[n]) = IF Held(n) THEN FieldsIn[<<name, 0, n - 1>>] ELSE {}
  BY <1>3, <1>4
<1> HIDE DEF seqs
<1>8. StoredIn(FlattenSeq(seqs)) = UNION {StoredIn(seqs[n]) : n \in 1 .. Parts(name)}
  BY <1>5, FlattenFields
<1>9. UNION {StoredIn(seqs[n]) : n \in 1 .. Parts(name)} \subseteq NameFields(name, 0)
  <2> SUFFICES ASSUME NEW n \in 1 .. Parts(name), NEW f \in StoredIn(seqs[n])
               PROVE  f \in NameFields(name, 0)
    OBVIOUS
  <2>1. f \in FieldsIn[<<name, 0, n - 1>>] /\ <<name, 0, n - 1>> \in Reg
    BY <1>2, <1>7 DEF ConfigRegs
  <2> QED
    BY <2>1 DEF NameFields
<1>10. ASSUME NEW f \in PortRegs[name].fields \X {0} \X ports
       PROVE  f \in UNION {StoredIn(seqs[n]) : n \in 1 .. Parts(name)}
  <2> DEFINE n == f[3] \div per + 1
             r == <<name, 0, n - 1>>
  <2>1. f[3] \in ports /\ f[3] \in PhysPorts
    OBVIOUS
  <2>2. f[3] \div per \in 0 .. Parts(name) - 1 /\ n \in 1 .. Parts(name)
    BY <2>1, PartOf
  <2>3. n - 1 = f[3] \div per
    BY <1>1, <2>2
  <2>4. Held(n)
    BY <2>1, <2>3
  <2>5. r \in Reg
    BY <1>2, <2>2 DEF ConfigRegs
  <2>6. FieldsIn[r] = PortRegs[name].fields \X {0} \X {q \in PhysPorts : q \div per = n - 1}
    BY <2>5 DEF FieldsIn
  <2> HIDE DEF n, per
  <2>7. f \in FieldsIn[r]
    BY <2>1, <2>3, <2>6
  <2> QED
    BY <1>7, <2>2, <2>4, <2>7
<1> QED
  BY <1>5, <1>6, <1>8, <1>9, <1>10, Flattened DEF W

-----------------------------------------------------------------------------
(***************************************************************************)
(* The commands                                                            *)
(***************************************************************************)
IsEdit(e) == DOMAIN e \subseteq Field /\ \A f \in DOMAIN e : e[f] \in Legal(f)
CliFields == UNION {FieldsIn[r] : r \in {r \in ConfigRegs : r[1] # "authkey"}}
Commands == {"read", "write", "writeIfChanged"} \X ConfigRegs

\* A command sets fields to what they may hold, and reads and writes in order.
GoodJob(job, K) ==
    IsEdit(job.edit) /\ job.ops \in Seq(Commands) /\ InOrder(job.ops, DOMAIN job.edit, K)

LEMMA Widened ==
    /\ \A s \in Seq({"read"} \X ConfigRegs) : s \in Seq(Commands)
    /\ \A s \in Seq({"write"} \X ConfigRegs) : s \in Seq(Commands)
    /\ \A s, t \in Seq(Commands) : s \o t \in Seq(Commands)
    /\ \A s, t, u \in Seq(Commands) : (s \o t) \o u = s \o (t \o u)
    /\ \A s, t \in Seq({"read"} \X ConfigRegs) : s \o t \in Seq({"read"} \X ConfigRegs)
    /\ \A s, t \in Seq({"write"} \X ConfigRegs) : s \o t \in Seq({"write"} \X ConfigRegs)
<1>1. \A S, T : S \subseteq T => Seq(S) \subseteq Seq(T)
  OBVIOUS
<1>2. {"read"} \X ConfigRegs \subseteq Commands /\ {"write"} \X ConfigRegs \subseteq Commands
  BY DEF Commands
<1>3. \A S : \A s, t \in Seq(S) : s \o t \in Seq(S)
  OBVIOUS
<1>4. \A S : \A s, t, u \in Seq(S) : (s \o t) \o u = s \o (t \o u)
  BY ConcatAssociative
<1> QED
  BY <1>1, <1>2, <1>3, <1>4

LEMMA GoodReadWrite ==
    ASSUME NEW r \in Seq({"read"} \X ConfigRegs), NEW w \in Seq({"write"} \X ConfigRegs),
           NEW e, NEW K, IsEdit(e), DOMAIN e \subseteq StoredIn(w),
           StoredIn(w) \subseteq DOMAIN e \cup K \cup ReadIn(r)
    PROVE  GoodJob(Job(r \o w, e), K)
<1>1. InOrder(r \o w, DOMAIN e, K)
  BY ReadThenWrite
<1>2. r \o w \in Seq(Commands)
  BY Widened
<1> QED
  BY <1>1, <1>2 DEF GoodJob, Job

LEMMA GoodWrites ==
    ASSUME NEW w \in Seq({"write"} \X ConfigRegs), NEW e, NEW K, IsEdit(e),
           DOMAIN e \subseteq StoredIn(w), StoredIn(w) \subseteq DOMAIN e \cup K
    PROVE  GoodJob(Job(w, e), K)
<1>1. <<>> \in Seq({"read"} \X ConfigRegs)
  OBVIOUS
<1>2. <<>> \o w = w
  BY ConcatEmptySeq
<1> QED
  BY <1>1, <1>2, GoodReadWrite

LEMMA Fields ==
    /\ \A name \in Plain \cup Tables : \A slot : NameFields(name, slot) \subseteq Field
    /\ \A name \in (Plain \cup Tables) \ {"authkey"} : \A slot : NameFields(name, slot) \subseteq CliFields
<1>1. \A r \in Reg : FieldsIn[r] \subseteq Field
  BY RegFields
<1>2. \A name, slot : NameFields(name, slot) \subseteq Field
  BY <1>1 DEF NameFields
<1>3. ASSUME NEW name \in (Plain \cup Tables) \ {"authkey"}, NEW slot, NEW f \in NameFields(name, slot)
      PROVE  f \in CliFields
  <2>1. PICK r \in Reg : r[1] = name /\ f \in FieldsIn[r]
    BY DEF NameFields
  <2>2. r \in ConfigRegs /\ r[1] # "authkey"
    BY <2>1 DEF ConfigRegs
  <2> QED
    BY <2>1, <2>2 DEF CliFields
<1> QED
  BY <1>2, <1>3

\* What sets the fields of a register of names.
LEMMA GoodName ==
    ASSUME NEW name \in Plain, NEW e, IsEdit(e), DOMAIN e \subseteq NameFields(name, 0)
    PROVE  /\ \A K : GoodJob(Job(ReadWrite(name), e), K) /\ GoodJob(EditFlags(name, e), K)
           /\ name # "authkey" => GoodJob(Set(name, e), CliFields)
           /\ \A K : GoodJob(Job(Reads("vlan") \o ReadWrite(name), e), K)
<1>1. /\ Reads(name) \in Seq({"read"} \X ConfigRegs) /\ ReadIn(Reads(name)) = NameFields(name, 0)
      /\ Writes(name) \in Seq({"write"} \X ConfigRegs) /\ StoredIn(Writes(name)) = NameFields(name, 0)
  BY PlainFields
<1>2. Reads("vlan") \in Seq({"read"} \X ConfigRegs)
  BY PlainFields DEF Plain
<1>3. \A K : GoodJob(Job(ReadWrite(name), e), K)
  BY <1>1, GoodReadWrite DEF ReadWrite
<1>4. name # "authkey" => GoodJob(Set(name, e), CliFields)
  <2> SUFFICES ASSUME name # "authkey" PROVE GoodJob(Set(name, e), CliFields)
    OBVIOUS
  <2>1. StoredIn(Writes(name)) \subseteq DOMAIN e \cup CliFields
    BY <1>1, Fields
  <2> QED
    BY <1>1, <2>1, GoodWrites DEF Set
<1>5. ASSUME NEW K PROVE GoodJob(Job(Reads("vlan") \o ReadWrite(name), e), K)
  <2> DEFINE r == Reads("vlan") \o Reads(name)
  <2>1. r \in Seq({"read"} \X ConfigRegs)
    BY <1>1, <1>2, Widened
  <2>2. ReadIn(r) = ReadIn(Reads("vlan")) \cup ReadIn(Reads(name))
    BY <1>1, <1>2, JoinFields
  <2>3. Reads("vlan") \o ReadWrite(name) = r \o Writes(name)
    BY <1>1, <1>2, Widened DEF ReadWrite
  <2> HIDE DEF r
  <2>4. DOMAIN e \subseteq StoredIn(Writes(name)) /\ StoredIn(Writes(name)) \subseteq DOMAIN e \cup K \cup ReadIn(r)
    BY <1>1, <2>2
  <2>5. GoodJob(Job(r \o Writes(name), e), K)
    BY <1>1, <2>1, <2>4, GoodReadWrite
  <2> QED
    BY <2>3, <2>5
<1> QED
  BY <1>3, <1>4, <1>5 DEF EditFlags

LEMMA GoodPorts ==
    ASSUME NEW name \in Plain \cap DOMAIN PortRegs, NEW ports \in SUBSET PhysPorts, NEW e, IsEdit(e),
           DOMAIN e \subseteq PortRegs[name].fields \X {0} \X ports
    PROVE  /\ \A K : GoodJob(Job(Reads(name) \o WritesFor(name, ports), e), K)
           /\ name # "authkey" => GoodJob(Job(WritesFor(name, ports), e), CliFields)
<1>1. /\ Reads(name) \in Seq({"read"} \X ConfigRegs) /\ ReadIn(Reads(name)) = NameFields(name, 0)
      /\ WritesFor(name, ports) \in Seq({"write"} \X ConfigRegs)
      /\ StoredIn(WritesFor(name, ports)) \subseteq NameFields(name, 0)
      /\ DOMAIN e \subseteq StoredIn(WritesFor(name, ports))
  <2>1. /\ WritesFor(name, ports) \in Seq({"write"} \X ConfigRegs)
        /\ StoredIn(WritesFor(name, ports)) \subseteq NameFields(name, 0)
        /\ PortRegs[name].fields \X {0} \X ports \subseteq StoredIn(WritesFor(name, ports))
    BY SomeFields
  <2>2. DOMAIN e \subseteq StoredIn(WritesFor(name, ports))
    BY <2>1
  <2>3. Reads(name) \in Seq({"read"} \X ConfigRegs) /\ ReadIn(Reads(name)) = NameFields(name, 0)
    BY PlainFields
  <2> QED
    BY <2>1, <2>2, <2>3, Zenon
<1>2. ASSUME NEW K PROVE GoodJob(Job(Reads(name) \o WritesFor(name, ports), e), K)
  <2> DEFINE r == Reads(name)
             w == WritesFor(name, ports)
  <2>1. r \in Seq({"read"} \X ConfigRegs) /\ w \in Seq({"write"} \X ConfigRegs)
    BY <1>1
  <2>2. DOMAIN e \subseteq StoredIn(w) /\ StoredIn(w) \subseteq DOMAIN e \cup K \cup ReadIn(r)
    BY <1>1
  <2> HIDE DEF r, w
  <2>3. GoodJob(Job(r \o w, e), K)
    BY <2>1, <2>2, GoodReadWrite
  <2> QED
    BY <2>3 DEF r, w
<1>3. name # "authkey" => GoodJob(Job(WritesFor(name, ports), e), CliFields)
  <2> SUFFICES ASSUME name # "authkey" PROVE GoodJob(Job(WritesFor(name, ports), e), CliFields)
    OBVIOUS
  <2>1. StoredIn(WritesFor(name, ports)) \subseteq DOMAIN e \cup CliFields
    BY <1>1, Fields
  <2> QED
    BY <1>1, <2>1, GoodWrites
<1> QED
  BY <1>2, <1>3

\* A command that writes what it has changed, if it has.
LEMMA GoodIfChanged ==
    ASSUME NEW e, IsEdit(e), DOMAIN e \subseteq NameFields("qos_config", 0), NEW K
    PROVE  GoodJob(IfChanged("qos_config", e), K)
<1> DEFINE reg == <<"qos_config", 0, 0>>
           x == <<"read", reg>>
           y == <<"writeIfChanged", reg>>
<1>1. "qos_config" \in Plain \cap DOMAIN FlagRegs
  BY DEF Plain, FlagRegs
<1>2. /\ FieldsIn[reg] = NameFields("qos_config", 0) /\ Parts("qos_config") = 1
      /\ reg \in ConfigRegs
  BY <1>1, FlagFields DEF ConfigRegs
<1>3. Reads("qos_config") = <<x>> /\ All("writeIfChanged", "qos_config", 0) = <<y>>
  BY <1>2 DEF Reads, All
<1>4. /\ <<x>> \o <<y>> = <<x, y>> /\ Len(<<x, y>>) = 2 /\ <<x, y>>[1] = x /\ <<x, y>>[2] = y
      /\ <<x, y>> \in Seq(Commands)
  <2>1. x \in Commands /\ y \in Commands
    BY <1>2 DEF Commands
  <2> HIDE DEF x, y
  <2>2. Len(<<x, y>>) = 2 /\ <<x, y>>[1] = x /\ <<x, y>>[2] = y /\ <<x, y>> \in Seq(Commands)
    BY <2>1
  <2>3. <<x>> \o <<y>> = <<x, y>>
    <3> DEFINE u == <<x>> \o <<y>>
    <3>1. <<x>> \in Seq(Commands) /\ <<y>> \in Seq(Commands) /\ Len(<<x>>) = 1 /\ Len(<<y>>) = 1
      BY <2>1
    <3>2. u \in Seq(Commands) /\ Len(u) = 2
      BY <3>1
    <3>3. u[1] = <<x>>[1] /\ u[2] = <<y>>[1]
      BY <3>1
    <3> HIDE DEF u
    <3>4. u = <<u[1], u[2]>>
      BY <3>2
    <3> QED
      BY <3>3, <3>4 DEF u
  <2> QED
    BY <2>2, <2>3
<1> DEFINE s == <<x, y>>
           D == DOMAIN e
<1>5. /\ Reading(x) /\ ~Storing(x) /\ ~Reading(y) /\ Storing(y) /\ x[2] = reg /\ y[2] = reg
      /\ x[1] # "writeIfChanged"
  BY DEF Reading, Storing
<1>6. Len(s) = 2 /\ s[1] = x /\ s[2] = y /\ 1 .. 2 = {1, 2} /\ 2 .. 2 = {2} /\ 1 .. 2 - 1 = {1}
      /\ 1 + 1 .. 2 = {2} /\ y[2] = reg /\ x = <<"read", reg>>
  BY <1>4
<1> HIDE DEF s, x, y, D
<1>7. Sourced(s, D \cup K)
  BY <1>5, <1>6 DEF Sourced
<1>8. Ordered(s, D)
  BY <1>5, <1>6 DEF Ordered
<1>9. Fresh(s)
  BY <1>5, <1>6 DEF Fresh
<1>10. D \subseteq StoredIn(s)
  <2>1. \A f \in FieldsIn[reg] : Due(s, f)
    BY <1>5, <1>6 DEF Due
  <2> QED
    BY <1>2, <2>1, InLists DEF D
<1>11. IfChanged("qos_config", e) = Job(s, e)
  BY <1>3, <1>4 DEF IfChanged, s
<1>12. InOrder(s, DOMAIN e, K)
  BY <1>7, <1>8, <1>9, <1>10 DEF InOrder, D
<1>13. s \in Seq(Commands)
  BY <1>4 DEF s
<1> QED
  BY <1>11, <1>12, <1>13 DEF GoodJob, Job

\* What is set comes over what was set before.
LEMMA OverEdits ==
    ASSUME NEW e, NEW g, IsEdit(e), IsEdit(g)
    PROVE  IsEdit(e ++ g) /\ DOMAIN (e ++ g) = DOMAIN e \cup DOMAIN g
BY DEF IsEdit, ++

LEMMA FlagEdits ==
    ASSUME NEW name \in Plain \cap DOMAIN FlagRegs, NEW set \in SUBSET FlagRegs[name], NEW v \in Nat
    PROVE  IsEdit(Flags(set, v)) /\ DOMAIN Flags(set, v) \subseteq NameFields(name, 0)
<1>1. DOMAIN Flags(set, v) = {Flag(n) : n \in set} /\ \A f \in DOMAIN Flags(set, v) : Flags(set, v)[f] = v
  BY DEF Flags
<1>2. {Flag(n) : n \in set} \subseteq NameFields(name, 0)
  BY FlagFields
<1>3. NameFields(name, 0) \subseteq Field
  BY Fields
<1>4. \A n \in set : Legal(Flag(n)) = Nat
  <2>1. "media" \notin FlagRegs[name] /\ "pause" \notin FlagRegs[name]
    BY DEF FlagRegs
  <2> QED
    BY <2>1 DEF Legal, Flag
<1> HIDE DEF Flags
<1> QED
  BY <1>1, <1>2, <1>3, <1>4 DEF IsEdit

LEMMA PortEdits ==
    ASSUME NEW name \in Plain \cap DOMAIN PortRegs, NEW field \in PortRegs[name].fields,
           NEW ports \in SUBSET PhysPorts, NEW e, DOMAIN e = {Port(field, q) : q \in ports},
           \A q \in ports : e[Port(field, q)] \in Legal(Port(field, q))
    PROVE  /\ IsEdit(e)
           /\ DOMAIN e \subseteq PortRegs[name].fields \X {0} \X ports
           /\ DOMAIN e \subseteq NameFields(name, 0)
<1>1. 0 \in SlotsOf(name)
  BY Names
<1>2. DOMAIN e \subseteq PortRegs[name].fields \X {0} \X ports
  BY DEF Port
<1>3. PortRegs[name].fields \X {0} \X ports \subseteq NameFields(name, 0)
  BY <1>1, PortFields
<1>4. NameFields(name, 0) \subseteq Field
  BY Fields
<1>5. \A f \in DOMAIN e : \E q \in ports : f = Port(field, q)
  OBVIOUS
<1> QED
  BY <1>2, <1>3, <1>4, <1>5 DEF IsEdit

LEMMA PortsEdits ==
    ASSUME NEW name \in Plain \cap DOMAIN PortRegs, NEW field \in PortRegs[name].fields,
           NEW ports \in SUBSET PhysPorts, NEW v, \A q \in ports : v \in Legal(Port(field, q))
    PROVE  /\ IsEdit(PortsTo(field, ports, v))
           /\ DOMAIN PortsTo(field, ports, v) = {Port(field, q) : q \in ports}
           /\ DOMAIN PortsTo(field, ports, v) \subseteq PortRegs[name].fields \X {0} \X ports
           /\ DOMAIN PortsTo(field, ports, v) \subseteq NameFields(name, 0)
<1> DEFINE e == PortsTo(field, ports, v)
<1>1. DOMAIN e = {Port(field, q) : q \in ports} /\ \A q \in ports : e[Port(field, q)] = v
  BY DEF PortsTo
<1>2. \A q \in ports : e[Port(field, q)] \in Legal(Port(field, q))
  BY <1>1
<1> HIDE DEF e
<1>3. /\ IsEdit(e) /\ DOMAIN e \subseteq PortRegs[name].fields \X {0} \X ports
      /\ DOMAIN e \subseteq NameFields(name, 0)
  BY <1>1, <1>2, PortEdits
<1> QED
  BY <1>1, <1>3 DEF e

\* The registers with a bit or a number for each port.
Numbered ==
    {"rrcp_byport_disable", "qos_port_priority", "port_disable", "alt_mask", "insert_vid",
     "sniffer", "sniffed_rx", "sniffed_tx", "output_tag", "port_vlan"}

LEMMA PortNames ==
    /\ \A name \in Numbered : name \in Plain \cap DOMAIN PortRegs /\ PortRegs[name].fields = {name}
    /\ \A name \in Numbered : \A q : Legal(Port(name, q)) = Nat
    /\ "bandwidth" \in Plain \cap DOMAIN PortRegs /\ PortRegs["bandwidth"].fields = {"rx", "tx"}
    /\ \A q : Legal(Port("rx", q)) = Nat /\ Legal(Port("tx", q)) = Nat
    /\ "port_config" \in Plain \cap DOMAIN PortRegs /\ PortRegs["port_config"].fields = {"media", "pause"}
    /\ \A q : /\ Legal(Port("media", q)) = SUBSET Media
              /\ Legal(Port("pause", q)) = SUBSET {"pause", "pause_asy"}
<1>1. \A name \in Numbered : name \in Plain \cap DOMAIN PortRegs /\ PortRegs[name].fields = {name}
  BY DEF Numbered, Plain, PortRegs
<1>2. \A name \in Numbered : \A q : Legal(Port(name, q)) = Nat
  BY DEF Numbered, Legal, Port
<1>3. /\ "bandwidth" \in Plain \cap DOMAIN PortRegs /\ PortRegs["bandwidth"].fields = {"rx", "tx"}
      /\ "port_config" \in Plain \cap DOMAIN PortRegs /\ PortRegs["port_config"].fields = {"media", "pause"}
  BY DEF Plain, PortRegs
<1>4. /\ \A q : Legal(Port("rx", q)) = Nat /\ Legal(Port("tx", q)) = Nat
      /\ \A q : /\ Legal(Port("media", q)) = SUBSET Media
                /\ Legal(Port("pause", q)) = SUBSET {"pause", "pause_asy"}
  BY DEF Legal, Port
<1> QED
  BY <1>1, <1>2, <1>3, <1>4

LEMMA GoodNumbers ==
    ASSUME NEW name \in Numbered, NEW ports \in SUBSET PhysPorts, NEW v \in Nat
    PROVE  /\ IsEdit(PortsTo(name, ports, v))
           /\ DOMAIN PortsTo(name, ports, v) = {Port(name, q) : q \in ports}
           /\ DOMAIN PortsTo(name, ports, v) \subseteq NameFields(name, 0)
           /\ \A K : GoodJob(Job(ReadWrite(name), PortsTo(name, ports, v)), K)
           /\ \A K : GoodJob(Job(Reads("vlan") \o ReadWrite(name), PortsTo(name, ports, v)), K)
           /\ GoodJob(Set(name, PortsTo(name, ports, v)), CliFields)
           /\ GoodJob(Job(WritesFor(name, ports), PortsTo(name, ports, v)), CliFields)
<1> DEFINE e == PortsTo(name, ports, v)
<1>1. name \in Plain \cap DOMAIN PortRegs /\ name \in PortRegs[name].fields /\ name # "authkey"
  BY PortNames DEF Numbered
<1>2. \A q \in ports : v \in Legal(Port(name, q))
  BY PortNames
<1>3. /\ IsEdit(e) /\ DOMAIN e = {Port(name, q) : q \in ports}
      /\ DOMAIN e \subseteq NameFields(name, 0)
      /\ DOMAIN e \subseteq PortRegs[name].fields \X {0} \X ports
  BY <1>1, <1>2, PortsEdits
<1> HIDE DEF e
<1>4. /\ \A K : GoodJob(Job(ReadWrite(name), e), K)
      /\ \A K : GoodJob(Job(Reads("vlan") \o ReadWrite(name), e), K)
      /\ GoodJob(Set(name, e), CliFields)
  BY <1>1, <1>3, GoodName
<1>5. GoodJob(Job(WritesFor(name, ports), e), CliFields)
  BY <1>1, <1>3, GoodPorts
<1> QED
  BY <1>3, <1>4, <1>5 DEF e

\* The commands of a port of rtl83xx.
LEMMA GoodPortConfig ==
    ASSUME NEW ports \in SUBSET PhysPorts, NEW val \in Nat, NEW mode \in {0, 1}, NEW K
    PROVE  GoodJob(do_port_config(mode, ports, val), K)
<1> DEFINE taken == {q \in ports : mode = 0 /\ val = 16 => q \in Gigabit}
           media == IF mode = 0 THEN taken ELSE {}
           pause == IF mode = 1 \/ val \in {32, 64, 96} THEN taken ELSE {}
           e == [f \in {Port("media", q) : q \in media} |-> MediaFor(val, f[3])]
           g == PortsTo("pause", pause, PauseFor(val))
<1>1. /\ "port_config" \in Plain \cap DOMAIN PortRegs
      /\ PortRegs["port_config"].fields = {"media", "pause"}
      /\ \A q : Legal(Port("media", q)) = SUBSET Media
      /\ \A q : Legal(Port("pause", q)) = SUBSET {"pause", "pause_asy"}
  BY PortNames
<1>2. media \in SUBSET PhysPorts /\ pause \in SUBSET PhysPorts /\ media \subseteq ports /\ pause \subseteq ports
  OBVIOUS
<1> HIDE DEF media, pause
<1>3. IsEdit(e) /\ DOMAIN e \subseteq {"media", "pause"} \X {0} \X ports
  <2>1. DOMAIN e = {Port("media", q) : q \in media}
    OBVIOUS
  <2>2. \A q \in media : e[Port("media", q)] = MediaFor(val, q)
    BY DEF Port
  <2>3. \A q : MediaFor(val, q) \in SUBSET Media
    BY DEF MediaFor, Media, AutoMedia
  <2> HIDE DEF e
  <2>4. \A q \in media : e[Port("media", q)] \in Legal(Port("media", q))
    BY <1>1, <2>2, <2>3
  <2>5. "media" \in PortRegs["port_config"].fields
    BY <1>1
  <2>6. IsEdit(e) /\ DOMAIN e \subseteq PortRegs["port_config"].fields \X {0} \X media
    BY <1>1, <1>2, <2>1, <2>4, <2>5, PortEdits
  <2> QED
    BY <1>1, <1>2, <2>6
<1>4. IsEdit(g) /\ DOMAIN g \subseteq {"media", "pause"} \X {0} \X ports
  <2>1. PauseFor(val) \in SUBSET {"pause", "pause_asy"}
    BY DEF PauseFor
  <2>2. IsEdit(g) /\ DOMAIN g \subseteq {"media", "pause"} \X {0} \X pause
    BY <1>1, <1>2, <2>1, PortsEdits
  <2> QED
    BY <1>2, <2>2
<1> HIDE DEF e, g
<1>5. IsEdit(e ++ g) /\ DOMAIN (e ++ g) \subseteq PortRegs["port_config"].fields \X {0} \X ports
  BY <1>1, <1>3, <1>4, OverEdits
<1>6. GoodJob(Job(Reads("port_config") \o WritesFor("port_config", ports), e ++ g), K)
  BY <1>1, <1>5, GoodPorts
<1> QED
  BY <1>6 DEF do_port_config, e, g, media, pause

LEMMA GoodBandwidth ==
    ASSUME NEW ports \in SUBSET PhysPorts, NEW val \in Nat, NEW dir, NEW K
    PROVE  GoodJob(do_port_config_bandwidth(dir, ports, val), K)
<1> DEFINE rx == IF dir \in {0, 1} THEN ports ELSE {}
           tx == IF dir \in {0, 2} THEN ports ELSE {}
           e == PortsTo("rx", rx, val)
           g == PortsTo("tx", tx, val)
<1>1. "bandwidth" \in Plain \cap DOMAIN PortRegs /\ PortRegs["bandwidth"].fields = {"rx", "tx"}
      /\ \A q : Legal(Port("rx", q)) = Nat /\ Legal(Port("tx", q)) = Nat
  BY PortNames
<1>2. rx \in SUBSET PhysPorts /\ tx \in SUBSET PhysPorts /\ rx \subseteq ports /\ tx \subseteq ports
  OBVIOUS
<1> HIDE DEF rx, tx
<1>3. IsEdit(e) /\ DOMAIN e \subseteq {"rx", "tx"} \X {0} \X rx
  BY <1>1, <1>2, PortsEdits
<1>4. IsEdit(g) /\ DOMAIN g \subseteq {"rx", "tx"} \X {0} \X tx
  BY <1>1, <1>2, PortsEdits
<1> HIDE DEF e, g
<1>5. IsEdit(e ++ g) /\ DOMAIN (e ++ g) \subseteq PortRegs["bandwidth"].fields \X {0} \X ports
  <2>1. DOMAIN (e ++ g) = DOMAIN e \cup DOMAIN g /\ IsEdit(e ++ g)
    BY <1>3, <1>4, OverEdits
  <2>2. DOMAIN e \subseteq {"rx", "tx"} \X {0} \X ports /\ DOMAIN g \subseteq {"rx", "tx"} \X {0} \X ports
    BY <1>2, <1>3, <1>4
  <2> QED
    BY <1>1, <2>1, <2>2
<1>6. GoodJob(Job(Reads("bandwidth") \o WritesFor("bandwidth", ports), e ++ g), K)
  BY <1>1, <1>5, GoodPorts
<1> QED
  BY <1>6 DEF do_port_config_bandwidth, e, g, rx, tx

LEMMA GoodTag ==
    ASSUME NEW ports \in SUBSET PhysPorts, NEW val \in Nat, NEW wraps, NEW K
    PROVE  GoodJob(do_tag_command(ports, val, wraps), K)
<1> DEFINE shifted == {q % IntTags : q \in {q \in ports : wraps \/ q < IntTags}}
           low == {q \in PhysPorts : q \in shifted}
           signed == IF IntTags - 1 \in shifted THEN {q \in PhysPorts : q >= IntTags} ELSE {}
           w == IF val >= 2 THEN 3 ELSE 0
           e == PortsTo("output_tag", shifted, val)
           g == PortsTo("output_tag", signed, w)
<1>1. shifted \in SUBSET PhysPorts
  <2>1. \A q \in PhysPorts : q % IntTags \in PhysPorts
    <3> SUFFICES ASSUME NEW q \in PhysPorts PROVE q % IntTags \in PhysPorts
      OBVIOUS
    <3>1. q \in Nat /\ q < NumPorts /\ NumPorts \in Nat \ {0} /\ IntTags \in Nat \ {0}
      BY SwitchRegsAssumption DEF PhysPorts
    <3>2. q % IntTags \in Nat /\ q % IntTags <= q
      BY <3>1
    <3> QED
      BY <3>1, <3>2 DEF PhysPorts
  <2> QED
    BY <2>1
<1>2. signed \in SUBSET PhysPorts /\ w \in Nat
  OBVIOUS
<1>3. "output_tag" \in Numbered
  BY DEF Numbered
<1>4. "output_tag" \in Plain
  BY <1>3, PortNames
<1> HIDE DEF shifted, signed, w
<1>5. /\ IsEdit(e) /\ DOMAIN e \subseteq NameFields("output_tag", 0)
      /\ IsEdit(g) /\ DOMAIN g \subseteq NameFields("output_tag", 0)
  BY <1>1, <1>2, <1>3, GoodNumbers
<1> HIDE DEF e, g
<1>6. IsEdit(e ++ g) /\ DOMAIN (e ++ g) \subseteq NameFields("output_tag", 0)
  BY <1>5, OverEdits
<1>7. GoodJob(Job(Reads("vlan") \o ReadWrite("output_tag"), e ++ g), K)
  BY <1>4, <1>6, GoodName
<1> QED
  BY <1>7 DEF do_tag_command, e, g, shifted, signed, w

\* Words have the numbers of their places.
LEMMA Pos2 ==
    ASSUME NEW x, NEW y, x # y
    PROVE  Pos(<<x, y>>, x) = 0 /\ Pos(<<x, y>>, y) = 1
<1> DEFINE list == <<x, y>>
<1>1. Len(list) = 2 /\ list[1] = x /\ list[2] = y
  OBVIOUS
<1> HIDE DEF list
<1>2. (CHOOSE i \in 1 .. Len(list) : list[i] = x) = 1 /\ (CHOOSE i \in 1 .. Len(list) : list[i] = y) = 2
  BY <1>1
<1> QED
  BY <1>2 DEF Pos, list

LEMMA Pos3 ==
    ASSUME NEW x, NEW y, NEW z, x # y, x # z, y # z
    PROVE  Pos(<<x, y, z>>, x) = 0 /\ Pos(<<x, y, z>>, y) = 1 /\ Pos(<<x, y, z>>, z) = 2
<1> DEFINE list == <<x, y, z>>
<1>1. Len(list) = 3 /\ list[1] = x /\ list[2] = y /\ list[3] = z
  OBVIOUS
<1> HIDE DEF list
<1>2. /\ (CHOOSE i \in 1 .. Len(list) : list[i] = x) = 1
      /\ (CHOOSE i \in 1 .. Len(list) : list[i] = y) = 2
      /\ (CHOOSE i \in 1 .. Len(list) : list[i] = z) = 3
  BY <1>1
<1> QED
  BY <1>2 DEF Pos, list

LEMMA Pos4 ==
    ASSUME NEW x, NEW y, NEW z, NEW u, x # y, x # z, y # z, x # u, y # u, z # u
    PROVE  /\ Pos(<<x, y, z, u>>, x) = 0 /\ Pos(<<x, y, z, u>>, y) = 1
           /\ Pos(<<x, y, z, u>>, z) = 2 /\ Pos(<<x, y, z, u>>, u) = 3
<1> DEFINE list == <<x, y, z, u>>
<1>1. Len(list) = 4 /\ list[1] = x /\ list[2] = y /\ list[3] = z /\ list[4] = u
  OBVIOUS
<1> HIDE DEF list
<1>2. /\ (CHOOSE i \in 1 .. Len(list) : list[i] = x) = 1
      /\ (CHOOSE i \in 1 .. Len(list) : list[i] = y) = 2
      /\ (CHOOSE i \in 1 .. Len(list) : list[i] = z) = 3
      /\ (CHOOSE i \in 1 .. Len(list) : list[i] = u) = 4
  BY <1>1
<1> QED
  BY <1>2 DEF Pos, list

LEMMA Numbers ==
    /\ Pos(ena_disa, "disable") = 0 /\ Pos(ena_disa, "enable") = 1
    /\ Pos(<<"input", "output">>, "input") = 0 /\ Pos(<<"input", "output">>, "output") = 1
    /\ Pos(<<"learning", "disable", "enable">>, "disable") = 1
    /\ Pos(<<"learning", "disable", "enable">>, "enable") = 2
    /\ Pos(<<"7", "0">>, "7") = 0 /\ Pos(<<"7", "0">>, "0") = 1
    /\ LET list == <<"none", "asym2remote", "symmetric", "asym2local">>
       IN Pos(list, "none") = 0 /\ Pos(list, "asym2remote") = 1
             /\ Pos(list, "symmetric") = 2 /\ Pos(list, "asym2local") = 3
    /\ LET list == <<"remove", "insert-high", "insert-all", "none">>
       IN Pos(list, "remove") = 0 /\ Pos(list, "insert-high") = 1
             /\ Pos(list, "insert-all") = 2 /\ Pos(list, "none") = 3
    /\ Pos(<<"portbased", "dot1q">>, "portbased") = 0 /\ Pos(<<"portbased", "dot1q">>, "dot1q") = 1
    /\ Pos(<<"portbased", "dot1qtree">>, "portbased") = 0
    /\ Pos(<<"portbased", "dot1qtree">>, "dot1qtree") = 1
    /\ LET list == <<"arp", "multicast", "unicast">>
       IN Pos(list, "arp") = 0 /\ Pos(list, "multicast") = 1 /\ Pos(list, "unicast") = 2
    /\ Pos(<<"untagged_frames", "invalid_vid">>, "untagged_frames") = 0
    /\ Pos(<<"untagged_frames", "invalid_vid">>, "invalid_vid") = 1
    /\ LET list == <<"0", "12", "300">>
       IN Pos(list, "0") = 0 /\ Pos(list, "12") = 1 /\ Pos(list, "300") = 2
    /\ Pos(<<"drop", "pass">>, "drop") = 0 /\ Pos(<<"drop", "pass">>, "pass") = 1
    /\ LET list == <<"dot3x", "backpressure", "ondemand-disable">>
       IN Pos(list, "dot3x") = 0 /\ Pos(list, "backpressure") = 1 /\ Pos(list, "ondemand-disable") = 2
    /\ Pos(<<"relaxed", "strict">>, "relaxed") = 0 /\ Pos(<<"relaxed", "strict">>, "strict") = 1
    /\ \A w \in RatioWords : Pos(<<"4:1", "8:1", "16:1", "1:0">>, w) \in Nat
<1>1. /\ Pos(ena_disa, "disable") = 0 /\ Pos(ena_disa, "enable") = 1
      /\ Pos(<<"input", "output">>, "input") = 0 /\ Pos(<<"input", "output">>, "output") = 1
      /\ Pos(<<"7", "0">>, "7") = 0 /\ Pos(<<"7", "0">>, "0") = 1
  BY Pos2 DEF ena_disa
<1>2. /\ Pos(<<"portbased", "dot1q">>, "portbased") = 0 /\ Pos(<<"portbased", "dot1q">>, "dot1q") = 1
      /\ Pos(<<"portbased", "dot1qtree">>, "portbased") = 0
      /\ Pos(<<"portbased", "dot1qtree">>, "dot1qtree") = 1
      /\ Pos(<<"untagged_frames", "invalid_vid">>, "untagged_frames") = 0
      /\ Pos(<<"untagged_frames", "invalid_vid">>, "invalid_vid") = 1
      /\ Pos(<<"drop", "pass">>, "drop") = 0 /\ Pos(<<"drop", "pass">>, "pass") = 1
      /\ Pos(<<"relaxed", "strict">>, "relaxed") = 0 /\ Pos(<<"relaxed", "strict">>, "strict") = 1
  BY Pos2
<1>3. /\ Pos(<<"learning", "disable", "enable">>, "disable") = 1
      /\ Pos(<<"learning", "disable", "enable">>, "enable") = 2
      /\ Pos(<<"arp", "multicast", "unicast">>, "arp") = 0
      /\ Pos(<<"arp", "multicast", "unicast">>, "multicast") = 1
      /\ Pos(<<"arp", "multicast", "unicast">>, "unicast") = 2
  BY Pos3
<1>4. /\ Pos(<<"0", "12", "300">>, "0") = 0 /\ Pos(<<"0", "12", "300">>, "12") = 1
      /\ Pos(<<"0", "12", "300">>, "300") = 2
      /\ Pos(<<"dot3x", "backpressure", "ondemand-disable">>, "dot3x") = 0
      /\ Pos(<<"dot3x", "backpressure", "ondemand-disable">>, "backpressure") = 1
      /\ Pos(<<"dot3x", "backpressure", "ondemand-disable">>, "ondemand-disable") = 2
  BY Pos3
<1>5. /\ Pos(<<"none", "asym2remote", "symmetric", "asym2local">>, "none") = 0
      /\ Pos(<<"none", "asym2remote", "symmetric", "asym2local">>, "asym2remote") = 1
      /\ Pos(<<"none", "asym2remote", "symmetric", "asym2local">>, "symmetric") = 2
      /\ Pos(<<"none", "asym2remote", "symmetric", "asym2local">>, "asym2local") = 3
  BY Pos4
<1>6. /\ Pos(<<"remove", "insert-high", "insert-all", "none">>, "remove") = 0
      /\ Pos(<<"remove", "insert-high", "insert-all", "none">>, "insert-high") = 1
      /\ Pos(<<"remove", "insert-high", "insert-all", "none">>, "insert-all") = 2
      /\ Pos(<<"remove", "insert-high", "insert-all", "none">>, "none") = 3
  BY Pos4
<1>7. \A w \in RatioWords : Pos(<<"4:1", "8:1", "16:1", "1:0">>, w) \in Nat
  <2>1. /\ Pos(<<"4:1", "8:1", "16:1", "1:0">>, "4:1") = 0
        /\ Pos(<<"4:1", "8:1", "16:1", "1:0">>, "8:1") = 1
        /\ Pos(<<"4:1", "8:1", "16:1", "1:0">>, "16:1") = 2
        /\ Pos(<<"4:1", "8:1", "16:1", "1:0">>, "1:0") = 3
    BY Pos4
  <2> QED
    BY <2>1 DEF RatioWords
<1> QED
  BY <1>1, <1>2, <1>3, <1>4, <1>5, <1>6, <1>7

LEMMA PortsOf ==
    ASSUME NEW ports, ports \subseteq 1 .. NumPorts
    PROVE  {Phys[l] : l \in ports} \in SUBSET PhysPorts
BY SwitchRegsAssumption

LEMMA GoodPortJobs ==
    ASSUME NEW c, IsRtl83xx(c), c.word \in InterfaceWords, NEW wraps, NEW K
    PROVE  GoodJob(InterfaceJob(c, wraps), K)
<1> DEFINE ports == {Phys[l] : l \in c.ports}
<1>1. ports \in SUBSET PhysPorts
  BY PortsOf DEF IsRtl83xx
<1> HIDE DEF ports
<1>2. ASSUME NEW name \in Numbered, NEW val PROVE GoodJob(do_32bit_reg_action(name, ports, val), K)
  BY <1>1, GoodNumbers DEF do_32bit_reg_action
<1>3. ASSUME NEW val
      PROVE  /\ GoodJob(do_port_disable(ports, val), K) /\ GoodJob(do_port_learning(val, ports), K)
             /\ GoodJob(do_restrict_rrcp(ports, val), K) /\ GoodJob(do_port_qos(ports, val), K)
  BY <1>2 DEF do_port_disable, do_port_learning, do_restrict_rrcp, do_port_qos, Numbered
<1>4. ASSUME NEW val PROVE GoodJob(do_insert_vid(ports, val), K)
  <2>1. "insert_vid" \in Numbered
    BY DEF Numbered
  <2>2. do_insert_vid(ports, val) =
           Job(Reads("vlan") \o ReadWrite("insert_vid"), PortsTo("insert_vid", ports, IF val # 0 THEN 0 ELSE 1))
    BY DEF do_insert_vid, do_32bit_reg_action, Job
  <2>3. \A v \in Nat : GoodJob(Job(Reads("vlan") \o ReadWrite("insert_vid"), PortsTo("insert_vid", ports, v)), K)
    BY <1>1, <2>1, GoodNumbers
  <2> QED
    BY <2>2, <2>3
<1>5. ASSUME NEW val \in Nat PROVE GoodJob(do_vlan_index_ctrl(ports, val), K)
  <2>1. "port_vlan" \in Numbered
    BY DEF Numbered
  <2> QED
    BY <1>1, <2>1, GoodNumbers DEF do_vlan_index_ctrl
<1>6. c.arg \in ArgsOf(c.no, c.word)
  BY DEF IsRtl83xx
<1>7. CASE c.word = "interface speed"
  <2>1. c.arg \in {"auto", "10", "100", "1000"}
    BY <1>6, <1>7 DEF ArgsOf
  <2>2. MediaSpeed(c.arg, c.arg2) \in Nat
    BY <2>1 DEF MediaSpeed, speed_encode
  <2> QED
    BY <1>1, <1>7, <2>2, GoodPortConfig DEF InterfaceJob, ports
<1>8. CASE c.word = "interface flow-control"
  <2>1. c.arg \in {"none", "asym2remote", "symmetric", "asym2local"}
    BY <1>6, <1>8 DEF ArgsOf
  <2>2. 32 * Pos(<<"none", "asym2remote", "symmetric", "asym2local">>, c.arg) \in Nat
    BY <2>1, Numbers
  <2> QED
    BY <1>1, <1>8, <2>2, GoodPortConfig DEF InterfaceJob, ports
<1>9. CASE c.word = "interface tag"
  <2>1. c.arg \in {"remove", "insert-high", "insert-all", "none"}
    BY <1>6, <1>9 DEF ArgsOf
  <2>2. Pos(<<"remove", "insert-high", "insert-all", "none">>, c.arg) \in Nat
    BY <2>1, Numbers
  <2> QED
    BY <1>1, <1>9, <2>2, GoodTag DEF InterfaceJob, ports
<1>10. CASE c.word = "interface rate-limit"
  BY <1>1, <1>10, GoodBandwidth DEF InterfaceJob, IsRtl83xx, ports
<1>11. CASE c.word = "interface index"
  <2>1. c.slots[1] \in Nat
    <3>1. c.slots \in Seq(Slots) /\ c.slots # <<>>
      BY <1>11 DEF IsRtl83xx
    <3>2. Slots \subseteq Nat
      BY SwitchRegsAssumption DEF Slots
    <3>3. \A S : \A s \in Seq(S) : s # <<>> => s[1] \in S
      OBVIOUS
    <3> QED
      BY <3>1, <3>2, <3>3
  <2> QED
    BY <1>5, <1>11, <2>1 DEF InterfaceJob, ports
<1>12. CASE c.word \in {"interface shutdown", "interface mac-address learning", "interface rrcp",
                        "interface mls qos cos", "interface trunk"}
  BY <1>3, <1>4, <1>12 DEF InterfaceJob, ports
<1> QED
  BY <1>7, <1>8, <1>9, <1>10, <1>11, <1>12 DEF InterfaceWords

\* The VLAN table.
TableFields == UNION {NameFields("vlan_entry", i) \cup NameFields("vlan_vid", i) : i \in Slots}

LEMMA TableNames ==
    /\ \A i \in Slots : NameFields("vlan_entry", i) = {Member(i, q) : q \in PhysPorts}
    /\ \A i \in Slots : NameFields("vlan_vid", i) = {Vid(i)}
    /\ TableFields = {Member(i, q) : i \in Slots, q \in PhysPorts} \cup {Vid(i) : i \in Slots}
    /\ TableFields \subseteq Field
    /\ \A i, q : Legal(Member(i, q)) = Nat /\ Legal(Vid(i)) = Nat
<1>1. ASSUME NEW i \in Slots PROVE NameFields("vlan_entry", i) = {Member(i, q) : q \in PhysPorts}
  <2>1. "vlan_entry" \in DOMAIN PortRegs /\ PortRegs["vlan_entry"].fields = {"vlan_entry"}
    BY DEF PortRegs
  <2>2. i \in SlotsOf("vlan_entry")
    BY Names DEF Tables
  <2>3. NameFields("vlan_entry", i) = {"vlan_entry"} \X {i} \X PhysPorts
    BY <2>1, <2>2, PortFields
  <2> QED
    BY <2>3 DEF Member
<1>2. \A i \in Slots : NameFields("vlan_vid", i) = {Vid(i)}
  BY VidFields
<1>3. TableFields = {Member(i, q) : i \in Slots, q \in PhysPorts} \cup {Vid(i) : i \in Slots}
  BY <1>1, <1>2 DEF TableFields
<1>4. TableFields \subseteq Field
  BY Fields DEF TableFields, Tables
<1>5. \A i, q : Legal(Member(i, q)) = Nat /\ Legal(Vid(i)) = Nat
  BY DEF Legal, Member, Vid
<1> QED
  BY <1>1, <1>2, <1>3, <1>4, <1>5

LEMMA WholeTableWrites ==
    LET F == FlattenSeq([k \in 1 .. NumSlots |->
                 All("write", "vlan_entry", k - 1) \o All("write", "vlan_vid", k - 1)])
    IN F \in Seq({"write"} \X ConfigRegs) /\ StoredIn(F) = TableFields
<1> DEFINE W == {"write"} \X ConfigRegs
           block(k) == All("write", "vlan_entry", k - 1) \o All("write", "vlan_vid", k - 1)
           seqs == [k \in 1 .. NumSlots |-> block(k)]
<1>1. \A i \in Slots : i \in SlotsOf("vlan_entry") /\ i \in SlotsOf("vlan_vid")
  BY Names DEF Tables
<1>2. NumSlots \in Nat /\ (\A k \in 1 .. NumSlots : k - 1 \in Slots)
      /\ \A i \in Slots : i + 1 \in 1 .. NumSlots /\ i + 1 - 1 = i
  BY SwitchRegsAssumption DEF Slots
<1>3. \A k \in 1 .. NumSlots : /\ block(k) \in Seq(W)
                               /\ StoredIn(block(k)) = NameFields("vlan_entry", k - 1)
                                                         \cup NameFields("vlan_vid", k - 1)
  <2> SUFFICES ASSUME NEW k \in 1 .. NumSlots
               PROVE  /\ block(k) \in Seq(W)
                      /\ StoredIn(block(k)) = NameFields("vlan_entry", k - 1)
                                                \cup NameFields("vlan_vid", k - 1)
    OBVIOUS
  <2>1. /\ All("write", "vlan_entry", k - 1) \in Seq(W) /\ All("write", "vlan_vid", k - 1) \in Seq(W)
        /\ StoredIn(All("write", "vlan_entry", k - 1)) = NameFields("vlan_entry", k - 1)
        /\ StoredIn(All("write", "vlan_vid", k - 1)) = NameFields("vlan_vid", k - 1)
    BY <1>1, <1>2, AllWrites DEF Tables
  <2> QED
    BY <2>1, Widened, JoinFields
<1> HIDE DEF block, W
<1>4. seqs \in Seq(Seq(W)) /\ Len(seqs) = NumSlots
  <2> DEFINE L == Seq(W)
  <2>1. \A k \in 1 .. NumSlots : seqs[k] \in L
    BY <1>3
  <2> HIDE DEF L
  <2>2. seqs \in Seq(L) /\ Len(seqs) = NumSlots
    BY <1>2, <2>1
  <2> QED
    BY <2>2 DEF L
<1>5. \A k \in 1 .. NumSlots : seqs[k] = block(k)
  OBVIOUS
<1> HIDE DEF seqs
<1>6. FlattenSeq(seqs) \in Seq(W)
      /\ StoredIn(FlattenSeq(seqs)) = UNION {StoredIn(seqs[k]) : k \in 1 .. NumSlots}
  BY <1>4, Flattened, FlattenFields
<1>7. UNION {StoredIn(seqs[k]) : k \in 1 .. NumSlots} = TableFields
  <2>1. ASSUME NEW f \in TableFields PROVE f \in UNION {StoredIn(seqs[k]) : k \in 1 .. NumSlots}
    <3>1. PICK i \in Slots : f \in NameFields("vlan_entry", i) \cup NameFields("vlan_vid", i)
      BY DEF TableFields
    <3>2. \E k \in 1 .. NumSlots : k - 1 = i
      <4>1. i \in Int /\ 0 <= i /\ i <= NumSlots - 1 /\ NumSlots \in Int
        BY <1>2, SwitchRegsAssumption DEF Slots
      <4> QED
        BY <4>1
    <3>4. PICK k \in 1 .. NumSlots : k - 1 = i
      BY <3>2
    <3>3. StoredIn(seqs[k]) = NameFields("vlan_entry", i) \cup NameFields("vlan_vid", i)
      BY <1>3, <1>5, <3>4
    <3> QED
      BY <3>1, <3>3, <3>4
  <2>2. ASSUME NEW k \in 1 .. NumSlots PROVE StoredIn(seqs[k]) \subseteq TableFields
    BY <1>2, <1>3, <1>5 DEF TableFields
  <2> QED
    BY <2>1, <2>2
<1> QED
  BY <1>6, <1>7 DEF seqs, block, W

LEMMA IndexWrites ==
    ASSUME NEW slots \in Seq(Slots)
    PROVE  LET F == FlattenSeq([k \in 1 .. Len(slots) |-> All("write", "vlan_vid", slots[k])])
           IN F \in Seq({"write"} \X ConfigRegs) /\ StoredIn(F) = {Vid(i) : i \in ToSet(slots)}
<1> DEFINE W == {"write"} \X ConfigRegs
           seqs == [k \in 1 .. Len(slots) |-> All("write", "vlan_vid", slots[k])]
<1>1. Len(slots) \in Nat /\ \A k \in 1 .. Len(slots) : slots[k] \in Slots
  OBVIOUS
<1>2. \A k \in 1 .. Len(slots) : /\ seqs[k] \in Seq(W) /\ StoredIn(seqs[k]) = {Vid(slots[k])}
  BY <1>1, AllWrites, VidFields DEF Tables
<1> HIDE DEF W
<1>3. seqs \in Seq(Seq(W)) /\ Len(seqs) = Len(slots)
  <2> DEFINE L == Seq(W)
             n == Len(slots)
  <2>1. \A k \in 1 .. n : seqs[k] \in L
    BY <1>2
  <2>2. n \in Nat
    BY <1>1
  <2> HIDE DEF L, n
  <2>3. seqs \in Seq(L) /\ Len(seqs) = n
    BY <2>1, <2>2 DEF n
  <2> QED
    BY <2>3 DEF L, n
<1> HIDE DEF seqs
<1>4. FlattenSeq(seqs) \in Seq(W)
      /\ StoredIn(FlattenSeq(seqs)) = UNION {StoredIn(seqs[k]) : k \in 1 .. Len(slots)}
  BY <1>3, Flattened, FlattenFields
<1>5. \A i : i \in ToSet(slots) <=> \E k \in 1 .. Len(slots) : i = slots[k]
  <2>1. DOMAIN slots = 1 .. Len(slots)
    OBVIOUS
  <2> QED
    BY <2>1 DEF ToSet
<1>6. UNION {StoredIn(seqs[k]) : k \in 1 .. Len(slots)} = {Vid(i) : i \in ToSet(slots)}
  <2>1. ASSUME NEW k \in 1 .. Len(slots) PROVE StoredIn(seqs[k]) \subseteq {Vid(i) : i \in ToSet(slots)}
    BY <1>2, <1>5
  <2>2. ASSUME NEW i \in ToSet(slots) PROVE Vid(i) \in UNION {StoredIn(seqs[k]) : k \in 1 .. Len(slots)}
    BY <1>2, <1>5
  <2> QED
    BY <2>1, <2>2
<1> QED
  BY <1>4, <1>6 DEF seqs, W

\* Each entry is read and written before the next.
LEMMA EntryLists ==
    ASSUME NEW slots \in Seq(Slots), NEW D, NEW K
    PROVE  LET F == FlattenSeq([k \in 1 .. Len(slots) |->
                        All("read", "vlan_entry", slots[k]) \o All("write", "vlan_entry", slots[k])])
           IN /\ F \in Seq({"read", "write"} \X ConfigRegs) /\ Sourced(F, K) /\ Ordered(F, D)
              /\ \A i \in ToSet(slots), q \in PhysPorts : Member(i, q) \in StoredIn(F)
<1> DEFINE A == {"read", "write"} \X ConfigRegs
           block(k) == All("read", "vlan_entry", slots[k]) \o All("write", "vlan_entry", slots[k])
           seqs == [k \in 1 .. Len(slots) |-> block(k)]
<1>1. Len(slots) \in Nat /\ \A k \in 1 .. Len(slots) : slots[k] \in Slots
  OBVIOUS
<1>2. ASSUME NEW k \in 1 .. Len(slots)
      PROVE  /\ block(k) \in Seq(A) /\ Sourced(block(k), K) /\ Ordered(block(k), D)
             /\ StoredIn(block(k)) = {Member(slots[k], q) : q \in PhysPorts}
  <2> DEFINE r == All("read", "vlan_entry", slots[k])
             w == All("write", "vlan_entry", slots[k])
             N == NameFields("vlan_entry", slots[k])
  <2>1. /\ r \in Seq({"read"} \X ConfigRegs) /\ ReadIn(r) = N
        /\ w \in Seq({"write"} \X ConfigRegs) /\ StoredIn(w) = N
    <3>1. slots[k] \in SlotsOf("vlan_entry")
      BY <1>1, Names DEF Tables
    <3> QED
      BY <3>1, AllReads, AllWrites DEF Tables
  <2>2. N = {Member(slots[k], q) : q \in PhysPorts}
    BY <1>1, TableNames
  <2> HIDE DEF r, w, N
  <2>3. r \in Seq(A) /\ w \in Seq(A)
    <3>1. \A S, T : S \subseteq T => Seq(S) \subseteq Seq(T)
      OBVIOUS
    <3>2. {"read"} \X ConfigRegs \subseteq A /\ {"write"} \X ConfigRegs \subseteq A
      OBVIOUS
    <3> HIDE DEF A
    <3> QED
      BY <2>1, <3>1, <3>2
  <2>4. Sourced(r \o w, K)
    <3>1. InOrder(r \o w, {}, K)
      BY <2>1, ReadThenWrite
    <3> QED
      BY <3>1 DEF InOrder
  <2>5. Ordered(r \o w, D)
    <3>1. \A n \in 1 .. Len(r) : Reading(r[n]) => \A f \in D \cap FieldsIn[r[n][2]] : Due(w, f)
      <4>1. ReadIn(r) = StoredIn(w)
        BY <2>1
      <4>2. \A f \in StoredIn(w) : Due(w, f)
        BY InLists
      <4>3. \A n \in 1 .. Len(r) : Reading(r[n]) => FieldsIn[r[n][2]] \subseteq ReadIn(r)
        BY DEF ReadIn
      <4> QED
        BY <4>1, <4>2, <4>3
    <3>2. Ordered(w, D)
      BY <2>1, OnlyWritesList
    <3> HIDE DEF A
    <3> QED
      BY <2>3, <3>1, <3>2, JoinOrdered
  <2>6. r \o w \in Seq(A) /\ StoredIn(r \o w) = N
    <3>1. StoredIn(r) = {}
      BY <2>1, OnlyReads
    <3> HIDE DEF A
    <3>2. r \o w \in Seq(A)
      BY <2>3, JoinOf
    <3>3. StoredIn(r \o w) = StoredIn(r) \cup StoredIn(w)
      BY <2>3, JoinFields
    <3> QED
      BY <2>1, <3>1, <3>2, <3>3
  <2> QED
    BY <2>2, <2>4, <2>5, <2>6 DEF r, w
<1> HIDE DEF block, A
<1>3. seqs \in Seq(Seq(A)) /\ Len(seqs) = Len(slots)
  <2> DEFINE L == Seq(A)
             n == Len(slots)
  <2>1. \A k \in 1 .. n : seqs[k] \in L
    BY <1>2
  <2>2. n \in Nat
    BY <1>1
  <2> HIDE DEF L, n
  <2>3. seqs \in Seq(L) /\ Len(seqs) = n
    BY <2>1, <2>2 DEF n
  <2> QED
    BY <2>3 DEF L, n
<1>4. \A k \in 1 .. Len(slots) : seqs[k] = block(k)
  OBVIOUS
<1> HIDE DEF seqs
<1>5. Sourced(FlattenSeq(seqs), K) /\ Ordered(FlattenSeq(seqs), D)
  BY <1>2, <1>3, <1>4, FlattenOrder
<1>6. FlattenSeq(seqs) \in Seq(A)
      /\ StoredIn(FlattenSeq(seqs)) = UNION {StoredIn(seqs[k]) : k \in 1 .. Len(slots)}
  BY <1>3, Flattened, FlattenFields
<1>7. \A i : i \in ToSet(slots) <=> \E k \in 1 .. Len(slots) : i = slots[k]
  <2>1. DOMAIN slots = 1 .. Len(slots)
    OBVIOUS
  <2> QED
    BY <2>1 DEF ToSet
<1>8. ASSUME NEW i \in ToSet(slots), NEW q \in PhysPorts
      PROVE  Member(i, q) \in UNION {StoredIn(seqs[k]) : k \in 1 .. Len(slots)}
  <2>1. PICK k \in 1 .. Len(slots) : i = slots[k]
    BY <1>7
  <2>2. Member(i, q) \in StoredIn(seqs[k])
    BY <1>2, <1>4, <2>1
  <2> QED
    BY <2>2
<1>10. /\ FlattenSeq(seqs) \in Seq(A) /\ Sourced(FlattenSeq(seqs), K) /\ Ordered(FlattenSeq(seqs), D)
       /\ \A i \in ToSet(slots), q \in PhysPorts : Member(i, q) \in StoredIn(FlattenSeq(seqs))
  BY <1>5, <1>6, <1>8
<1> DEFINE F == FlattenSeq([k \in 1 .. Len(slots) |->
                        All("read", "vlan_entry", slots[k]) \o All("write", "vlan_entry", slots[k])])
<1>11. F = FlattenSeq(seqs)
  BY DEF seqs, block
<1> HIDE DEF F
<1>12. /\ F \in Seq({"read", "write"} \X ConfigRegs) /\ Sourced(F, K) /\ Ordered(F, D)
       /\ \A i \in ToSet(slots), q \in PhysPorts : Member(i, q) \in StoredIn(F)
  BY <1>10, <1>11 DEF A
<1> QED
  BY <1>12 DEF F

LEMMA FlagNames ==
    /\ \A name \in {"rrcp_config", "authkey", "alt_config", "alt_igmp_snooping", "vlan", "qos_config",
                    "port_config_global"} : name \in Plain \cap DOMAIN FlagRegs
    /\ FlagRegs["rrcp_config"] = {"rrcp_disable", "echo_disable", "loop_enable"}
    /\ FlagRegs["authkey"] = {"authkey"}
    /\ FlagRegs["alt_config"] = {"mac_aging_disable", "mac_aging_fast", "stp_filter", "mac_drop_unknown"}
    /\ FlagRegs["alt_igmp_snooping"] = {"en_igmp_snooping"}
    /\ FlagRegs["vlan"] = {"enable", "unicast_leaky", "arp_leaky", "multicast_leaky", "dot1q",
                           "drop_untagged_frames", "ingress_filtering"}
    /\ FlagRegs["qos_config"] = {"dscp_enable", "cos_enable", "flow_ondemand_disable", "wrr_ratio"}
    /\ FlagRegs["port_config_global"] =
          {"flow_dot3x_disable", "flow_backpressure_disable", "broadcast_strict", "multicast_strict",
           "broadcast_disable"}
BY DEF Plain, FlagRegs

\* An edit of flags of one register.
LEMMA GoodFlags ==
    ASSUME NEW name \in Plain \cap DOMAIN FlagRegs, NEW set \in SUBSET FlagRegs[name],
           NEW more \in SUBSET FlagRegs[name], NEW v \in Nat, NEW w \in Nat, NEW K
    PROVE  /\ GoodJob(EditFlags(name, Flags(set, v)), K)
           /\ GoodJob(EditFlags(name, Flags(set, v) ++ Flags(more, w)), K)
           /\ name # "authkey" => GoodJob(Set(name, Flags(set, v)), CliFields)
           /\ name # "authkey" => GoodJob(Set(name, Flags(set, v) ++ Flags(more, w)), CliFields)
<1> DEFINE e == Flags(set, v)
           g == Flags(more, w)
<1>1. /\ IsEdit(e) /\ DOMAIN e \subseteq NameFields(name, 0)
      /\ IsEdit(g) /\ DOMAIN g \subseteq NameFields(name, 0)
  BY FlagEdits
<1> HIDE DEF e, g
<1>2. IsEdit(e ++ g) /\ DOMAIN (e ++ g) \subseteq NameFields(name, 0)
  BY <1>1, OverEdits
<1>3. /\ GoodJob(EditFlags(name, e), K) /\ GoodJob(EditFlags(name, e ++ g), K)
      /\ name # "authkey" => GoodJob(Set(name, e), CliFields) /\ GoodJob(Set(name, e ++ g), CliFields)
  BY <1>1, <1>2, GoodName
<1> QED
  BY <1>3 DEF e, g

LEMMA GoodVlanTable ==
    ASSUME NEW ports \in SUBSET PhysPorts, NEW slots \in Seq(Slots), NEW val, NEW K
    PROVE  GoodJob(do_vlan_table_config(ports, slots, val), K)
<1> DEFINE F == FlattenSeq([k \in 1 .. Len(slots) |->
                        All("read", "vlan_entry", slots[k]) \o All("write", "vlan_entry", slots[k])])
           e == [f \in {Member(i, q) : i \in ToSet(slots), q \in ports} |-> IF val # 0 THEN 0 ELSE 1]
           D == DOMAIN e
           A == {"read", "write"} \X ConfigRegs
           r == Reads("vlan")
<1>0. \A d, k : /\ F \in Seq(A) /\ Sourced(F, k) /\ Ordered(F, d)
                /\ \A i \in ToSet(slots), q \in PhysPorts : Member(i, q) \in StoredIn(F)
  BY EntryLists, Zenon
<1>1. F \in Seq(A) /\ Sourced(F, D \cup K) /\ Ordered(F, D)
      /\ \A i \in ToSet(slots), q \in PhysPorts : Member(i, q) \in StoredIn(F)
  <2> HIDE DEF F, e, A
  <2> QED
    BY <1>0
<1>2. ToSet(slots) \subseteq Slots
  BY DEF ToSet
<1>3. \A f \in D : \E i \in ToSet(slots), q \in ports : f = Member(i, q)
  OBVIOUS
<1>4. \A f \in D : e[f] \in Nat
  OBVIOUS
<1>5. IsEdit(e) /\ D \subseteq StoredIn(F)
  <2> HIDE DEF e, F
  <2>1. ASSUME NEW f \in D PROVE f \in Field /\ e[f] \in Legal(f) /\ f \in StoredIn(F)
    <3>1. PICK i \in ToSet(slots), q \in ports : f = Member(i, q)
      BY <1>3
    <3>2. i \in Slots /\ q \in PhysPorts
      BY <1>2
    <3>3. f \in TableFields
      BY <3>1, <3>2, TableNames
    <3>4. f \in Field /\ Legal(f) = Nat
      BY <3>1, <3>3, TableNames
    <3> QED
      BY <1>1, <1>4, <3>1, <3>2, <3>4
  <2> QED
    BY <2>1 DEF IsEdit
<1>6. r \in Seq({"read"} \X ConfigRegs) /\ ReadIn(r) = NameFields("vlan", 0)
  <2>1. "vlan" \in Plain
    BY DEF Plain
  <2> QED
    BY <2>1, PlainFields
<1> HIDE DEF F, e, r, A
<1>7. r \in Seq(A) /\ F \in Seq(Commands) /\ r \in Seq(Commands)
  <2>1. \A S, T : S \subseteq T => Seq(S) \subseteq Seq(T)
    OBVIOUS
  <2>2. {"read"} \X ConfigRegs \subseteq A /\ A \subseteq Commands
    BY DEF A, Commands
  <2> QED
    BY <1>1, <1>6, <2>1, <2>2
<1>8. Sourced(r \o F, D \cup K)
  <2>1. Sourced(r, D \cup K)
    BY <1>6, OnlyReads
  <2>2. Sourced(F, (D \cup K) \cup ReadIn(r))
    BY <1>1 DEF Sourced
  <2> QED
    BY <1>1, <1>7, <2>1, <2>2, JoinSourced
<1>9. Ordered(r \o F, D)
  <2>1. \A f \in D : f \notin ReadIn(r)
    <3>1. NameFields("vlan", 0) = {Flag(n) : n \in FlagRegs["vlan"]}
      BY FlagFields, FlagNames
    <3>2. "vlan_entry" \notin FlagRegs["vlan"]
      BY FlagNames
    <3>3. \A f \in D : f[1] = "vlan_entry"
      BY <1>3 DEF Member
    <3>4. \A n : Flag(n)[1] = n
      BY DEF Flag
    <3> QED
      BY <1>6, <3>1, <3>2, <3>3, <3>4
  <2>2. \A n \in 1 .. Len(r) : Reading(r[n]) => FieldsIn[r[n][2]] \subseteq ReadIn(r)
    BY DEF ReadIn
  <2>3. \A n \in 1 .. Len(r) : Reading(r[n]) =>
               \A f \in D \cap FieldsIn[r[n][2]] :
                  \/ Due(F, f)
                  \/ \E m \in n + 1 .. Len(r) : Storing(r[m]) /\ f \in FieldsIn[r[m][2]]
    BY <2>1, <2>2
  <2> QED
    BY <1>1, <1>7, <2>3, JoinOrdered
<1>10. Fresh(r \o F)
  <2>1. r \o F \in Seq(A)
    BY <1>1, <1>7, JoinOf
  <2> QED
    BY <2>1, NeverCompares DEF A
<1>11. D \subseteq StoredIn(r \o F)
  BY <1>1, <1>5, <1>7, JoinFields
<1>12. r \o F \in Seq(Commands)
  BY <1>7, Widened
<1>13. GoodJob(Job(r \o F, e), K)
  BY <1>5, <1>8, <1>9, <1>10, <1>11, <1>12 DEF GoodJob, InOrder, Job
<1> QED
  BY <1>13 DEF do_vlan_table_config, r, F, e

LEMMA GoodVlanIndex ==
    ASSUME NEW slots \in Seq(Slots), NEW vid \in Nat, NEW K
    PROVE  GoodJob(do_vlan_index_config(slots, vid), K)
<1> DEFINE F == FlattenSeq([k \in 1 .. Len(slots) |-> All("write", "vlan_vid", slots[k])])
           e == [f \in {Vid(i) : i \in ToSet(slots)} |-> vid]
           r == Reads("vlan")
<1>1. F \in Seq({"write"} \X ConfigRegs) /\ StoredIn(F) = {Vid(i) : i \in ToSet(slots)}
  BY IndexWrites
<1>2. ToSet(slots) \subseteq Slots
  BY DEF ToSet
<1>3. r \in Seq({"read"} \X ConfigRegs)
  <2>1. "vlan" \in Plain
    BY DEF Plain
  <2> QED
    BY <2>1, PlainFields
<1>4. \A i \in ToSet(slots) : Vid(i) \in Field /\ Legal(Vid(i)) = Nat
  BY <1>2, TableNames
<1>5. IsEdit(e)
  BY <1>4 DEF IsEdit
<1>6. DOMAIN e = StoredIn(F)
  BY <1>1
<1> HIDE DEF F, e, r
<1>7. GoodJob(Job(r \o F, e), K)
  BY <1>1, <1>3, <1>5, <1>6, GoodReadWrite
<1> QED
  BY <1>7 DEF do_vlan_index_config, r, F, e

\* The commands that write the whole table.
WholeFields ==
    NameFields("port_vlan", 0) \cup NameFields("output_tag", 0) \cup TableFields
        \cup NameFields("insert_vid", 0)

LEMMA WholeOps ==
    ASSUME NEW bit, NEW clear
    PROVE  LET ops == do_vlan_enable_vlan(bit, clear).ops
           IN ops \in Seq({"write"} \X ConfigRegs) /\ StoredIn(ops) = WholeFields
<1> DEFINE W == {"write"} \X ConfigRegs
           F == FlattenSeq([k \in 1 .. NumSlots |->
                   All("write", "vlan_entry", k - 1) \o All("write", "vlan_vid", k - 1)])
           a == Writes("port_vlan")
           b == Writes("output_tag")
           c == Writes("insert_vid")
<1>1. F \in Seq(W) /\ StoredIn(F) = TableFields
  BY WholeTableWrites, Zenon
<1>2. /\ a \in Seq(W) /\ StoredIn(a) = NameFields("port_vlan", 0)
      /\ b \in Seq(W) /\ StoredIn(b) = NameFields("output_tag", 0)
      /\ c \in Seq(W) /\ StoredIn(c) = NameFields("insert_vid", 0)
  <2>1. {"port_vlan", "output_tag", "insert_vid"} \subseteq Plain
    BY DEF Plain
  <2> QED
    BY <2>1, PlainFields
<1> HIDE DEF F, a, b, c
<1>3. \A s, t \in Seq(W) : s \o t \in Seq(W) /\ StoredIn(s \o t) = StoredIn(s) \cup StoredIn(t)
  <2> HIDE DEF W
  <2> QED
    BY JoinOf, JoinFields
<1> HIDE DEF W
<1>4. a \o b \in Seq(W) /\ StoredIn(a \o b) = StoredIn(a) \cup StoredIn(b)
  BY <1>2, <1>3
<1>5. a \o b \o F \in Seq(W) /\ StoredIn(a \o b \o F) = StoredIn(a) \cup StoredIn(b) \cup StoredIn(F)
  BY <1>1, <1>3, <1>4
<1>6. a \o b \o F \o c \in Seq(W)
      /\ StoredIn(a \o b \o F \o c) = StoredIn(a) \cup StoredIn(b) \cup StoredIn(F) \cup StoredIn(c)
  BY <1>2, <1>3, <1>5
<1>7. do_vlan_enable_vlan(bit, clear).ops = a \o b \o F \o c
  BY DEF do_vlan_enable_vlan, Job, a, b, F, c
<1>8. StoredIn(a \o b \o F \o c) = WholeFields
  BY <1>1, <1>2, <1>6 DEF WholeFields
<1> QED
  BY <1>6, <1>7, <1>8 DEF W

LEMMA WholeEdit ==
    ASSUME NEW bit \in Nat, NEW clear
    PROVE  LET edits == do_vlan_enable_vlan(bit, clear).edit
           IN IsEdit(edits) /\ DOMAIN edits = WholeFields /\ <<>> ++ edits = edits
<1> DEFINE a == [f \in {Port("port_vlan", q) : q \in PhysPorts} |-> IF clear THEN 0 ELSE f[3]]
           b == PortsTo("output_tag", PhysPorts, 3)
           c == [f \in {Member(i, q) : i \in Slots, q \in PhysPorts} |->
                    IF f[3] \in TableMembers(f[2], clear) THEN 1 ELSE 0]
           d == [f \in {Vid(i) : i \in Slots} |-> IF clear /\ f[2] = 0 THEN bit ELSE 0]
           e == PortsTo("insert_vid", PhysPorts, 0)
<1>1. {"port_vlan", "output_tag", "insert_vid"} \subseteq Numbered
  BY DEF Numbered
<1>2. \A name \in Numbered : NameFields(name, 0) = {Port(name, q) : q \in PhysPorts}
                              /\ NameFields(name, 0) \subseteq Field
  <2> SUFFICES ASSUME NEW name \in Numbered
               PROVE  NameFields(name, 0) = {Port(name, q) : q \in PhysPorts}
                      /\ NameFields(name, 0) \subseteq Field
    OBVIOUS
  <2>1. name \in Plain \cap DOMAIN PortRegs /\ PortRegs[name].fields = {name}
    BY PortNames
  <2>2. 0 \in SlotsOf(name)
    BY <2>1, Names DEF Plain
  <2>3. NameFields(name, 0) = {name} \X {0} \X PhysPorts
    BY <2>1, <2>2, PortFields
  <2>4. {name} \X {0} \X PhysPorts = {Port(name, q) : q \in PhysPorts}
    BY DEF Port
  <2> QED
    BY <2>1, <2>3, <2>4, Fields
<1>3. IsEdit(a) /\ DOMAIN a = NameFields("port_vlan", 0)
  <2>1. DOMAIN a = NameFields("port_vlan", 0)
    BY <1>1, <1>2
  <2>2. \A f \in DOMAIN a : a[f] \in Legal(f)
    <3>1. \A q \in PhysPorts : q \in Nat /\ Port("port_vlan", q)[3] = q
      BY SwitchRegsAssumption DEF PhysPorts, Port
    <3>2. \A q \in PhysPorts : a[Port("port_vlan", q)] \in Nat
      BY <3>1
    <3> HIDE DEF a
    <3>3. \A q : Legal(Port("port_vlan", q)) = Nat
      BY <1>1, PortNames
    <3> QED
      BY <1>1, <1>2, <2>1, <3>2, <3>3
  <2> HIDE DEF a
  <2> QED
    BY <1>1, <1>2, <2>1, <2>2 DEF IsEdit
<1>4. /\ IsEdit(b) /\ DOMAIN b = NameFields("output_tag", 0)
      /\ IsEdit(e) /\ DOMAIN e = NameFields("insert_vid", 0)
  BY <1>1, <1>2, GoodNumbers
<1>5. IsEdit(c) /\ DOMAIN c = {Member(i, q) : i \in Slots, q \in PhysPorts}
  <2>1. DOMAIN c = {Member(i, q) : i \in Slots, q \in PhysPorts}
    OBVIOUS
  <2>2. \A f \in DOMAIN c : c[f] \in Nat
    OBVIOUS
  <2> HIDE DEF c
  <2>3. \A f \in DOMAIN c : f \in Field /\ Legal(f) = Nat
    BY <2>1, TableNames
  <2> QED
    BY <2>1, <2>2, <2>3 DEF IsEdit
<1>6. IsEdit(d) /\ DOMAIN d = {Vid(i) : i \in Slots}
  <2>1. DOMAIN d = {Vid(i) : i \in Slots}
    OBVIOUS
  <2>2. \A f \in DOMAIN d : d[f] \in Nat
    OBVIOUS
  <2> HIDE DEF d
  <2>3. \A f \in DOMAIN d : f \in Field /\ Legal(f) = Nat
    BY <2>1, TableNames
  <2> QED
    BY <2>1, <2>2, <2>3 DEF IsEdit
<1>7. do_vlan_enable_vlan(bit, clear).edit = a ++ b ++ c ++ d ++ e
  BY DEF do_vlan_enable_vlan, Job
<1> HIDE DEF a, b, c, d, e
<1>8. IsEdit(a ++ b) /\ DOMAIN (a ++ b) = DOMAIN a \cup DOMAIN b
  BY <1>3, <1>4, OverEdits
<1>9. IsEdit(a ++ b ++ c) /\ DOMAIN (a ++ b ++ c) = DOMAIN a \cup DOMAIN b \cup DOMAIN c
  BY <1>5, <1>8, OverEdits
<1>10. IsEdit(a ++ b ++ c ++ d)
       /\ DOMAIN (a ++ b ++ c ++ d) = DOMAIN a \cup DOMAIN b \cup DOMAIN c \cup DOMAIN d
  BY <1>6, <1>9, OverEdits
<1>11. IsEdit(a ++ b ++ c ++ d ++ e)
       /\ DOMAIN (a ++ b ++ c ++ d ++ e) = DOMAIN a \cup DOMAIN b \cup DOMAIN c \cup DOMAIN d \cup DOMAIN e
  BY <1>4, <1>10, OverEdits
<1>12. DOMAIN (a ++ b ++ c ++ d ++ e) = WholeFields
  BY <1>3, <1>4, <1>5, <1>6, <1>11, TableNames DEF WholeFields
<1>13. <<>> ++ (a ++ b ++ c ++ d ++ e) = a ++ b ++ c ++ d ++ e
  <2>1. DOMAIN <<>> = {}
    OBVIOUS
  <2>2. \A x, y : <<>> ++ (x ++ y) = x ++ y
    BY <2>1 DEF ++
  <2> QED
    BY <2>2
<1> QED
  BY <1>7, <1>11, <1>12, <1>13

\* Clearing reads the mode before it writes the first number.
LEMMA GoodTemplate ==
    ASSUME NEW mode \in {0, 1, 2}, NEW dot1q \in Nat, NEW K
    PROVE  LET job == do_vlan_tmpl(mode, dot1q)
           IN /\ GoodJob(job, K)
              /\ mode = 0 => /\ ClearOrder(job.ops)
                             /\ \E n \in 1 .. Len(job.ops) : Reading(job.ops[n])
                             /\ job.edit = do_vlan_enable_vlan(dot1q, TRUE).edit
<1> DEFINE r == Reads("vlan")
           v == Writes("vlan")
           first == do_vlan(mode)
           bit == IF mode # 0 THEN mode - 1 ELSE dot1q
           table == do_vlan_enable_vlan(bit, mode = 0)
           w == table.ops
           e == table.edit
<1>1. bit \in Nat
  OBVIOUS
<1>2. w \in Seq({"write"} \X ConfigRegs) /\ StoredIn(w) = WholeFields
  <2> HIDE DEF bit
  <2> QED
    BY WholeOps
<1>3. IsEdit(e) /\ DOMAIN e = WholeFields /\ <<>> ++ e = e
  <2> HIDE DEF bit
  <2> QED
    BY <1>1, WholeEdit
<1>4. /\ r \in Seq({"read"} \X ConfigRegs) /\ ReadIn(r) = NameFields("vlan", 0)
      /\ v \in Seq({"write"} \X ConfigRegs) /\ StoredIn(v) = NameFields("vlan", 0)
  <2>1. "vlan" \in Plain
    BY DEF Plain
  <2> QED
    BY <2>1, PlainFields
<1>5. do_vlan_tmpl(mode, dot1q) = IF mode # 0 THEN Job(first.ops \o w, first.edit ++ e)
                                   ELSE Job(r \o w, <<>> ++ e)
  BY DEF do_vlan_tmpl, Job
<1> HIDE DEF w, e, table
<1>6. CASE mode # 0
  <2> DEFINE g == Flags({"enable"}, IF mode \in {1, 2} THEN 1 ELSE 0)
                      ++ Flags({"dot1q"}, IF mode = 2 THEN 1 ELSE 0)
  <2>1. first = Job(r \o v, g)
    BY DEF do_vlan, EditFlags, ReadWrite
  <2>2. IsEdit(g) /\ DOMAIN g \subseteq NameFields("vlan", 0)
    <3>1. "vlan" \in Plain \cap DOMAIN FlagRegs /\ {"enable", "dot1q"} \subseteq FlagRegs["vlan"]
      BY FlagNames
    <3>2. \A set \in SUBSET FlagRegs["vlan"] : \A n \in {0, 1} :
             IsEdit(Flags(set, n)) /\ DOMAIN Flags(set, n) \subseteq NameFields("vlan", 0)
      BY <3>1, FlagEdits
    <3>3. \A n, m \in {0, 1} : /\ IsEdit(Flags({"enable"}, n) ++ Flags({"dot1q"}, m))
                              /\ DOMAIN (Flags({"enable"}, n) ++ Flags({"dot1q"}, m))
                                    \subseteq NameFields("vlan", 0)
      <4> SUFFICES ASSUME NEW n \in {0, 1}, NEW m \in {0, 1}
                   PROVE  /\ IsEdit(Flags({"enable"}, n) ++ Flags({"dot1q"}, m))
                          /\ DOMAIN (Flags({"enable"}, n) ++ Flags({"dot1q"}, m))
                                \subseteq NameFields("vlan", 0)
        OBVIOUS
      <4> DEFINE x == Flags({"enable"}, n)
                 y == Flags({"dot1q"}, m)
      <4>1. /\ IsEdit(x) /\ DOMAIN x \subseteq NameFields("vlan", 0)
            /\ IsEdit(y) /\ DOMAIN y \subseteq NameFields("vlan", 0)
        BY <3>1, <3>2
      <4> HIDE DEF x, y
      <4>2. IsEdit(x ++ y) /\ DOMAIN (x ++ y) \subseteq NameFields("vlan", 0)
        BY <4>1, OverEdits
      <4> QED
        BY <4>2 DEF x, y
    <3> QED
      BY <3>3
  <2> HIDE DEF g
  <2>3. IsEdit(g ++ e) /\ DOMAIN (g ++ e) = DOMAIN g \cup WholeFields
    BY <1>3, <2>2, OverEdits
  <2>4. v \o w \in Seq({"write"} \X ConfigRegs)
        /\ StoredIn(v \o w) = NameFields("vlan", 0) \cup WholeFields
    BY <1>2, <1>4, Widened, JoinFields
  <2>5. (r \o v) \o w = r \o (v \o w)
    BY <1>2, <1>4, Widened
  <2> HIDE DEF r, v
  <2>6. GoodJob(Job(r \o (v \o w), g ++ e), K)
    BY <1>4, <2>2, <2>3, <2>4, GoodReadWrite
  <2>7. do_vlan_tmpl(mode, dot1q) = Job((r \o v) \o w, g ++ e)
    BY <1>5, <1>6, <2>1 DEF Job
  <2> QED
    BY <1>6, <2>5, <2>6, <2>7
<1>7. CASE mode = 0
  <2>2. GoodJob(Job(r \o w, e), K)
    BY <1>2, <1>3, <1>4, GoodReadWrite
  <2>3. r = <<<<"read", <<"vlan", 0, 0>>>>>>
    <3>1. Parts("vlan") = 1
      BY FlagNames, FlagFields
    <3> QED
      BY <3>1 DEF Reads, All
  <2>4. Len(r) = 1 /\ r[1] = <<"read", <<"vlan", 0, 0>>>>
    BY <2>3
  <2>5. Vid(0) \in StoredIn(w)
    <3>1. 0 \in Slots
      BY SwitchRegsAssumption DEF Slots
    <3> QED
      BY <1>2, <3>1, TableNames DEF WholeFields
  <2> DEFINE s == r \o w
  <2>6. r \in Seq(Commands) /\ w \in Seq(Commands)
    BY <1>2, <1>4, Widened
  <2> HIDE DEF r
  <2>7. /\ Len(s) = 1 + Len(w) /\ Len(w) \in Nat /\ s[1] = <<"read", <<"vlan", 0, 0>>>>
        /\ \A m \in 1 .. Len(w) : m + 1 \in 1 .. Len(s) /\ s[m + 1] = w[m]
        /\ \A n \in 1 .. Len(s) : n # 1 => n - 1 \in 1 .. Len(w) /\ s[n] = w[n - 1]
    <3>1. /\ Len(s) = Len(r) + Len(w) /\ Len(w) \in Nat
          /\ \A n \in 1 .. Len(r) : s[n] = r[n]
          /\ \A m \in 1 .. Len(w) : m + Len(r) \in 1 .. Len(s) /\ s[m + Len(r)] = w[m]
          /\ \A n \in 1 .. Len(s) :
                n \notin 1 .. Len(r) => n - Len(r) \in 1 .. Len(w) /\ s[n] = w[n - Len(r)]
      BY <2>6, JoinOf
    <3> HIDE DEF s
    <3> QED
      BY <2>4, <3>1
  <2>8. \A n \in 1 .. Len(w) : ~Reading(w[n])
    BY <1>2 DEF Reading
  <2>9. \E m \in 2 .. Len(s) : Storing(s[m]) /\ Vid(0) \in FieldsIn[s[m][2]]
    <3>1. PICK m \in 1 .. Len(w) : Storing(w[m]) /\ Vid(0) \in FieldsIn[w[m][2]]
      BY <2>5, InLists DEF Due
    <3> HIDE DEF s
    <3>2. m + 1 \in 2 .. Len(s) /\ s[m + 1] = w[m]
      BY <2>7
    <3> QED
      BY <3>1, <3>2
  <2> HIDE DEF s
  <2>10. ClearOrder(s)
    <3>1. \A n \in 1 .. Len(s) : Reading(s[n]) => n = 1
      BY <2>7, <2>8
    <3>2. 1 + 1 = 2 /\ s[1][2] = <<"vlan", 0, 0>>
      BY <2>7
    <3> QED
      BY <2>9, <3>1, <3>2 DEF ClearOrder
  <2>11. \E n \in 1 .. Len(s) : Reading(s[n])
    BY <2>7 DEF Reading
  <2>12. do_vlan_tmpl(mode, dot1q) = Job(s, e)
    BY <1>3, <1>5, <1>7 DEF s
  <2>13. e = do_vlan_enable_vlan(dot1q, TRUE).edit
    BY <1>7 DEF e, table
  <2> QED
    BY <2>2, <2>10, <2>11, <2>12, <2>13 DEF s, Job
<1> QED
  BY <1>6, <1>7

LEMMA GoodVlanJobs ==
    ASSUME NEW c, IsRtl83xx(c), c.word \in VlanWords, NEW K
    PROVE  /\ GoodJob(VlanJob(c, 0), K)
           /\ c.word = "vlan clear" => /\ ClearOrder(VlanJob(c, 0).ops)
                                       /\ \E n \in 1 .. Len(VlanJob(c, 0).ops) : Reading(VlanJob(c, 0).ops[n])
                                       /\ VlanJob(c, 0).edit = do_vlan_enable_vlan(0, TRUE).edit
<1> DEFINE ports == {Phys[l] : l \in c.ports}
<1>1. ports \in SUBSET PhysPorts /\ c.slots \in Seq(Slots) /\ c.num \in Nat
  BY PortsOf DEF IsRtl83xx
<1> HIDE DEF ports
<1>2. c.arg \in ArgsOf(c.no, c.word) /\ On(c) \in Nat
  BY DEF IsRtl83xx, On
<1>3. "vlan" \in Plain \cap DOMAIN FlagRegs
  BY FlagNames
<1>4. ASSUME NEW mode PROVE GoodJob(do_vlan(mode), K)
  <2>1. {"enable"} \in SUBSET FlagRegs["vlan"] /\ {"dot1q"} \in SUBSET FlagRegs["vlan"]
    BY FlagNames
  <2>2. \A v, w \in Nat : GoodJob(EditFlags("vlan", Flags({"enable"}, v) ++ Flags({"dot1q"}, w)), K)
    BY <1>3, <2>1, GoodFlags
  <2>3. (IF mode \in {1, 2} THEN 1 ELSE 0) \in Nat /\ (IF mode = 2 THEN 1 ELSE 0) \in Nat
    OBVIOUS
  <2> QED
    BY <2>2, <2>3 DEF do_vlan
<1>5. \A set \in SUBSET FlagRegs["vlan"] : \A v \in Nat : GoodJob(EditFlags("vlan", Flags(set, v)), K)
  BY <1>3, GoodFlags
<1>6. CASE c.word \in {"vlan transparent", "vlan mode"}
  BY <1>4, <1>6 DEF VlanJob
<1>7. CASE c.word = "vlan clear"
  <2>1. VlanJob(c, 0) = do_vlan_tmpl(0, 0)
    BY <1>7 DEF VlanJob
  <2>2. 0 \in {0, 1, 2} /\ 0 \in Nat
    OBVIOUS
  <2>3. /\ GoodJob(do_vlan_tmpl(0, 0), K)
        /\ ClearOrder(do_vlan_tmpl(0, 0).ops)
        /\ \E n \in 1 .. Len(do_vlan_tmpl(0, 0).ops) : Reading(do_vlan_tmpl(0, 0).ops[n])
        /\ do_vlan_tmpl(0, 0).edit = do_vlan_enable_vlan(0, TRUE).edit
    BY <2>2, GoodTemplate
  <2> QED
    BY <1>7, <2>1, <2>3
<1>8. CASE c.word = "vlan template-load"
  <2>1. c.arg \in {"portbased", "dot1qtree"}
    BY <1>2, <1>8 DEF ArgsOf
  <2>2. Pos(<<"portbased", "dot1qtree">>, c.arg) + 1 \in {1, 2}
    BY <2>1, Numbers
  <2>3. \A mode \in {1, 2} : GoodJob(do_vlan_tmpl(mode, 0), K)
    BY GoodTemplate
  <2>4. VlanJob(c, 0) = do_vlan_tmpl(Pos(<<"portbased", "dot1qtree">>, c.arg) + 1, 0)
    BY <1>8 DEF VlanJob
  <2> QED
    BY <1>8, <2>2, <2>3, <2>4
<1>9. CASE c.word \in {"vlan add", "vlan delete"}
  BY <1>1, <1>9, GoodVlanTable DEF VlanJob, ports
<1>10. CASE c.word = "vlan index"
  BY <1>1, <1>10, GoodVlanIndex DEF VlanJob
<1>11. CASE c.word = "vlan leaky"
  <2>1. c.arg \in {"arp", "multicast", "unicast"}
    BY <1>2, <1>11 DEF ArgsOf
  <2> DEFINE list == <<"arp_leaky", "multicast_leaky", "unicast_leaky">>
             n == Pos(<<"arp", "multicast", "unicast">>, c.arg) + 1
  <2>2. n \in {1, 2, 3}
    BY <2>1, Numbers
  <2>3. list[1] = "arp_leaky" /\ list[2] = "multicast_leaky" /\ list[3] = "unicast_leaky"
    OBVIOUS
  <2> HIDE DEF list, n
  <2>4. {list[n]} \in SUBSET FlagRegs["vlan"]
    BY <2>2, <2>3, FlagNames
  <2>5. VlanJob(c, 0) = EditFlags("vlan", Flags({list[n]}, On(c)))
    BY <1>11 DEF VlanJob, do_vlan_leaky, list, n
  <2> QED
    BY <1>2, <1>5, <1>11, <2>4, <2>5
<1>12. CASE c.word = "vlan drop"
  <2> DEFINE n == Pos(<<"untagged_frames", "invalid_vid">>, c.arg) + 1
             set == {"ingress_filtering"} \cup (IF n = 1 THEN {"drop_untagged_frames"} ELSE {})
  <2>1. set \in SUBSET FlagRegs["vlan"]
    BY FlagNames
  <2>2. VlanJob(c, 0) = EditFlags("vlan", Flags(set, On(c)))
    BY <1>12 DEF VlanJob, do_vlan_drop
  <2> QED
    BY <1>2, <1>5, <1>12, <2>1, <2>2
<1> QED
  BY <1>6, <1>7, <1>8, <1>9, <1>10, <1>11, <1>12 DEF VlanWords

\* The three maps of the mirror.
LEMMA GoodMirror ==
    ASSUME NEW ports, NEW dest, NEW dir, NEW K
    PROVE  /\ GoodJob(do_port_config_mirror(dir, ports, dest), K)
           /\ GoodJob(do_port_config_mirror(dir, ports, dest), CliFields)
<1> DEFINE W == {"write"} \X ConfigRegs
           Map(name, set) == [f \in {Port(name, q) : q \in PhysPorts} |-> IF f[3] \in set THEN 1 ELSE 0]
           names == {"sniffer", "sniffed_rx", "sniffed_tx"}
<1>1. names \subseteq Numbered
  BY DEF Numbered
<1>2. ASSUME NEW name \in names, NEW set
      PROVE  IsEdit(Map(name, set)) /\ DOMAIN Map(name, set) = NameFields(name, 0)
  <2> DEFINE e == Map(name, set)
  <2>1. name \in Plain \cap DOMAIN PortRegs /\ PortRegs[name].fields = {name}
        /\ \A q : Legal(Port(name, q)) = Nat
    BY <1>1, PortNames
  <2>2. NameFields(name, 0) = {Port(name, q) : q \in PhysPorts}
    <3>1. 0 \in SlotsOf(name)
      BY <2>1, Names DEF Plain
    <3>2. NameFields(name, 0) = {name} \X {0} \X PhysPorts
      BY <2>1, <3>1, PortFields
    <3> QED
      BY <3>2 DEF Port
  <2>3. DOMAIN e = {Port(name, q) : q \in PhysPorts} /\ \A f \in DOMAIN e : e[f] \in Nat
    OBVIOUS
  <2> HIDE DEF e
  <2>4. DOMAIN e \subseteq Field
    BY <2>1, <2>2, <2>3, Fields
  <2>5. IsEdit(e)
    BY <2>1, <2>3, <2>4 DEF IsEdit
  <2> QED
    BY <2>2, <2>3, <2>5 DEF e
<1>3. \A name \in names : Writes(name) \in Seq(W) /\ StoredIn(Writes(name)) = NameFields(name, 0)
  BY <1>1, PortNames, PlainFields
<1> DEFINE s == IF dir < 3 THEN {dest} ELSE {}
           t == IF dir \in {0, 1} THEN ports ELSE {}
           u == IF dir \in {0, 2} THEN ports ELSE {}
           a == Map("sniffer", s)
           b == Map("sniffed_rx", t)
           c == Map("sniffed_tx", u)
           x == Writes("sniffer")
           y == Writes("sniffed_rx")
           z == Writes("sniffed_tx")
<1>4. /\ IsEdit(a) /\ DOMAIN a = NameFields("sniffer", 0)
      /\ IsEdit(b) /\ DOMAIN b = NameFields("sniffed_rx", 0)
      /\ IsEdit(c) /\ DOMAIN c = NameFields("sniffed_tx", 0)
  <2> HIDE DEF Map, s, t, u
  <2> QED
    BY <1>2
<1>5. do_port_config_mirror(dir, ports, dest) = Job(x \o y \o z, a ++ b ++ c)
  BY DEF do_port_config_mirror
<1>6. /\ x \in Seq(W) /\ StoredIn(x) = NameFields("sniffer", 0)
      /\ y \in Seq(W) /\ StoredIn(y) = NameFields("sniffed_rx", 0)
      /\ z \in Seq(W) /\ StoredIn(z) = NameFields("sniffed_tx", 0)
  BY <1>3
<1> HIDE DEF a, b, c, x, y, z, Map
<1>14. \A p, q \in Seq(W) : p \o q \in Seq(W) /\ StoredIn(p \o q) = StoredIn(p) \cup StoredIn(q)
  <2> HIDE DEF W
  <2> QED
    BY JoinOf, JoinFields
<1> HIDE DEF W
<1>7. IsEdit(a ++ b) /\ DOMAIN (a ++ b) = DOMAIN a \cup DOMAIN b
  BY <1>4, OverEdits
<1>8. IsEdit(a ++ b ++ c) /\ DOMAIN (a ++ b ++ c) = DOMAIN a \cup DOMAIN b \cup DOMAIN c
  BY <1>4, <1>7, OverEdits
<1>9. x \o y \in Seq(W) /\ StoredIn(x \o y) = StoredIn(x) \cup StoredIn(y)
  BY <1>6, <1>14
<1>10. x \o y \o z \in Seq(W)
       /\ StoredIn(x \o y \o z) = StoredIn(x) \cup StoredIn(y) \cup StoredIn(z)
  BY <1>6, <1>9, <1>14
<1>11. DOMAIN (a ++ b ++ c) = StoredIn(x \o y \o z)
  BY <1>4, <1>6, <1>8, <1>10
<1> DEFINE e == a ++ b ++ c
           w == x \o y \o z
<1> HIDE DEF e, w
<1>12. w \in Seq({"write"} \X ConfigRegs) /\ IsEdit(e) /\ DOMAIN e = StoredIn(w)
  BY <1>8, <1>10, <1>11 DEF e, w, W
<1>13. \A k : GoodJob(Job(w, e), k)
  BY <1>12, GoodWrites
<1> QED
  BY <1>5, <1>13 DEF e, w

LEMMA GoodKey ==
    ASSUME NEW k \in Nat, NEW K
    PROVE  GoodJob(set_authkey(k), K)
<1>1. "authkey" \in Plain \cap DOMAIN FlagRegs /\ {"authkey"} = FlagRegs["authkey"]
  BY FlagNames
<1>2. /\ Writes("authkey") \in Seq({"write"} \X ConfigRegs)
      /\ StoredIn(Writes("authkey")) = NameFields("authkey", 0)
  BY <1>1, PlainFields
<1>3. IsEdit(Flags({"authkey"}, k))
  BY <1>1, FlagEdits
<1>4. DOMAIN Flags({"authkey"}, k) = NameFields("authkey", 0)
  BY <1>1, FlagFields DEF Flags
<1> DEFINE e == Flags({"authkey"}, k)
           w == Writes("authkey")
<1> HIDE DEF e, w
<1>5. GoodJob(Job(w, e), K)
  BY <1>2, <1>3, <1>4, GoodWrites DEF e, w
<1> QED
  BY <1>5 DEF e, w, set_authkey

LEMMA GoodSwitchJobs ==
    ASSUME NEW c, IsRtl83xx(c), c.word \in SwitchWords, NEW K
    PROVE  GoodJob(SwitchJob(c), K)
<1>1. c.arg \in ArgsOf(c.no, c.word) /\ On(c) \in Nat /\ c.num \in Nat
  BY DEF IsRtl83xx, On
<1>2. \A name \in {"rrcp_config", "alt_config", "alt_igmp_snooping", "qos_config", "port_config_global"} :
         \A set \in SUBSET FlagRegs[name] : \A v \in Nat : GoodJob(EditFlags(name, Flags(set, v)), K)
  <2>1. \A name \in {"rrcp_config", "alt_config", "alt_igmp_snooping", "qos_config", "port_config_global"} :
           name \in Plain \cap DOMAIN FlagRegs
    BY FlagNames
  <2> QED
    BY <2>1, GoodFlags
<1>3. \A name \in {"alt_config", "port_config_global"} :
         \A set, more \in SUBSET FlagRegs[name] : \A v, w \in Nat :
            GoodJob(EditFlags(name, Flags(set, v) ++ Flags(more, w)), K)
  <2>1. \A name \in {"alt_config", "port_config_global"} : name \in Plain \cap DOMAIN FlagRegs
    BY FlagNames
  <2> QED
    BY <2>1, GoodFlags
<1>4. (Pos(ena_disa, c.arg) \in Nat /\ Not(Pos(ena_disa, c.arg)) \in Nat)
      \/ c.word \notin {"rrcp echo", "rrcp loop-detect"}
  <2>1. c.word \in {"rrcp echo", "rrcp loop-detect"} => c.arg \in {"disable", "enable"}
    BY <1>1 DEF ArgsOf
  <2>2. Pos(ena_disa, "disable") \in {0, 1} /\ Pos(ena_disa, "enable") \in {0, 1}
    BY Numbers
  <2>3. \A n \in {0, 1} : n \in Nat /\ Not(n) \in Nat
    BY DEF Not
  <2>4. c.word \in {"rrcp echo", "rrcp loop-detect"} => Pos(ena_disa, c.arg) \in {0, 1}
    BY <2>1, <2>2
  <2> QED
    BY <2>3, <2>4
<1>5. CASE c.word \in {"rrcp disable", "rrcp enable", "rrcp echo", "rrcp loop-detect"}
  <2>1. /\ {"rrcp_disable"} \in SUBSET FlagRegs["rrcp_config"]
        /\ {"echo_disable"} \in SUBSET FlagRegs["rrcp_config"]
        /\ {"loop_enable"} \in SUBSET FlagRegs["rrcp_config"]
    BY FlagNames
  <2>2. \A v \in Nat : /\ GoodJob(EditFlags("rrcp_config", Flags({"rrcp_disable"}, v)), K)
                       /\ GoodJob(EditFlags("rrcp_config", Flags({"echo_disable"}, v)), K)
                       /\ GoodJob(EditFlags("rrcp_config", Flags({"loop_enable"}, v)), K)
    BY <1>2, <2>1
  <2>3. \A v \in Nat : /\ GoodJob(do_rrcp_ctrl(v), K) /\ GoodJob(do_rrcp_echo(v), K)
                       /\ GoodJob(do_loopdetect(v), K)
    BY <2>2 DEF do_rrcp_ctrl, do_rrcp_echo, do_loopdetect
  <2> QED
    BY <1>4, <1>5, <2>3 DEF SwitchJob
<1>6. CASE c.word = "rrcp authkey"
  BY <1>1, <1>6, GoodKey DEF SwitchJob
<1>7. CASE c.word \in {"mac-address-table aging-time", "mac-address-table unknown-destination"}
  <2>1. /\ {"mac_drop_unknown"} \in SUBSET FlagRegs["alt_config"]
        /\ {"mac_aging_disable"} \in SUBSET FlagRegs["alt_config"]
        /\ {"mac_aging_fast"} \in SUBSET FlagRegs["alt_config"]
    BY FlagNames
  <2>2. \A v, w \in Nat : /\ GoodJob(EditFlags("alt_config", Flags({"mac_drop_unknown"}, v)), K)
                          /\ GoodJob(EditFlags("alt_config", Flags({"mac_aging_disable"}, v)
                                                                ++ Flags({"mac_aging_fast"}, w)), K)
    BY <1>2, <1>3, <2>1
  <2>3. ASSUME NEW mode \in Nat PROVE GoodJob(do_alt_config(mode), K)
    <3>1. /\ (IF mode = 4 THEN 1 ELSE 0) \in Nat /\ (IF mode = 1 THEN 1 ELSE 0) \in Nat
          /\ (IF mode = 2 THEN 1 ELSE 0) \in Nat
      OBVIOUS
    <3>2. CASE mode > 3
      BY <2>2, <3>1, <3>2 DEF do_alt_config, EditFlags, Job
    <3>3. CASE ~(mode > 3)
      BY <2>2, <3>1, <3>3 DEF do_alt_config, EditFlags, Job
    <3> QED
      BY <3>2, <3>3
  <2>4. CASE c.word = "mac-address-table aging-time"
    <3>1. c.arg \in {"0", "12", "300"}
      BY <1>1, <2>4 DEF ArgsOf
    <3>2. Pos(<<"0", "12", "300">>, c.arg) + 1 \in Nat
      BY <3>1, Numbers
    <3> QED
      BY <2>3, <2>4, <3>2 DEF SwitchJob
  <2>5. CASE c.word = "mac-address-table unknown-destination"
    <3>1. c.arg \in {"drop", "pass"}
      BY <1>1, <2>5 DEF ArgsOf
    <3>2. Pos(<<"drop", "pass">>, c.arg) + 4 \in Nat
      BY <3>1, Numbers
    <3> QED
      BY <2>3, <2>5, <3>2 DEF SwitchJob
  <2> QED
    BY <1>7, <2>4, <2>5
<1>8. CASE c.word = "flowcontrol"
  <2>1. c.arg \in {"dot3x", "backpressure", "ondemand-disable"}
    BY <1>1, <1>8 DEF ArgsOf
  <2>2. c.arg2 \in {"enable", "disable"}
    BY <1>8 DEF IsRtl83xx
  <2>3. /\ {"flow_dot3x_disable"} \in SUBSET FlagRegs["port_config_global"]
        /\ {"flow_backpressure_disable"} \in SUBSET FlagRegs["port_config_global"]
        /\ {"flow_ondemand_disable"} \in SUBSET FlagRegs["qos_config"]
    BY FlagNames
  <2>4. \A v \in Nat :
           /\ GoodJob(EditFlags("port_config_global", Flags({"flow_dot3x_disable"}, v)), K)
           /\ GoodJob(EditFlags("port_config_global", Flags({"flow_backpressure_disable"}, v)), K)
           /\ GoodJob(EditFlags("qos_config", Flags({"flow_ondemand_disable"}, v)), K)
    BY <1>2, <2>3
  <2>5. \A mode \in {0, 1, 2} : \A state \in {0, 1} : GoodJob(do_glob_flowctrl(mode, state), K)
    BY <2>4 DEF do_glob_flowctrl, Not
  <2>6. /\ Pos(<<"dot3x", "backpressure", "ondemand-disable">>, c.arg) \in {0, 1, 2}
        /\ Pos(ena_disa, c.arg2) \in {0, 1}
    BY <2>1, <2>2, Numbers
  <2> QED
    BY <1>8, <2>5, <2>6 DEF SwitchJob
<1>9. CASE c.word \in {"storm-control broadcast", "storm-control multicast"}
  <2>1. /\ {"multicast_strict"} \in SUBSET FlagRegs["port_config_global"]
        /\ {"broadcast_disable"} \in SUBSET FlagRegs["port_config_global"]
        /\ {"broadcast_strict"} \in SUBSET FlagRegs["port_config_global"]
    BY FlagNames
  <2>2. \A v, w \in Nat :
           /\ GoodJob(EditFlags("port_config_global", Flags({"multicast_strict"}, v)), K)
           /\ GoodJob(EditFlags("port_config_global", Flags({"broadcast_disable"}, v)
                                                        ++ Flags({"broadcast_strict"}, w)), K)
    BY <1>2, <1>3, <2>1
  <2>3. ASSUME NEW state
        PROVE  GoodJob(do_storm_control(0, state), K) /\ GoodJob(do_storm_control(1, state), K)
    <3>1. /\ (IF state # 0 THEN 1 ELSE 0) \in Nat /\ (IF state \in {1, 2} THEN 0 ELSE 1) \in Nat
          /\ (IF state = 2 THEN 1 ELSE 0) \in Nat
      OBVIOUS
    <3>2. do_storm_control(0, state) =
             EditFlags("port_config_global", Flags({"multicast_strict"}, IF state # 0 THEN 1 ELSE 0))
      BY DEF do_storm_control
    <3>3. do_storm_control(1, state) =
             EditFlags("port_config_global",
                Flags({"broadcast_disable"}, IF state \in {1, 2} THEN 0 ELSE 1)
                  ++ Flags({"broadcast_strict"}, IF state = 2 THEN 1 ELSE 0))
      BY DEF do_storm_control
    <3> QED
      BY <2>2, <3>1, <3>2, <3>3
  <2> QED
    BY <1>9, <2>3 DEF SwitchJob
<1>10. CASE c.word = "monitor"
  BY <1>10, GoodMirror DEF SwitchJob
<1>11. CASE c.word = "igmp-snooping"
  <2>1. {"en_igmp_snooping"} \in SUBSET FlagRegs["alt_igmp_snooping"]
    BY FlagNames
  <2> QED
    BY <1>1, <1>2, <1>11, <2>1 DEF SwitchJob, do_igmp_snooping
<1>12. \A set \in SUBSET FlagRegs["qos_config"] : \A v \in Nat :
          GoodJob(IfChanged("qos_config", Flags(set, v)), K)
  <2>1. "qos_config" \in Plain \cap DOMAIN FlagRegs
    BY FlagNames
  <2>2. \A set \in SUBSET FlagRegs["qos_config"] : \A v \in Nat :
           IsEdit(Flags(set, v)) /\ DOMAIN Flags(set, v) \subseteq NameFields("qos_config", 0)
    BY <2>1, FlagEdits
  <2> QED
    BY <2>2, GoodIfChanged
<1>13. CASE c.word = "mls qos trust"
  <2> DEFINE set == (IF c.num % 2 = 1 THEN {"dscp_enable"} ELSE {})
                       \cup (IF c.num > 1 THEN {"cos_enable"} ELSE {})
  <2>1. set \in SUBSET FlagRegs["qos_config"]
    BY FlagNames
  <2>2. SwitchJob(c) = IfChanged("qos_config", Flags(set, On(c)))
    BY <1>13 DEF SwitchJob, do_mls_qos_trust
  <2> HIDE DEF set
  <2> QED
    BY <1>1, <1>12, <2>1, <2>2
<1>14. CASE c.word = "wrr-queue"
  <2>1. (IF c.no THEN "1:0" ELSE c.arg) \in RatioWords
    BY <1>1, <1>14 DEF ArgsOf, RatioWords, IsRtl83xx
  <2>2. Pos(<<"4:1", "8:1", "16:1", "1:0">>, IF c.no THEN "1:0" ELSE c.arg) \in Nat
    BY <2>1, Numbers
  <2>3. {"wrr_ratio"} \in SUBSET FlagRegs["qos_config"]
    BY FlagNames
  <2> QED
    BY <1>12, <1>14, <2>2, <2>3 DEF SwitchJob, do_wrr_queue
<1> QED
  BY <1>5, <1>6, <1>7, <1>8, <1>9, <1>10, <1>11, <1>13, <1>14 DEF SwitchWords

\* What a command of rtl83xx does.
LEMMA GoodRtl83xxJob ==
    ASSUME NEW c, IsRtl83xx(c), NEW wraps, NEW K
    PROVE  /\ GoodJob(Rtl83xxJob(c, wraps), K)
           /\ c.word = "vlan clear" =>
                 /\ ClearOrder(Rtl83xxJob(c, wraps).ops)
                 /\ \E n \in 1 .. Len(Rtl83xxJob(c, wraps).ops) : Reading(Rtl83xxJob(c, wraps).ops[n])
                 /\ Rtl83xxJob(c, wraps).edit = do_vlan_enable_vlan(0, TRUE).edit
<1>1. c.word \in InterfaceWords \cup VlanWords \cup SwitchWords
  BY DEF IsRtl83xx
<1>2. /\ InterfaceWords \cap VlanWords = {} /\ InterfaceWords \cap SwitchWords = {}
      /\ VlanWords \cap SwitchWords = {} /\ "vlan clear" \in VlanWords
  BY DEF InterfaceWords, VlanWords, SwitchWords
<1>3. /\ c.word \in InterfaceWords => Rtl83xxJob(c, wraps) = InterfaceJob(c, wraps)
      /\ c.word \in VlanWords => Rtl83xxJob(c, wraps) = VlanJob(c, 0)
      /\ c.word \in SwitchWords => Rtl83xxJob(c, wraps) = SwitchJob(c)
  BY <1>2 DEF Rtl83xxJob
<1>4. CASE c.word \in InterfaceWords
  BY <1>2, <1>3, <1>4, GoodPortJobs
<1>5. CASE c.word \in VlanWords
  BY <1>3, <1>5, GoodVlanJobs
<1>6. CASE c.word \in SwitchWords
  BY <1>2, <1>3, <1>6, GoodSwitchJobs
<1> QED
  BY <1>1, <1>4, <1>5, <1>6

\* What a command of rrcpcli does: it reads nothing.
GoodCli(job) == GoodJob(job, CliFields) /\ job.ops \in Seq({"write"} \X ConfigRegs)

LEMMA CliSets ==
    /\ \A name \in Plain : \A e : Set(name, e).ops \in Seq({"write"} \X ConfigRegs)
    /\ \A name \in Plain \cap DOMAIN PortRegs : \A e : \A q \in PhysPorts :
          SetPort(name, e, q).ops \in Seq({"write"} \X ConfigRegs)
<1>1. \A name \in Plain : Writes(name) \in Seq({"write"} \X ConfigRegs)
  BY PlainFields
<1>2. \A name \in Plain \cap DOMAIN PortRegs : \A q \in PhysPorts :
         WritesFor(name, {q}) \in Seq({"write"} \X ConfigRegs)
  <2>1. \A q \in PhysPorts : {q} \in SUBSET PhysPorts
    OBVIOUS
  <2> QED
    BY <2>1, SomeFields
<1> QED
  BY <1>1, <1>2 DEF Set, SetPort, Job

LEMMA CliFlags ==
    ASSUME NEW name \in Plain \cap DOMAIN FlagRegs, name # "authkey",
           NEW set \in SUBSET FlagRegs[name], NEW more \in SUBSET FlagRegs[name],
           NEW v \in Nat, NEW w \in Nat
    PROVE  /\ GoodCli(Set(name, Flags(set, v)))
           /\ GoodCli(Set(name, Flags(set, v) ++ Flags(more, w)))
BY GoodFlags, CliSets DEF GoodCli

LEMMA NoEdit == IsEdit(<<>>) /\ DOMAIN <<>> = {}
<1>1. DOMAIN <<>> = {}
  OBVIOUS
<1> QED
  BY <1>1 DEF IsEdit

LEMMA CliPort ==
    ASSUME NEW c, IsRrcpCli(c), c.ports # {}
    PROVE  Phys[CHOOSE l \in c.ports : TRUE] \in PhysPorts
<1>1. PICK l \in 1 .. NumPorts : c.ports = {l}
  BY DEF IsRrcpCli
<1>2. (CHOOSE k \in c.ports : TRUE) = l
  BY <1>1
<1> QED
  BY <1>2, SwitchRegsAssumption

LEMMA GoodCliPorts ==
    ASSUME NEW c, IsRrcpCli(c), c.ports # {},
           NEW media, \A q \in PhysPorts : media[q] \in SUBSET Media
    PROVE  GoodCli(InterfaceCommandJob(c, media))
<1> DEFINE q == Phys[CHOOSE l \in c.ports : TRUE]
<1>1. q \in PhysPorts /\ {q} \in SUBSET PhysPorts
  BY CliPort
<1>2. /\ On(c) \in Nat /\ c.num \in Nat /\ Not(On(c)) \in Nat
      /\ c.arg \in CliArgsOf(c.no, c.word)
  BY DEF IsRrcpCli, On, Not
<1> HIDE DEF q
<1>3. ASSUME NEW name \in Numbered, NEW v \in Nat
      PROVE  /\ GoodCli(Set(name, PortsTo(name, {q}, v)))
             /\ GoodCli(SetPort(name, PortsTo(name, {q}, v), q))
  <2>1. name \in Plain \cap DOMAIN PortRegs
    BY PortNames
  <2> QED
    BY <1>1, <2>1, CliSets, GoodNumbers DEF GoodCli, SetPort
<1>4. ASSUME NEW set \in SUBSET Media
      PROVE  GoodCli(SetPort("port_config", PortsTo("media", {q}, set), q))
  <2>1. "port_config" \in Plain \cap DOMAIN PortRegs /\ "media" \in PortRegs["port_config"].fields
        /\ Legal(Port("media", q)) = SUBSET Media /\ "port_config" # "authkey"
    BY PortNames
  <2> DEFINE e == PortsTo("media", {q}, set)
  <2>2. IsEdit(e) /\ DOMAIN e \subseteq PortRegs["port_config"].fields \X {0} \X {q}
    <3>1. \A p \in {q} : set \in Legal(Port("media", p))
      BY <2>1
    <3> QED
      BY <1>1, <2>1, <3>1, PortsEdits
  <2> HIDE DEF e
  <2>3. GoodJob(Job(WritesFor("port_config", {q}), e), CliFields)
    BY <1>1, <2>1, <2>2, GoodPorts
  <2> QED
    BY <1>1, <2>1, <2>3, CliSets DEF GoodCli, SetPort, e
<1>5. CASE c.word \in {"shutdown", "mac-learn disable", "mac-learn enable", "rrcp enable", "mls qos cos"}
  <2>1. {"port_disable", "alt_mask", "rrcp_byport_disable", "qos_port_priority"} \subseteq Numbered
    BY DEF Numbered
  <2>2. \A v \in Nat : /\ GoodCli(cmd_config_int_shutdown(q, v))
                       /\ GoodCli(cmd_config_int_mac_learning(q, v))
                       /\ GoodCli(cmd_config_int_rrcp(q, v))
    BY <1>3, <2>1 DEF cmd_config_int_shutdown, cmd_config_int_mac_learning, cmd_config_int_rrcp
  <2>3. GoodCli(cmd_config_int_mls(q, c.arg))
    BY <1>3, <2>1 DEF cmd_config_int_mls
  <2> QED
    BY <1>2, <1>5, <2>2, <2>3 DEF InterfaceCommandJob, q
<1>6. CASE c.word = "rate-limit"
  <2> DEFINE field == IF c.arg = "input" THEN "rx" ELSE "tx"
             rate == IF c.no THEN 0 ELSE c.num
             e == PortsTo(field, {q}, rate)
  <2>1. "bandwidth" \in Plain \cap DOMAIN PortRegs /\ field \in PortRegs["bandwidth"].fields
        /\ Legal(Port(field, q)) = Nat /\ "bandwidth" # "authkey"
    BY PortNames
  <2>2. rate \in Nat
    BY <1>2
  <2> HIDE DEF field, rate
  <2>3. IsEdit(e) /\ DOMAIN e \subseteq PortRegs["bandwidth"].fields \X {0} \X {q}
    <3>1. \A p \in {q} : rate \in Legal(Port(field, p))
      BY <2>1, <2>2
    <3> QED
      BY <1>1, <2>1, <3>1, PortsEdits
  <2> HIDE DEF e
  <2>4. GoodJob(Job(WritesFor("bandwidth", {q}), e), CliFields)
    BY <1>1, <2>1, <2>3, GoodPorts
  <2>5. GoodCli(SetPort("bandwidth", e, q))
    BY <1>1, <2>1, <2>4, CliSets DEF GoodCli, SetPort
  <2> QED
    BY <1>6, <2>5 DEF InterfaceCommandJob, cmd_rate_limit, q, e, field, rate
<1>7. CASE c.word = "speed"
  <2>1. c.arg \in {"10", "100", "1000", "auto"}
    BY <1>2, <1>7 DEF CliArgsOf
  <2> DEFINE set == CASE c.arg = "10"   -> {"10full"}
                      [] c.arg = "100"  -> {"100full"}
                      [] c.arg = "1000" -> {"1000full"}
                      [] c.arg = "auto" -> AutoMedia(q) \cup (media[q] \cap {"1000full"})
  <2>2. set \in SUBSET Media
    BY <1>1, <2>1 DEF AutoMedia, Media
  <2>3. InterfaceCommandJob(c, media) = SetPort("port_config", PortsTo("media", {q}, set), q)
    BY <1>7 DEF InterfaceCommandJob, cmd_config_int_speed, q
  <2> HIDE DEF set
  <2> QED
    BY <1>4, <2>2, <2>3
<1>8. CASE c.word = "duplex"
  <2>1. c.arg \in {"half", "full"}
    BY <1>2, <1>8 DEF CliArgsOf
  <2>2. Duplexed(media[q], c.arg) \in SUBSET Media
    <3>1. media[q] \in SUBSET Media
      BY <1>1
    <3> QED
      BY <2>1, <3>1 DEF Duplexed, Media
  <2>3. InterfaceCommandJob(c, media) = cmd_config_int_duplex(q, c.arg, media[q])
    BY <1>8 DEF InterfaceCommandJob, q
  <2>4. CASE DuplexRefused(q, media[q], c.arg)
    <3> DEFINE e == <<>>
               w == <<>>
    <3>1. w \in Seq({"write"} \X ConfigRegs) /\ StoredIn(w) = {} /\ IsEdit(e) /\ DOMAIN e = {}
      <4>1. Len(w) = 0
        OBVIOUS
      <4>2. StoredIn(w) = {}
        BY <4>1 DEF StoredIn
      <4> QED
        BY <4>2, NoEdit
    <3>2. InterfaceCommandJob(c, media) = Job(w, e)
      BY <2>3, <2>4 DEF cmd_config_int_duplex, Keep
    <3> HIDE DEF e, w
    <3>3. GoodJob(Job(w, e), CliFields)
      BY <3>1, GoodWrites
    <3> QED
      BY <3>1, <3>2, <3>3 DEF GoodCli, Job
  <2>5. CASE ~DuplexRefused(q, media[q], c.arg)
    BY <1>4, <2>2, <2>3, <2>5 DEF cmd_config_int_duplex
  <2> QED
    BY <2>4, <2>5
<1> QED
  BY <1>5, <1>6, <1>7, <1>8 DEF IsRrcpCli

LEMMA GoodCliSwitch ==
    ASSUME NEW c, IsRrcpCli(c), c.ports = {}
    PROVE  GoodCli(GlobalCommandJob(c))
<1>1. /\ On(c) \in Nat /\ Not(On(c)) \in Nat /\ c.num \in Nat
      /\ c.arg \in CliArgsOf(c.no, c.word)
  BY DEF IsRrcpCli, On, Not
<1>2. \A name \in {"rrcp_config", "alt_config", "alt_igmp_snooping", "qos_config", "vlan", "port_config_global"} :
         name \in Plain \cap DOMAIN FlagRegs /\ name # "authkey"
  BY FlagNames
<1>3. \A name \in {"rrcp_config", "alt_config", "alt_igmp_snooping", "qos_config", "vlan", "port_config_global"} :
         \A set, more \in SUBSET FlagRegs[name] : \A v, w \in Nat :
            /\ GoodCli(Set(name, Flags(set, v)))
            /\ GoodCli(Set(name, Flags(set, v) ++ Flags(more, w)))
  BY <1>2, CliFlags
<1>4. CASE c.word = "mac-address-table aging-time"
  <2>1. {"mac_aging_disable"} \in SUBSET FlagRegs["alt_config"]
        /\ {"mac_aging_fast"} \in SUBSET FlagRegs["alt_config"]
    BY FlagNames
  <2>2. (IF c.arg = "0" THEN 1 ELSE 0) \in Nat /\ (IF c.arg = "12" THEN 1 ELSE 0) \in Nat
    OBVIOUS
  <2> QED
    BY <1>3, <1>4, <2>1, <2>2 DEF GlobalCommandJob, cmd_config_mac_aging
<1>5. CASE c.word \in {"ip igmp snooping", "rrcp enable", "rrcp echo enable", "rrcp loop-detect enable",
                       "spanning-tree bpdufilter"}
  <2>1. /\ {"en_igmp_snooping"} \in SUBSET FlagRegs["alt_igmp_snooping"]
        /\ {"stp_filter"} \in SUBSET FlagRegs["alt_config"]
    BY FlagNames
  <2>2. /\ {"rrcp_disable"} \in SUBSET FlagRegs["rrcp_config"]
        /\ {"echo_disable"} \in SUBSET FlagRegs["rrcp_config"]
        /\ {"loop_enable"} \in SUBSET FlagRegs["rrcp_config"]
    BY FlagNames
  <2>3. \A v \in Nat : GoodCli(cmd_config_ip_igmp_snooping(v)) /\ GoodCli(cmd_config_spanning_tree(v))
    BY <1>3, <2>1 DEF cmd_config_ip_igmp_snooping, cmd_config_spanning_tree
  <2>4. \A v \in Nat : /\ GoodCli(cmd_config_rrcp("rrcp_disable", v))
                       /\ GoodCli(cmd_config_rrcp("echo_disable", v))
                       /\ GoodCli(cmd_config_rrcp("loop_enable", v))
    BY <1>3, <2>2 DEF cmd_config_rrcp
  <2> QED
    BY <1>1, <1>5, <2>3, <2>4 DEF GlobalCommandJob
<1>6. CASE c.word = "rrcp authkey"
  <2>1. GlobalCommandJob(c) = set_authkey(c.num)
    BY <1>6 DEF GlobalCommandJob
  <2>2. "authkey" \in Plain
    BY DEF Plain
  <2>3. set_authkey(c.num).ops \in Seq({"write"} \X ConfigRegs)
    BY <2>2, CliSets DEF set_authkey, Set
  <2> QED
    BY <1>1, <2>1, <2>3, GoodKey DEF GoodCli
<1>7. CASE c.word = "vlan leaky"
  <2>1. c.arg \in {"arp", "multicast", "unicast"}
    BY <1>1, <1>7 DEF CliArgsOf, ArgsOf
  <2> DEFINE name == CASE c.arg = "arp"       -> "arp_leaky"
                       [] c.arg = "multicast" -> "multicast_leaky"
                       [] c.arg = "unicast"   -> "unicast_leaky"
  <2>2. {name} \in SUBSET FlagRegs["vlan"]
    <3>1. name \in {"arp_leaky", "multicast_leaky", "unicast_leaky"}
      BY <2>1
    <3> HIDE DEF name
    <3>2. {"arp_leaky", "multicast_leaky", "unicast_leaky"} \subseteq FlagRegs["vlan"]
      BY FlagNames
    <3> QED
      BY <3>1, <3>2
  <2>3. GlobalCommandJob(c) = IF c.arg = "arp" /\ On(c) = 1 THEN Set("vlan", <<>>)
                              ELSE Set("vlan", Flags({name}, On(c)))
    <3>1. GlobalCommandJob(c) = cmd_config_vlan_leaky(c.arg, On(c))
      BY <1>7 DEF GlobalCommandJob
    <3> QED
      BY <2>1, <3>1 DEF cmd_config_vlan_leaky, Keep
  <2> HIDE DEF name
  <2>4. GoodCli(Set("vlan", <<>>))
    <3> DEFINE e == <<>>
    <3>1. "vlan" \in Plain /\ "vlan" # "authkey"
      BY DEF Plain
    <3>2. IsEdit(e) /\ DOMAIN e \subseteq NameFields("vlan", 0)
      BY NoEdit
    <3> HIDE DEF e
    <3>3. GoodJob(Set("vlan", e), CliFields) /\ Set("vlan", e).ops \in Seq({"write"} \X ConfigRegs)
      BY <3>1, <3>2, GoodName, CliSets
    <3> QED
      BY <3>3 DEF GoodCli, e
  <2>5. GoodCli(Set("vlan", Flags({name}, On(c))))
    BY <1>1, <1>3, <2>2
  <2> QED
    BY <2>3, <2>4, <2>5
<1>8. CASE c.word = "vlan drop"
  <2>1. /\ {"drop_untagged_frames"} \in SUBSET FlagRegs["vlan"]
        /\ {"ingress_filtering"} \in SUBSET FlagRegs["vlan"]
    BY FlagNames
  <2> QED
    BY <1>1, <1>3, <1>8, <2>1 DEF GlobalCommandJob, cmd_config_vlan_drop
<1>9. CASE c.word \in {"mls qos trust", "wrr-queue ratio"}
  <2>1. /\ {"dscp_enable"} \in SUBSET FlagRegs["qos_config"]
        /\ {"cos_enable"} \in SUBSET FlagRegs["qos_config"]
        /\ {"wrr_ratio"} \in SUBSET FlagRegs["qos_config"]
    BY FlagNames
  <2>2. \A v \in Nat : /\ GoodCli(cmd_config_qos("dscp_enable", v)) /\ GoodCli(cmd_config_qos("cos_enable", v))
                       /\ GoodCli(cmd_config_qos("wrr_ratio", v))
    BY <1>3, <2>1 DEF cmd_config_qos
  <2>3. ASSUME ~c.no, c.word = "wrr-queue ratio" PROVE GoodCli(cmd_config_qos_wrr_queue_ratio(c.arg))
    <3>1. c.arg \in RatioWords
      BY <1>1, <2>3 DEF CliArgsOf
    <3>2. Pos(<<"4:1", "8:1", "16:1", "1:0">>, c.arg) \in Nat
      BY <3>1, Numbers
    <3> QED
      BY <1>3, <2>1, <3>2 DEF cmd_config_qos_wrr_queue_ratio
  <2> QED
    BY <1>1, <1>9, <2>2, <2>3 DEF GlobalCommandJob
<1>10. CASE c.word = "flowcontrol"
  <2>1. c.arg \in {"dot3x", "backpressure", "ondemand-disable"}
    BY <1>1, <1>10 DEF CliArgsOf, ArgsOf
  <2> DEFINE edits == CASE c.arg = "dot3x"            -> Flags({"flow_dot3x_disable"}, Not(On(c)))
                        [] c.arg = "backpressure"     -> Flags({"flow_backpressure_disable"}, Not(On(c)))
                        [] c.arg = "ondemand-disable" -> Flags({"flow_ondemand_disable"}, On(c))
             w == Writes("port_config_global") \o Writes("qos_config")
  <2>2. /\ {"flow_dot3x_disable"} \in SUBSET FlagRegs["port_config_global"]
        /\ {"flow_backpressure_disable"} \in SUBSET FlagRegs["port_config_global"]
        /\ {"flow_ondemand_disable"} \in SUBSET FlagRegs["qos_config"]
    BY FlagNames
  <2>3. \A v \in Nat :
           /\ IsEdit(Flags({"flow_dot3x_disable"}, v))
           /\ DOMAIN Flags({"flow_dot3x_disable"}, v) \subseteq NameFields("port_config_global", 0)
           /\ IsEdit(Flags({"flow_backpressure_disable"}, v))
           /\ DOMAIN Flags({"flow_backpressure_disable"}, v) \subseteq NameFields("port_config_global", 0)
           /\ IsEdit(Flags({"flow_ondemand_disable"}, v))
           /\ DOMAIN Flags({"flow_ondemand_disable"}, v) \subseteq NameFields("qos_config", 0)
    BY <1>2, <2>2, FlagEdits
  <2>4. IsEdit(edits)
        /\ DOMAIN edits \subseteq NameFields("port_config_global", 0) \cup NameFields("qos_config", 0)
    BY <1>1, <2>1, <2>3
  <2>5. w \in Seq({"write"} \X ConfigRegs)
        /\ StoredIn(w) = NameFields("port_config_global", 0) \cup NameFields("qos_config", 0)
    <3>1. {"port_config_global", "qos_config"} \subseteq Plain
      BY DEF Plain
    <3>2. /\ Writes("port_config_global") \in Seq({"write"} \X ConfigRegs)
          /\ StoredIn(Writes("port_config_global")) = NameFields("port_config_global", 0)
          /\ Writes("qos_config") \in Seq({"write"} \X ConfigRegs)
          /\ StoredIn(Writes("qos_config")) = NameFields("qos_config", 0)
      BY <3>1, PlainFields
    <3> QED
      BY <3>2, JoinOf, JoinFields
  <2>6. StoredIn(w) \subseteq CliFields
    <3>1. {"port_config_global", "qos_config"} \subseteq (Plain \cup Tables) \ {"authkey"}
      BY DEF Plain
    <3>2. /\ NameFields("port_config_global", 0) \subseteq CliFields
          /\ NameFields("qos_config", 0) \subseteq CliFields
      BY <3>1, Fields
    <3> QED
      BY <2>5, <3>2
  <2>7. GlobalCommandJob(c) = Job(w, edits)
    BY <1>10, <2>1 DEF GlobalCommandJob, cmd_config_flowcontrol
  <2> HIDE DEF edits, w
  <2>8. GoodJob(Job(w, edits), CliFields)
    BY <2>4, <2>5, <2>6, GoodWrites
  <2> QED
    BY <2>5, <2>7, <2>8 DEF GoodCli, Job
<1>11. CASE c.word \in {"storm-control broadcast", "storm-control multicast"}
  <2>1. /\ {"multicast_strict"} \in SUBSET FlagRegs["port_config_global"]
        /\ {"broadcast_disable"} \in SUBSET FlagRegs["port_config_global"]
        /\ {"broadcast_strict"} \in SUBSET FlagRegs["port_config_global"]
    BY FlagNames
  <2>2. \A v, w \in Nat : /\ GoodCli(cmd_config_stormcontrol(v, w))
                          /\ GoodCli(cmd_config_stormcontrol_multicast(v))
    BY <1>3, <2>1 DEF cmd_config_stormcontrol, cmd_config_stormcontrol_multicast
  <2>3. (IF c.arg = "strict" THEN 1 ELSE 0) \in Nat
    OBVIOUS
  <2> QED
    BY <1>1, <1>11, <2>2, <2>3 DEF GlobalCommandJob
<1> QED
  BY <1>4, <1>5, <1>6, <1>7, <1>8, <1>9, <1>10, <1>11 DEF IsRrcpCli

LEMMA WholeTableReads ==
    LET F == FlattenSeq([k \in 1 .. NumSlots |->
                 All("read", "vlan_entry", k - 1) \o All("read", "vlan_vid", k - 1)])
    IN F \in Seq({"read"} \X ConfigRegs) /\ ReadIn(F) = TableFields
<1> DEFINE W == {"read"} \X ConfigRegs
           block(k) == All("read", "vlan_entry", k - 1) \o All("read", "vlan_vid", k - 1)
           seqs == [k \in 1 .. NumSlots |-> block(k)]
<1>1. \A i \in Slots : i \in SlotsOf("vlan_entry") /\ i \in SlotsOf("vlan_vid")
  BY Names DEF Tables
<1>2. NumSlots \in Nat /\ (\A k \in 1 .. NumSlots : k - 1 \in Slots)
      /\ \A i \in Slots : i + 1 \in 1 .. NumSlots /\ i + 1 - 1 = i
  BY SwitchRegsAssumption DEF Slots
<1>3. \A k \in 1 .. NumSlots : /\ block(k) \in Seq(W)
                               /\ ReadIn(block(k)) = NameFields("vlan_entry", k - 1)
                                                         \cup NameFields("vlan_vid", k - 1)
  <2> SUFFICES ASSUME NEW k \in 1 .. NumSlots
               PROVE  /\ block(k) \in Seq(W)
                      /\ ReadIn(block(k)) = NameFields("vlan_entry", k - 1)
                                                \cup NameFields("vlan_vid", k - 1)
    OBVIOUS
  <2>1. /\ All("read", "vlan_entry", k - 1) \in Seq(W) /\ All("read", "vlan_vid", k - 1) \in Seq(W)
        /\ ReadIn(All("read", "vlan_entry", k - 1)) = NameFields("vlan_entry", k - 1)
        /\ ReadIn(All("read", "vlan_vid", k - 1)) = NameFields("vlan_vid", k - 1)
    BY <1>1, <1>2, AllReads DEF Tables
  <2> QED
    BY <2>1, Widened, JoinFields
<1> HIDE DEF block, W
<1>4. seqs \in Seq(Seq(W)) /\ Len(seqs) = NumSlots
  <2> DEFINE L == Seq(W)
  <2>1. \A k \in 1 .. NumSlots : seqs[k] \in L
    BY <1>3
  <2> HIDE DEF L
  <2>2. seqs \in Seq(L) /\ Len(seqs) = NumSlots
    BY <1>2, <2>1
  <2> QED
    BY <2>2 DEF L
<1>5. \A k \in 1 .. NumSlots : seqs[k] = block(k)
  OBVIOUS
<1> HIDE DEF seqs
<1>6. FlattenSeq(seqs) \in Seq(W)
      /\ ReadIn(FlattenSeq(seqs)) = UNION {ReadIn(seqs[k]) : k \in 1 .. NumSlots}
  BY <1>4, Flattened, FlattenFields
<1>7. UNION {ReadIn(seqs[k]) : k \in 1 .. NumSlots} = TableFields
  <2>1. ASSUME NEW f \in TableFields PROVE f \in UNION {ReadIn(seqs[k]) : k \in 1 .. NumSlots}
    <3>1. PICK i \in Slots : f \in NameFields("vlan_entry", i) \cup NameFields("vlan_vid", i)
      BY DEF TableFields
    <3>2. \E k \in 1 .. NumSlots : k - 1 = i
      <4>1. i \in Int /\ 0 <= i /\ i <= NumSlots - 1 /\ NumSlots \in Int
        BY <1>2, SwitchRegsAssumption DEF Slots
      <4> QED
        BY <4>1
    <3>4. PICK k \in 1 .. NumSlots : k - 1 = i
      BY <3>2
    <3>3. ReadIn(seqs[k]) = NameFields("vlan_entry", i) \cup NameFields("vlan_vid", i)
      BY <1>3, <1>5, <3>4
    <3> QED
      BY <3>1, <3>3, <3>4
  <2>2. ASSUME NEW k \in 1 .. NumSlots PROVE ReadIn(seqs[k]) \subseteq TableFields
    BY <1>2, <1>3, <1>5 DEF TableFields
  <2> QED
    BY <2>1, <2>2
<1> QED
  BY <1>6, <1>7 DEF seqs, block, W

\* What rrcpcli reads when it starts.
LEMMA ConfigIn ==
    ReadConfig \in Seq({"read"} \X ConfigRegs) /\ CliFields \subseteq ReadIn(ReadConfig)
<1> DEFINE R == {"read"} \X ConfigRegs
           F == FlattenSeq([k \in 1 .. NumSlots |->
                   All("read", "vlan_entry", k - 1) \o All("read", "vlan_vid", k - 1)])
<1>1. F \in Seq(R) /\ ReadIn(F) = TableFields
  BY WholeTableReads, Zenon
<1>2. \A name \in Plain : Reads(name) \in Seq(R) /\ ReadIn(Reads(name)) = NameFields(name, 0)
  BY PlainFields
<1> HIDE DEF R, F
<1>3. \A s, t \in Seq(R) : s \o t \in Seq(R) /\ ReadIn(s \o t) = ReadIn(s) \cup ReadIn(t)
  BY JoinOf, JoinFields
<1>4. \A s \in Seq(R) : \A name \in Plain :
         s \o Reads(name) \in Seq(R) /\ ReadIn(s \o Reads(name)) = ReadIn(s) \cup NameFields(name, 0)
  BY <1>2, <1>3
<1> DEFINE a == Reads("rrcp_config") \o Reads("rrcp_byport_disable") \o Reads("alt_igmp_snooping")
                  \o Reads("vlan") \o Reads("port_vlan") \o Reads("output_tag")
           b == a \o F \o Reads("insert_vid") \o Reads("bandwidth")
                  \o Reads("sniffer") \o Reads("sniffed_rx") \o Reads("sniffed_tx")
           d == b \o Reads("alt_config") \o Reads("alt_mask")
                  \o Reads("qos_config") \o Reads("qos_port_priority")
                  \o Reads("port_config_global") \o Reads("port_disable") \o Reads("port_config")
<1>5. ReadConfig = d
  BY DEF ReadConfig, F
<1>6. Plain = {"rrcp_byport_disable", "qos_port_priority", "port_disable", "alt_mask", "insert_vid",
               "sniffer", "sniffed_rx", "sniffed_tx", "output_tag", "port_vlan", "bandwidth",
               "port_config", "rrcp_config", "authkey", "alt_config", "alt_igmp_snooping", "vlan",
               "qos_config", "port_config_global"}
  BY DEF Plain
<1>7. /\ a \in Seq(R)
      /\ ReadIn(a) = NameFields("rrcp_config", 0)
                        \cup NameFields("rrcp_byport_disable", 0)
                        \cup NameFields("alt_igmp_snooping", 0)
                        \cup NameFields("vlan", 0)
                        \cup NameFields("port_vlan", 0)
                        \cup NameFields("output_tag", 0)
  <2> DEFINE a1 == Reads("rrcp_config") \o Reads("rrcp_byport_disable")
             a2 == a1 \o Reads("alt_igmp_snooping")
             a3 == a2 \o Reads("vlan")
             a4 == a3 \o Reads("port_vlan")
             a5 == a4 \o Reads("output_tag")
  <2>1. a1 \in Seq(R) /\ ReadIn(a1) = ReadIn(Reads("rrcp_config")) \cup NameFields("rrcp_byport_disable", 0)
    BY <1>2, <1>4, <1>6
  <2>2. a2 \in Seq(R) /\ ReadIn(a2) = ReadIn(a1) \cup NameFields("alt_igmp_snooping", 0)
    BY <1>4, <1>6, <2>1
  <2>3. a3 \in Seq(R) /\ ReadIn(a3) = ReadIn(a2) \cup NameFields("vlan", 0)
    BY <1>4, <1>6, <2>2
  <2>4. a4 \in Seq(R) /\ ReadIn(a4) = ReadIn(a3) \cup NameFields("port_vlan", 0)
    BY <1>4, <1>6, <2>3
  <2>5. a5 \in Seq(R) /\ ReadIn(a5) = ReadIn(a4) \cup NameFields("output_tag", 0)
    BY <1>4, <1>6, <2>4
  <2> QED
    BY <1>2, <1>6, <2>1, <2>2, <2>3, <2>4, <2>5
<1> HIDE DEF a
<1>8. a \o F \in Seq(R) /\ ReadIn(a \o F) = ReadIn(a) \cup TableFields
  BY <1>1, <1>3, <1>7
<1>9. /\ b \in Seq(R)
      /\ ReadIn(b) = ReadIn(a) \cup TableFields
                        \cup NameFields("insert_vid", 0)
                        \cup NameFields("bandwidth", 0)
                        \cup NameFields("sniffer", 0)
                        \cup NameFields("sniffed_rx", 0)
                        \cup NameFields("sniffed_tx", 0)
  <2> DEFINE b1 == a \o F \o Reads("insert_vid")
             b2 == b1 \o Reads("bandwidth")
             b3 == b2 \o Reads("sniffer")
             b4 == b3 \o Reads("sniffed_rx")
             b5 == b4 \o Reads("sniffed_tx")
  <2>1. b1 \in Seq(R) /\ ReadIn(b1) = ReadIn(a \o F) \cup NameFields("insert_vid", 0)
    BY <1>4, <1>6, <1>8
  <2>2. b2 \in Seq(R) /\ ReadIn(b2) = ReadIn(b1) \cup NameFields("bandwidth", 0)
    BY <1>4, <1>6, <2>1
  <2>3. b3 \in Seq(R) /\ ReadIn(b3) = ReadIn(b2) \cup NameFields("sniffer", 0)
    BY <1>4, <1>6, <2>2
  <2>4. b4 \in Seq(R) /\ ReadIn(b4) = ReadIn(b3) \cup NameFields("sniffed_rx", 0)
    BY <1>4, <1>6, <2>3
  <2>5. b5 \in Seq(R) /\ ReadIn(b5) = ReadIn(b4) \cup NameFields("sniffed_tx", 0)
    BY <1>4, <1>6, <2>4
  <2> QED
    BY <1>8, <2>1, <2>2, <2>3, <2>4, <2>5
<1> HIDE DEF b
<1>10. /\ d \in Seq(R)
      /\ ReadIn(d) = ReadIn(b)
                        \cup NameFields("alt_config", 0)
                        \cup NameFields("alt_mask", 0)
                        \cup NameFields("qos_config", 0)
                        \cup NameFields("qos_port_priority", 0)
                        \cup NameFields("port_config_global", 0)
                        \cup NameFields("port_disable", 0)
                        \cup NameFields("port_config", 0)
  <2> DEFINE d1 == b \o Reads("alt_config")
             d2 == d1 \o Reads("alt_mask")
             d3 == d2 \o Reads("qos_config")
             d4 == d3 \o Reads("qos_port_priority")
             d5 == d4 \o Reads("port_config_global")
             d6 == d5 \o Reads("port_disable")
             d7 == d6 \o Reads("port_config")
  <2>1. d1 \in Seq(R) /\ ReadIn(d1) = ReadIn(b) \cup NameFields("alt_config", 0)
    BY <1>4, <1>6, <1>9
  <2>2. d2 \in Seq(R) /\ ReadIn(d2) = ReadIn(d1) \cup NameFields("alt_mask", 0)
    BY <1>4, <1>6, <2>1
  <2>3. d3 \in Seq(R) /\ ReadIn(d3) = ReadIn(d2) \cup NameFields("qos_config", 0)
    BY <1>4, <1>6, <2>2
  <2>4. d4 \in Seq(R) /\ ReadIn(d4) = ReadIn(d3) \cup NameFields("qos_port_priority", 0)
    BY <1>4, <1>6, <2>3
  <2>5. d5 \in Seq(R) /\ ReadIn(d5) = ReadIn(d4) \cup NameFields("port_config_global", 0)
    BY <1>4, <1>6, <2>4
  <2>6. d6 \in Seq(R) /\ ReadIn(d6) = ReadIn(d5) \cup NameFields("port_disable", 0)
    BY <1>4, <1>6, <2>5
  <2>7. d7 \in Seq(R) /\ ReadIn(d7) = ReadIn(d6) \cup NameFields("port_config", 0)
    BY <1>4, <1>6, <2>6
  <2> QED
    BY <2>1, <2>2, <2>3, <2>4, <2>5, <2>6, <2>7
<1> HIDE DEF d
<1>11. \A name \in Plain \ {"authkey"} : NameFields(name, 0) \subseteq ReadIn(d)
  BY <1>6, <1>7, <1>9, <1>10
<1>12. TableFields \subseteq ReadIn(d)
  BY <1>9, <1>10
<1>13. CliFields \subseteq ReadIn(d)
  <2> SUFFICES ASSUME NEW f \in CliFields PROVE f \in ReadIn(d)
    OBVIOUS
  <2>1. PICK r \in ConfigRegs : r[1] # "authkey" /\ f \in FieldsIn[r]
    BY DEF CliFields
  <2>2. r \in Reg /\ r[1] \in Plain \cup Tables /\ r[2] \in SlotsOf(r[1])
    <3>1. r \in Reg /\ r[1] \in Plain \cup Tables
      BY DEF ConfigRegs
    <3> QED
      BY <3>1 DEF Reg
  <2>3. f \in NameFields(r[1], r[2])
    BY <2>1, <2>2 DEF NameFields
  <2>4. CASE r[1] \in Plain
    <3>1. r[2] = 0
      BY <2>2, <2>4, Names DEF Plain, SlotsOf
    <3> QED
      BY <1>11, <2>1, <2>3, <2>4, <3>1
  <2>5. CASE r[1] \in Tables
    <3>1. r[2] \in Slots
      BY <2>2, <2>5 DEF SlotsOf, Tables
    <3> QED
      BY <1>12, <2>3, <2>5, <3>1 DEF TableFields, Tables
  <2> QED
    BY <2>2, <2>4, <2>5
<1> QED
  BY <1>5, <1>10, <1>13 DEF R

\* The steps a process has after one of its own are such steps.
LEMMA ListsKept ==
    ASSUME Owned, Calm, NEW a \in Actor, Step(a)
    PROVE  todo'[a] \in Seq(Steps)
<1> USE DEF Owned, Rest, OfActors
<1>1. todo[a] \in Seq(Steps)
  BY DEF Calm
<1>2. ASSUME NEW kind, AtOp(a, kind)
      PROVE  Head(todo[a]) \in Steps /\ Tail(todo[a]) \in Seq(Steps) /\ Head(todo[a])[1] = kind
  BY <1>1, <1>2, StepLists DEF AtOp
<1>3. ASSUME NEW kind, AtOp(a, kind), Advance(a) PROVE todo'[a] \in Seq(Steps)
  BY <1>2, <1>3 DEF Advance
<1>4. ASSUME NEW c, NEW job, NEW s, Begin(a, c, job, s), job.ops \in Seq(Steps)
      PROVE  todo'[a] \in Seq(Steps)
  BY <1>4 DEF Begin
<1>5. ASSUME NEW how, Exit(a, how) PROVE todo'[a] \in Seq(Steps)
  BY <1>5, StepLists DEF Exit, Leave
<1>6. \A ops, e : Job(ops, e).ops = ops
  BY DEF Job
<1>7. ASSUME NEW s, NEW ops \in Seq(Steps), GoOn(a, s, ops) PROVE todo'[a] \in Seq(Steps)
  BY <1>7 DEF GoOn
<1>12. Seq(Commands) \subseteq Seq(Steps)
  <2>1. \A S, T : S \subseteq T => Seq(S) \subseteq Seq(T)
    OBVIOUS
  <2>2. Commands \subseteq Steps
    BY DEF Commands, Steps, Accesses, Kinds
  <2> QED
    BY <2>1, <2>2
<1>8. CASE Session(a)
  <2>1. CASE StartRtl83xx(a)
    <3>1. PICK c \in sitting[a].commands, wraps \in BOOLEAN :
             Begin(a, c, Rtl83xxJob(c, wraps), "command")
      BY <2>1 DEF StartRtl83xx
    <3>2. IsRtl83xx(c)
      BY <2>1, CommandsAssumption DEF StartRtl83xx, Is, Calm
    <3>3. Rtl83xxJob(c, wraps).ops \in Seq(Commands)
      BY <3>2, GoodRtl83xxJob DEF GoodJob
    <3> QED
      BY <1>4, <1>12, <3>1, <3>3
  <2>2. CASE StartRrcpCli(a)
    <3>1. ReadConfig \in Seq(Steps)
      <4>1. \A S, T : S \subseteq T => Seq(S) \subseteq Seq(T)
        OBVIOUS
      <4>2. {"read"} \X ConfigRegs \subseteq Steps
        BY DEF Steps, Accesses, Kinds
      <4> QED
        BY <4>1, <4>2, ConfigIn
    <3> QED
      BY <1>4, <1>6, <2>2, <3>1 DEF StartRrcpCli
  <2>3. CASE GiveCommand(a)
    <3>1. PICK c \in sitting[a].commands : todo' = [todo EXCEPT ![a] = CliJob(a, c).ops]
      BY <2>3 DEF GiveCommand
    <3>2. IsRrcpCli(c)
      BY <2>3, CommandsAssumption DEF GiveCommand, Prompt, Is, Calm
    <3> QED
      BY <3>1, <3>2, CliJobs, StepLists DEF Careful
  <2>4. CASE Access(a)
    BY <1>3, <2>4 DEF Access, ReadReg, WriteReg, LoseWrite, SkipWrite, AtWrite
  <2>5. CASE Finish(a) \/ EndInside(a)
    BY <1>5, <2>5 DEF Finish, EndInside
  <2> QED
    BY <1>8, <2>1, <2>2, <2>3, <2>4, <2>5 DEF Session
<1>9. CASE Capture(a)
  <2>1. CASE StartCapture(a)
    <3>1. PICK c, e : Begin(a, c, Job(Learning \o CaptureSetup, e), "setup")
      BY <2>1 DEF StartCapture
    <3> QED
      BY <1>4, <1>6, <3>1, CaptureLists
  <2>2. CASE Signal(a)
    BY <1>1, <2>2 DEF Signal, sharedVars
  <2>3. CASE SetSecondWord(a)
    <3>1. Tail(todo[a]) \in Seq(Steps) /\ OpReg(a) \in ConfigRegs
      BY <1>2, <2>3, KindsApart DEF SetSecondWord, OpReg
    <3>2. <<"write", OpReg(a)>> \in Steps
      BY <3>1 DEF Steps, Accesses, Kinds
    <3> DEFINE word == IF Broken(a) THEN <<>> ELSE <<<<"write", OpReg(a)>>>>
    <3>3. word \in Seq(Steps)
      BY <3>2, StepLists
    <3>4. todo'[a] = word \o Tail(todo[a])
      BY <2>3 DEF SetSecondWord
    <3> HIDE DEF word
    <3> QED
      BY <3>1, <3>3, <3>4, StepLists
  <2>4. CASE BeginReset(a)
    <3>1. [n \in 1 .. 4 |-> <<"clear", n>>] \in Seq(Steps)
      BY DEF Steps
    <3> QED
      BY <2>4, <3>1 DEF BeginReset
  <2>5. CASE ClearCaptured(a) \/ StopCapturing(a)
    BY <1>3, <2>5, CaptureLists DEF ClearCaptured, StopCapturing, Restore
  <2>6. CASE FinishCapture(a)
    BY <1>5, <2>6 DEF FinishCapture
  <2> QED
    BY <1>9, <2>1, <2>2, <2>3, <2>4, <2>5, <2>6 DEF Capture
<1>10. CASE CheckRun(a)
  <2>1. /\ Try("loop_status") \in Seq(Steps) /\ Try("loop_ports") \in Seq(Steps)
        /\ Writes("authkey") \in Seq(Steps)
    BY TryLists, PlainAccesses, StepLists DEF Plain
  <2>2. CASE StartCheck(a)
    BY <1>4, <1>6, <2>1, <2>2 DEF StartCheck
  <2>3. CASE HelloAnswered(a)
    BY <1>7, <2>1, <2>3, CheckLists DEF HelloAnswered
  <2>4. CASE UseNewKey(a)
    BY <1>7, <2>1, <2>4 DEF UseNewKey
  <2>5. CASE HelloFails(a) \/ Conclude(a) \/ Alarm(a)
    BY <1>1, <1>7, <2>5, StepLists DEF HelloFails, Conclude, Alarm, Quit
  <2>6. CASE CheckAnswered(a)
    <3> DEFINE more == IF /\ OpReg(a)[1] = "rrcp_config"
                          /\ Saw(a, Flag("loop_enable")) = 1
                          /\ Saw(a, Flag("loop_found")) = 1
                       THEN Try("loop_ports") ELSE <<>>
    <3>1. more \in Seq(Steps) /\ Tail(todo[a]) \in Seq(Steps)
      BY <1>2, <2>1, <2>6, StepLists DEF CheckAnswered
    <3>2. todo'[a] = more \o Tail(todo[a])
      BY <2>6 DEF CheckAnswered
    <3> HIDE DEF more
    <3> QED
      BY <3>1, <3>2, StepLists
  <2>7. CASE CheckFails(a)
    BY <1>2, <2>7, StepLists DEF CheckFails
  <2>8. CASE ExitCheck(a)
    BY <1>5, <2>8 DEF ExitCheck
  <2> QED
    BY <1>10, <2>2, <2>3, <2>4, <2>5, <2>6, <2>7, <2>8 DEF CheckRun
<1>11. CASE DetectRun(a)
  <2>1. ASSUME NEW ops \in Seq(Steps), NEW learnt, NextSteps(a, ops, learnt)
        PROVE  todo'[a] \in Seq(Steps)
    BY <2>1 DEF NextSteps
  <2>2. CASE StartDetection(a)
    BY <1>4, <1>6, <2>2, DetectLists DEF StartDetection
  <2>3. CASE CountPorts(a)
    BY <2>1, <2>3, DetectLists DEF CountPorts
  <2>4. CASE ReadId(a)
    BY <1>2, <2>1, <2>4, DetectLists DEF ReadId, AtStep
  <2>5. CASE CompareByte(a)
    <3>1. Tail(todo[a]) \in Seq(Steps) /\ Head(todo[a])[2] \in Nat /\ Head(todo[a])[2] + 1 \in Nat
      BY <1>2, <2>5, KindsApart DEF CompareByte, AtStep
    <3> QED
      BY <2>1, <2>5, <3>1, DetectLists DEF CompareByte, PastEnd, NextPlace, EndsUnread
  <2>6. CASE TestEcho(a)
    BY <1>2, <2>1, <2>6, StepLists DEF TestEcho, AtStep
  <2>7. CASE Decide(a)
    BY <1>1, <2>7 DEF Decide, sharedVars
  <2>8. CASE FinishDetection(a)
    BY <1>5, <2>8 DEF FinishDetection
  <2> QED
    BY <1>11, <2>2, <2>3, <2>4, <2>5, <2>6, <2>7, <2>8 DEF DetectRun
<1> QED
  BY <1>8, <1>9, <1>10, <1>11 DEF Step

LEMMA StatusApart ==
    ASSUME NEW r \in ConfigRegs, NEW f \in FieldsIn[r]
    PROVE  f \notin StatusFields
<1>1. r \in Reg /\ r[1] \in Plain \cup Tables
  BY DEF ConfigRegs
<1>2. CASE r[1] \in DOMAIN PortRegs
  <2>1. f[1] \in PortRegs[r[1]].fields
    BY <1>1, <1>2 DEF FieldsIn
  <2>2. \A name \in Plain \cup Tables : name \in DOMAIN PortRegs =>
           "link" \notin PortRegs[name].fields /\ "loop_found" \notin PortRegs[name].fields
    BY DEF Plain, Tables, PortRegs
  <2> QED
    BY <1>1, <1>2, <2>1, <2>2 DEF StatusFields, Flag, Port
<1>3. CASE r[1] \notin DOMAIN PortRegs
  <2>1. f[1] \in IF r[1] = "vlan_vid" THEN {"vlan_vid"} ELSE FlagRegs[r[1]]
    BY <1>1, <1>3 DEF FieldsIn
  <2>2. \A name \in Plain \cup Tables : name \in DOMAIN FlagRegs =>
           "link" \notin FlagRegs[name] /\ "loop_found" \notin FlagRegs[name]
    BY DEF Plain, Tables, FlagRegs
  <2>3. r[1] = "vlan_vid" \/ r[1] \in DOMAIN FlagRegs
    BY <1>1, <1>3, Names
  <2> QED
    BY <1>1, <2>1, <2>2, <2>3 DEF StatusFields, Flag, Port
<1> QED
  BY <1>2, <1>3

LEMMA CalmKept ==
    ASSUME Owned, Calm, [Next]_vars
    PROVE  Calm'
<1>1. sitting' = sitting
  <2>1. CASE \E b \in Actor : Step(b)
    BY <2>1, RestStep
  <2>2. CASE \E f \in Field : Wire(f)
    BY <2>2 DEF Wire, toolVars
  <2>3. CASE UNCHANGED vars
    BY <2>3 DEF vars, toolVars
  <2> QED
    BY <2>1, <2>2, <2>3 DEF Next, Step
<1>2. ASSUME NEW a \in Actor PROVE todo'[a] \in Seq(Steps)
  <2>1. CASE Step(a)
    BY <2>1, ListsKept
  <2>2. CASE Apart(a) \/ UNCHANGED vars
    BY <2>2 DEF Apart, vars, sharedVars, Calm
  <2> QED
    BY <2>1, <2>2, StepOrApart
<1>3. ASSUME NEW f \in StatusFields PROVE hw'[f] \in {0, 1}
  <2>1. hw[f] \in {0, 1} /\ f \in Field
    BY StatusReal DEF Calm
  <2>2. CASE \E a \in Actor : WriteReg(a)
    <3>1. PICK a \in Actor : WriteReg(a)
      BY <2>2
    <3>2. OpReg(a) \in ConfigRegs
      <4>1. todo[a] \in Seq(Steps) /\ todo[a] # <<>> /\ Head(todo[a])[1] \in {"write", "writeIfChanged"}
        BY <3>1 DEF WriteReg, AtWrite, AtOp, Calm
      <4>2. Head(todo[a]) \in Steps
        BY <4>1, StepLists
      <4> QED
        BY <4>1, <4>2, KindsApart DEF OpReg
    <3>3. f \notin FieldsIn[OpReg(a)]
      BY <3>2, StatusApart
    <3> QED
      BY <2>1, <3>1, <3>3 DEF WriteReg, Written
  <2>3. CASE \E w \in Field : Wire(w)
    BY <2>1, <2>3 DEF Wire, Not, Owned, Shape
  <2>4. CASE UNCHANGED hw
    BY <2>1, <2>4
  <2>5. (\E a \in Actor : WriteReg(a)) \/ (\E w \in Field : Wire(w)) \/ UNCHANGED hw
    BY Writers
  <2> QED
    BY <2>2, <2>3, <2>4, <2>5
<1> QED
  BY <1>1, <1>2, <1>3 DEF Calm

-----------------------------------------------------------------------------
(***************************************************************************)
(* Where a process is fits its tool and what it has in hand                *)
(***************************************************************************)
KindsAt(s) ==
    CASE s = "command" -> {"read", "write", "writeIfChanged"}
      [] s = "setup"   -> {"read", "write", "writeUnlessBreak"}
      [] s = "reset"   -> {"clear"}
      [] s \in {"restore", "setkey"} -> {"write"}
      [] s \in {"hello", "default", "again", "checks"} -> {"try"}
      [] s = "detect"  -> {"phy", "id", "compare", "echo"}
      [] OTHER -> {}
ToolsAt(s) ==
    CASE s = "command" -> {"rtl83xx", "rrcpcli"}
      [] s \in {"setup", "reset", "loop", "restore"} -> {"capture"}
      [] s \in {"hello", "default", "again", "setkey", "checks"} \cup Verdicts -> {"check_rrcp"}
      [] s \in {"detect", "detected"} -> {"detect"}
      [] OTHER -> {}
OfKinds(s, K) == \A n \in 1 .. Len(s) : s[n][1] \in K
Staged(a) ==
    /\ status[a] \in {"idle", "running", "done", "ended"}
    /\ Running(a) <=> stage[a] # "none"
    /\ Running(a) => sitting[a].tool \in ToolsAt(stage[a])
    /\ OfKinds(todo[a], KindsAt(stage[a]))

LEMMA KindsOf ==
    /\ \A K : OfKinds(<<>>, K)
    /\ \A S, K : \A s \in Seq(S) : s # <<>> /\ OfKinds(s, K) => Head(s)[1] \in K /\ OfKinds(Tail(s), K)
    /\ \A S, K : \A s, t \in Seq(S) : OfKinds(s, K) /\ OfKinds(t, K) => OfKinds(s \o t, K)
    /\ \A R, K : \A s \in Seq(K \X R) : OfKinds(s, K)
    /\ \A K, M, s : OfKinds(s, K) /\ K \subseteq M => OfKinds(s, M)
<1>1. ASSUME NEW S, NEW K, NEW s \in Seq(S), s # <<>>, OfKinds(s, K)
      PROVE  Head(s)[1] \in K /\ OfKinds(Tail(s), K)
  <2> DEFINE t == Tail(s)
  <2>1. /\ Len(s) \in Nat \ {0} /\ Len(t) = Len(s) - 1
        /\ Head(s) = s[1] /\ \A n \in 1 .. Len(s) - 1 : t[n] = s[n + 1]
    BY <1>1, TailOf
  <2> HIDE DEF t
  <2>2. \A n \in 1 .. Len(s) - 1 : n + 1 \in 1 .. Len(s)
    BY <2>1
  <2>3. 1 \in 1 .. Len(s)
    BY <2>1
  <2> QED
    BY <1>1, <2>1, <2>2, <2>3 DEF OfKinds, t
<1>2. ASSUME NEW S, NEW K, NEW s \in Seq(S), NEW t \in Seq(S), OfKinds(s, K), OfKinds(t, K)
      PROVE  OfKinds(s \o t, K)
  <2> DEFINE u == s \o t
  <2>1. /\ \A n \in 1 .. Len(s) : u[n] = s[n]
        /\ \A n \in 1 .. Len(u) : n \notin 1 .. Len(s) => n - Len(s) \in 1 .. Len(t) /\ u[n] = t[n - Len(s)]
    BY JoinOf
  <2> HIDE DEF u
  <2> QED
    BY <1>2, <2>1 DEF OfKinds, u
<1>3. ASSUME NEW R, NEW K, NEW s \in Seq(K \X R) PROVE OfKinds(s, K)
  <2> DEFINE W == K \X R
  <2>1. \A x \in W : x[1] \in K
    OBVIOUS
  <2>2. s \in Seq(W)
    OBVIOUS
  <2> HIDE DEF W
  <2>3. \A n \in 1 .. Len(s) : s[n] \in W
    BY <2>2
  <2> QED
    BY <2>1, <2>3 DEF OfKinds
<1>4. \A K : OfKinds(<<>>, K)
  BY DEF OfKinds
<1> QED
  BY <1>1, <1>2, <1>3, <1>4 DEF OfKinds

LEMMA KindLists ==
    /\ \A name \in Plain \cup {"loop_status", "loop_ports", "link"} :
          /\ OfKinds(Try(name), {"try"})
          /\ OfKinds(Reads(name), {"read"})
          /\ OfKinds(Writes(name), {"write"})
    /\ \A c : OfKinds(CheckOps(c), {"try"})
    /\ OfKinds(Learning \o CaptureSetup, {"read", "write", "writeUnlessBreak"})
    /\ OfKinds(Restoring, {"write"})
    /\ OfKinds(Ids, {"id"}) /\ OfKinds(Echoes, {"echo"}) /\ \A i : OfKinds(Compare(i), {"compare"})
<1>1. ASSUME NEW kind, NEW name \in Plain \cup {"loop_status", "loop_ports", "link"}
      PROVE  OfKinds(All(kind, name, 0), {kind})
  BY InAll, Names, KindsOf
<1>2. \A name \in Plain \cup {"loop_status", "loop_ports", "link"} :
          /\ OfKinds(Try(name), {"try"})
          /\ OfKinds(Reads(name), {"read"})
          /\ OfKinds(Writes(name), {"write"})
  BY <1>1 DEF Try, Reads, Writes
<1>3. \A c : OfKinds(CheckOps(c), {"try"})
  <2> SUFFICES ASSUME NEW c PROVE OfKinds(CheckOps(c), {"try"})
    OBVIOUS
  <2> DEFINE x == IF c.loop THEN Try("rrcp_config") ELSE <<>>
             y == IF c.vlan \/ c.dot1q THEN Try("vlan") ELSE <<>>
             z == IF c.up # {} THEN Try("link") ELSE <<>>
  <2>1. x \in Seq(Steps) /\ y \in Seq(Steps) /\ z \in Seq(Steps)
    BY TryLists, StepLists DEF Plain
  <2>2. OfKinds(x, {"try"}) /\ OfKinds(y, {"try"}) /\ OfKinds(z, {"try"})
    BY <1>2, KindsOf DEF Plain
  <2>3. CheckOps(c) = x \o y \o z
    BY DEF CheckOps
  <2> HIDE DEF x, y, z
  <2>4. x \o y \in Seq(Steps) /\ OfKinds(x \o y, {"try"})
    BY <2>1, <2>2, KindsOf, StepLists
  <2>5. OfKinds((x \o y) \o z, {"try"})
    <3> DEFINE v == x \o y
    <3>1. v \in Seq(Steps) /\ OfKinds(v, {"try"})
      BY <2>4
    <3> HIDE DEF v
    <3>2. OfKinds(v \o z, {"try"})
      BY <2>1, <2>2, <3>1, KindsOf
    <3> QED
      BY <3>2 DEF v
  <2> QED
    BY <2>3, <2>5
<1>4. /\ OfKinds(Learning \o CaptureSetup, {"read", "write", "writeUnlessBreak"})
      /\ OfKinds(Restoring, {"write"})
  <2> DEFINE words == [n \in 1 .. Parts("alt_mask") |->
                          <<IF n = 1 THEN "write" ELSE "writeUnlessBreak", <<"alt_mask", 0, n - 1>>>>]
             K == {"read", "write", "writeUnlessBreak"}
  <2>1. /\ \A name \in {"alt_config", "alt_mask"} : Reads(name) \in Seq(Steps) /\ Writes(name) \in Seq(Steps)
        /\ words \in Seq({"write", "writeUnlessBreak"} \X ConfigRegs)
    <3>1. \A name \in {"alt_config", "alt_mask"} : Reads(name) \in Seq(Steps) /\ Writes(name) \in Seq(Steps)
      BY PlainAccesses, StepLists DEF Plain
    <3>2. Parts("alt_mask") \in Nat
      BY PartsNat
    <3>3. \A n \in 1 .. Parts("alt_mask") : n - 1 \in 0 .. Parts("alt_mask") - 1
      BY <3>2
    <3>4. \A n \in 1 .. Parts("alt_mask") : <<"alt_mask", 0, n - 1>> \in ConfigRegs
      BY <3>3, Names DEF Reg, ConfigRegs, Plain
    <3> QED
      BY <3>1, <3>2, <3>4
  <2>2. /\ OfKinds(Reads("alt_config"), K) /\ OfKinds(Reads("alt_mask"), K)
        /\ OfKinds(Writes("alt_config"), K)
    BY <1>2, KindsOf DEF Plain
  <2>3. OfKinds(words, K) /\ words \in Seq(Steps)
    <3>1. OfKinds(words, {"write", "writeUnlessBreak"})
      BY <2>1, KindsOf
    <3>2. {"write", "writeUnlessBreak"} \X ConfigRegs \subseteq Steps
      BY DEF Steps, Accesses, Kinds
    <3>3. \A S, T : S \subseteq T => Seq(S) \subseteq Seq(T)
      OBVIOUS
    <3>4. words \in Seq(Steps)
      BY <2>1, <3>2, <3>3
    <3>5. {"write", "writeUnlessBreak"} \subseteq K
      OBVIOUS
    <3> HIDE DEF words, K
    <3> QED
      BY <3>1, <3>4, <3>5, KindsOf
  <2>4. CaptureSetup = Writes("alt_config") \o words
    BY DEF CaptureSetup
  <2>7. OfKinds(Restoring, {"write"})
    <3>1. OfKinds(Writes("alt_config"), {"write"}) /\ OfKinds(Writes("alt_mask"), {"write"})
      BY <1>2 DEF Plain
    <3> QED
      BY <2>1, <3>1, KindsOf DEF Restoring
  <2> HIDE DEF words, K
  <2>5. Learning \in Seq(Steps) /\ OfKinds(Learning, K)
    BY <2>1, <2>2, KindsOf, StepLists DEF Learning
  <2>6. CaptureSetup \in Seq(Steps) /\ OfKinds(CaptureSetup, K)
    BY <2>1, <2>2, <2>3, <2>4, KindsOf, StepLists
  <2> QED
    BY <2>5, <2>6, <2>7, KindsOf DEF K
<1>5. OfKinds(Ids, {"id"}) /\ OfKinds(Echoes, {"echo"}) /\ \A i : OfKinds(Compare(i), {"compare"})
  <2>1. IdBytes \in Nat
    BY DetectionAssumption
  <2> QED
    BY <2>1 DEF OfKinds, Ids, Echoes, Compare
<1> QED
  BY <1>2, <1>3, <1>4, <1>5

\* The stages, and what goes with each.
LEMMA Stages ==
    /\ KindsAt("command") = {"read", "write", "writeIfChanged"} /\ ToolsAt("command") = {"rtl83xx", "rrcpcli"}
    /\ KindsAt("setup") = {"read", "write", "writeUnlessBreak"} /\ ToolsAt("setup") = {"capture"}
    /\ KindsAt("reset") = {"clear"} /\ ToolsAt("reset") = {"capture"}
    /\ KindsAt("restore") = {"write"} /\ ToolsAt("restore") = {"capture"}
    /\ KindsAt("setkey") = {"write"} /\ ToolsAt("setkey") = {"check_rrcp"}
    /\ \A s \in {"hello", "default", "again", "checks"} :
          KindsAt(s) = {"try"} /\ ToolsAt(s) = {"check_rrcp"}
    /\ \A s \in Verdicts : KindsAt(s) = {} /\ ToolsAt(s) = {"check_rrcp"}
    /\ KindsAt("detect") = {"phy", "id", "compare", "echo"} /\ ToolsAt("detect") = {"detect"}
    /\ KindsAt("detected") = {} /\ ToolsAt("detected") = {"detect"}
    /\ KindsAt("loop") = {} /\ ToolsAt("loop") = {"capture"}
    /\ KindsAt("none") = {} /\ ToolsAt("none") = {}
BY DEF KindsAt, ToolsAt, Verdicts

\* Where a process can be when an access of a kind comes next.
LEMMA AtStage ==
    ASSUME NEW s, NEW kind \in KindsAt(s)
    PROVE  /\ kind = "clear" => s = "reset"
           /\ kind = "writeIfChanged" => s = "command"
           /\ kind = "writeUnlessBreak" => s = "setup"
           /\ kind = "read" => s \in {"command", "setup"}
           /\ kind = "write" => s \in {"command", "setup", "restore", "setkey"}
           /\ kind = "try" => s \in {"hello", "default", "again", "checks"}
           /\ kind \in {"phy", "id", "compare", "echo"} => s = "detect"
BY DEF KindsAt

LEMMA StagedStep ==
    ASSUME Owned, Calm, NEW a \in Actor, Staged(a), Step(a),
           GiveCommand(a) => \A c : IsRrcpCli(c) => GoodCli(CliJob(a, c))
    PROVE  Staged(a)'
<1>1. todo[a] \in Seq(Steps) /\ sitting' = sitting
  BY RestStep DEF Calm
<1>0. /\ \A x : todo' = [todo EXCEPT ![a] = x] => todo'[a] = x
      /\ \A x : stage' = [stage EXCEPT ![a] = x] => stage'[a] = x
      /\ \A x : status' = [status EXCEPT ![a] = x] => status'[a] = x
  BY DEF Owned, Rest, Shape, OfActors
<1>14. KindsAt("none") = {}
  BY Stages
<1>2. ASSUME NEW kind, AtOp(a, kind)
      PROVE  /\ Head(todo[a])[1] = kind /\ kind \in KindsAt(stage[a])
             /\ Head(todo[a]) \in Steps
             /\ Tail(todo[a]) \in Seq(Steps) /\ OfKinds(Tail(todo[a]), KindsAt(stage[a]))
  BY <1>1, <1>2, KindsOf, StepLists DEF Staged, AtOp
\* A process that goes on, at a stage of its tool.
<1>3. ASSUME Running(a), status'[a] = status[a], sitting[a].tool \in ToolsAt(stage'[a]),
             stage'[a] # "none", OfKinds(todo'[a], KindsAt(stage'[a]))
      PROVE  Staged(a)'
  BY <1>1, <1>3 DEF Staged, Running
<1>4. ASSUME Running(a), UNCHANGED <<status, stage>>, OfKinds(todo'[a], KindsAt(stage[a]))
      PROVE  Staged(a)'
  BY <1>3, <1>4 DEF Staged
<1>5. ASSUME NEW kind, AtOp(a, kind), Advance(a), UNCHANGED <<status, stage>> PROVE Staged(a)'
  BY <1>0, <1>2, <1>4, <1>5 DEF Advance, AtOp
<1>6. ASSUME NEW c, NEW job, NEW s, Begin(a, c, job, s), s # "none",
             sitting[a].tool \in ToolsAt(s), OfKinds(job.ops, KindsAt(s))
      PROVE  Staged(a)'
  <2>1. todo'[a] = job.ops /\ stage'[a] = s /\ status'[a] = "running"
    BY <1>0, <1>6 DEF Begin
  <2> QED
    BY <1>1, <1>6, <2>1 DEF Staged, Running
<1>7. ASSUME NEW how \in {"done", "ended"}, Exit(a, how) PROVE Staged(a)'
  <2>1. todo'[a] = <<>> /\ stage'[a] = "none" /\ status'[a] = how
    BY <1>0, <1>7 DEF Exit, Leave
  <2>2. OfKinds(<<>>, KindsAt("none"))
    BY DEF OfKinds
  <2> QED
    BY <2>1, <2>2 DEF Staged, Running
<1>8. \A ops, e : Job(ops, e).ops = ops
  BY DEF Job
<1>9. ASSUME NEW s, NEW ops, GoOn(a, s, ops), Running(a), UNCHANGED status, s # "none",
             sitting[a].tool \in ToolsAt(s), OfKinds(ops, KindsAt(s))
      PROVE  Staged(a)'
  BY <1>0, <1>3, <1>9 DEF GoOn
<1>10. CASE Session(a)
  <2>1. CASE StartRtl83xx(a)
    <3>1. PICK c \in sitting[a].commands, wraps \in BOOLEAN :
             Begin(a, c, Rtl83xxJob(c, wraps), "command")
      BY <2>1 DEF StartRtl83xx
    <3>2. IsRtl83xx(c)
      BY <2>1, CommandsAssumption DEF StartRtl83xx, Is, Calm
    <3>3. Rtl83xxJob(c, wraps).ops \in Seq(Commands)
      BY <3>2, GoodRtl83xxJob DEF GoodJob
    <3>4. OfKinds(Rtl83xxJob(c, wraps).ops, {"read", "write", "writeIfChanged"})
      BY <3>3, KindsOf DEF Commands
    <3> QED
      BY <1>6, <2>1, <3>1, <3>4, Stages DEF StartRtl83xx, Is
  <2>2. CASE StartRrcpCli(a)
    <3>1. OfKinds(ReadConfig, KindsAt("command"))
      <4>1. OfKinds(ReadConfig, {"read"})
        BY ConfigIn, KindsOf
      <4> QED
        BY <4>1, Stages DEF OfKinds
    <3>2. sitting[a].tool \in ToolsAt("command") /\ Begin(a, NoCmd, Job(ReadConfig, Keep), "command")
      BY <2>2, Stages DEF StartRrcpCli, Is
    <3>3. Job(ReadConfig, Keep).ops = ReadConfig
      BY <1>8
    <3> QED
      BY <1>6, <3>1, <3>2, <3>3
  <2>3. CASE GiveCommand(a)
    <3>1. PICK c \in sitting[a].commands : todo' = [todo EXCEPT ![a] = CliJob(a, c).ops]
      BY <2>3 DEF GiveCommand
    <3>2. IsRrcpCli(c) /\ Is(a, "rrcpcli") /\ Running(a)
      BY <2>3, CommandsAssumption DEF GiveCommand, Prompt, Is, Calm
    <3>3. OfKinds(CliJob(a, c).ops, {"read", "write", "writeIfChanged"})
      <4>1. CliJob(a, c).ops \in Seq({"write"} \X ConfigRegs)
        BY <2>3, <3>2 DEF GoodCli
      <4>2. OfKinds(CliJob(a, c).ops, {"write"})
        BY <4>1, KindsOf
      <4> QED
        BY <4>2 DEF OfKinds
    <3>4. stage[a] = "command"
      BY <3>2 DEF Staged, Is, ToolsAt, Verdicts
    <3>5. todo'[a] = CliJob(a, c).ops
      BY <1>0, <3>1
    <3>6. OfKinds(todo'[a], KindsAt(stage[a]))
      BY <3>3, <3>4, <3>5, Stages
    <3> QED
      BY <1>4, <2>3, <3>2, <3>6 DEF GiveCommand
  <2>4. CASE Access(a)
    BY <1>5, <2>4 DEF Access, ReadReg, WriteReg, LoseWrite, SkipWrite, AtWrite, toolVars
  <2>5. CASE Finish(a) \/ EndInside(a)
    BY <1>7, <2>5 DEF Finish, EndInside
  <2> QED
    BY <1>10, <2>1, <2>2, <2>3, <2>4, <2>5 DEF Session
<1>11. CASE Capture(a)
  <2>1. CASE StartCapture(a)
    <3>1. PICK c, e : Begin(a, c, Job(Learning \o CaptureSetup, e), "setup")
      BY <2>1 DEF StartCapture
    <3>2. OfKinds(Learning \o CaptureSetup, KindsAt("setup"))
      BY KindLists, Stages
    <3>3. sitting[a].tool \in ToolsAt("setup")
      BY <2>1, Stages DEF StartCapture, Is
    <3>4. Job(Learning \o CaptureSetup, e).ops = Learning \o CaptureSetup
      BY <1>8
    <3> QED
      BY <1>6, <3>1, <3>2, <3>3, <3>4
  <2>2. CASE Signal(a)
    BY <1>4, <2>2 DEF Signal, sharedVars, Handled, Staged
  <2>3. CASE SetSecondWord(a)
    <3>1. /\ Tail(todo[a]) \in Seq(Steps) /\ OfKinds(Tail(todo[a]), KindsAt(stage[a]))
          /\ OpReg(a) \in ConfigRegs /\ stage[a] = "setup" /\ Running(a)
      BY <1>2, <2>3, KindsApart, AtStage DEF SetSecondWord, OpReg, AtOp
    <3>2. <<"write", OpReg(a)>> \in Steps
      BY <3>1 DEF Steps, Accesses, Kinds
    <3> DEFINE word == IF Broken(a) THEN <<>> ELSE <<<<"write", OpReg(a)>>>>
    <3>3. word \in Seq(Steps) /\ OfKinds(word, KindsAt(stage[a]))
      BY <3>1, <3>2, StepLists, KindsOf, Stages DEF OfKinds
    <3>4. todo'[a] = word \o Tail(todo[a]) /\ UNCHANGED <<status, stage>>
      BY <2>3 DEF SetSecondWord, toolVars, Owned, Rest, OfActors
    <3> HIDE DEF word
    <3> QED
      BY <1>4, <3>1, <3>3, <3>4, KindsOf
  <2>4. CASE BeginReset(a)
    <3>1. OfKinds([n \in 1 .. 4 |-> <<"clear", n>>], {"clear"})
      BY DEF OfKinds
    <3>2. stage'[a] = "reset" /\ OfKinds(todo'[a], {"clear"}) /\ Running(a) /\ UNCHANGED status
      BY <1>0, <2>4, <3>1 DEF BeginReset
    <3>3. sitting[a].tool \in ToolsAt("reset") /\ KindsAt("reset") = {"clear"}
      BY <2>4, Stages DEF BeginReset, Is
    <3> QED
      BY <1>3, <3>2, <3>3
  <2>5. ASSUME Restore(a), Running(a), stage[a] \in {"reset", "loop"} PROVE Staged(a)'
    <3>1. sitting[a].tool \in {"capture"}
      BY <2>5, Stages DEF Staged
    <3>2. stage'[a] = "restore" /\ OfKinds(todo'[a], {"write"}) /\ UNCHANGED status
      BY <1>0, <2>5, KindLists DEF Restore
    <3> QED
      BY <1>3, <2>5, <3>1, <3>2, Stages
  <2>6. CASE ClearCaptured(a)
    <3>1. stage[a] = "reset" /\ Running(a) /\ OfKinds(Tail(todo[a]), {"clear"})
      <4>1. AtOp(a, "clear") /\ Running(a)
        BY <2>6 DEF ClearCaptured, AtOp
      <4>2. stage[a] = "reset"
        BY <1>2, <4>1, AtStage
      <4>3. KindsAt(stage[a]) = {"clear"}
        BY <4>2, Stages
      <4> QED
        BY <1>2, <4>1, <4>2, <4>3
    <3>2. CASE Broken(a)
      BY <2>5, <2>6, <3>1, <3>2 DEF ClearCaptured
    <3>3. CASE ~Broken(a)
      <4>1. /\ todo'[a] = Tail(todo[a]) /\ UNCHANGED status
            /\ stage'[a] = IF todo'[a] = <<>> THEN "loop" ELSE "reset"
        BY <2>6, <3>3 DEF ClearCaptured, Restore, Advance, Owned, Rest, Shape, OfActors
      <4>2. sitting[a].tool \in {"capture"}
        BY <3>1, Stages DEF Staged
      <4> QED
        <5>1. CASE todo'[a] = <<>>
          <6>1. OfKinds(todo'[a], KindsAt("loop")) /\ sitting[a].tool \in ToolsAt("loop")
            BY <4>2, <5>1, KindsOf, Stages
          <6> QED
            BY <1>3, <3>1, <4>1, <5>1, <6>1
        <5>2. CASE todo'[a] # <<>>
          <6>1. OfKinds(todo'[a], KindsAt("reset")) /\ sitting[a].tool \in ToolsAt("reset")
            BY <3>1, <4>1, <4>2, Stages
          <6> QED
            BY <1>3, <3>1, <4>1, <5>2, <6>1
        <5> QED
          BY <5>1, <5>2
    <3> QED
      BY <3>2, <3>3
  <2>7. CASE StopCapturing(a)
    BY <2>5, <2>7 DEF StopCapturing
  <2>8. CASE FinishCapture(a)
    BY <1>7, <2>8 DEF FinishCapture
  <2> QED
    BY <1>11, <2>1, <2>2, <2>3, <2>4, <2>6, <2>7, <2>8 DEF Capture
<1>12. CASE CheckRun(a)
  <2>1. /\ OfKinds(Try("loop_status"), {"try"}) /\ OfKinds(Try("loop_ports"), {"try"})
        /\ OfKinds(Writes("authkey"), {"write"}) /\ \A c : OfKinds(CheckOps(c), {"try"})
    BY KindLists DEF Plain
  <2>10. ASSUME NEW ops, OfKinds(ops, {"try"}), NEW s \in {"hello", "default", "again", "checks"},
                GoOn(a, s, ops), Running(a), UNCHANGED status, sitting[a].tool \in {"check_rrcp"}
         PROVE  Staged(a)'
    <3>1. OfKinds(ops, KindsAt(s)) /\ sitting[a].tool \in ToolsAt(s) /\ s # "none"
      BY <2>10, Stages
    <3> QED
      BY <1>9, <2>10, <3>1
  <2>11. ASSUME NEW v \in Verdicts, Quit(a, v), Running(a), UNCHANGED status, sitting[a].tool \in {"check_rrcp"}
         PROVE  Staged(a)'
    <3>1. OfKinds(<<>>, KindsAt(v)) /\ sitting[a].tool \in ToolsAt(v) /\ v # "none"
      BY <2>11, Stages, KindsOf DEF Verdicts
    <3> QED
      BY <1>9, <2>11, <3>1 DEF Quit
  <2>2. CASE StartCheck(a)
    <3>1. PICK c : Begin(a, c, Job(Try("loop_status"), Keep), "hello")
      BY <2>2 DEF StartCheck
    <3>2. OfKinds(Try("loop_status"), KindsAt("hello"))
      BY <2>1, Stages
    <3>3. sitting[a].tool \in ToolsAt("hello")
      BY <2>2, Stages DEF StartCheck, Is
    <3>4. Job(Try("loop_status"), Keep).ops = Try("loop_status")
      BY <1>8
    <3> QED
      BY <1>6, <3>1, <3>2, <3>3, <3>4
  <2>3. CASE HelloAnswered(a)
    <3>1. /\ Running(a) /\ UNCHANGED status /\ stage[a] \in {"hello", "default", "again"}
          /\ \/ GoOn(a, "checks", CheckOps(cmd[a]))
             \/ GoOn(a, "setkey", Writes("authkey"))
      BY <2>3 DEF HelloAnswered, AtOp
    <3>2. sitting[a].tool \in {"check_rrcp"}
      BY <3>1, Stages DEF Staged
    <3>3. OfKinds(Writes("authkey"), KindsAt("setkey")) /\ sitting[a].tool \in ToolsAt("setkey")
      BY <2>1, <3>2, Stages
    <3> QED
      BY <1>9, <2>1, <2>10, <3>1, <3>2, <3>3
  <2>4. CASE UseNewKey(a)
    <3>1. Running(a) /\ UNCHANGED status /\ stage[a] = "setkey" /\ GoOn(a, "again", Try("loop_status"))
      BY <2>4 DEF UseNewKey
    <3>2. sitting[a].tool \in {"check_rrcp"}
      BY <3>1, Stages DEF Staged
    <3> QED
      BY <2>1, <2>10, <3>1, <3>2
  <2>5. CASE HelloFails(a)
    <3>1. /\ Running(a) /\ sitting[a].tool \in {"check_rrcp"} /\ UNCHANGED status
          /\ OfKinds(todo[a], {"try"})
      <4>1. Running(a) /\ UNCHANGED status /\ stage[a] \in {"hello", "default", "again"}
        BY <2>5 DEF HelloFails, AtOp
      <4>2. KindsAt(stage[a]) = {"try"} /\ ToolsAt(stage[a]) = {"check_rrcp"}
        BY <4>1, Stages
      <4> QED
        BY <4>1, <4>2 DEF Staged
    <3>2. GoOn(a, "default", todo[a]) \/ Quit(a, "CRITICAL")
      BY <2>5 DEF HelloFails
    <3> QED
      BY <2>10, <2>11, <3>1, <3>2 DEF Verdicts
  <2>6. CASE Conclude(a) \/ Alarm(a)
    <3>1. /\ Running(a) /\ sitting[a].tool \in {"check_rrcp"} /\ UNCHANGED status
      BY <2>6, Stages DEF Conclude, Alarm, Staged, Is
    <3>2. PICK v \in Verdicts : Quit(a, v)
      BY <2>6 DEF Conclude, Alarm, Verdicts
    <3> QED
      BY <2>11, <3>1, <3>2
  <2>7. CASE CheckAnswered(a)
    <3> DEFINE more == IF /\ OpReg(a)[1] = "rrcp_config"
                          /\ Saw(a, Flag("loop_enable")) = 1
                          /\ Saw(a, Flag("loop_found")) = 1
                       THEN Try("loop_ports") ELSE <<>>
    <3>1. /\ more \in Seq(Steps) /\ OfKinds(more, {"try"})
          /\ Tail(todo[a]) \in Seq(Steps) /\ OfKinds(Tail(todo[a]), {"try"})
      <4>1. Try("loop_ports") \in Seq(Steps) /\ <<>> \in Seq(Steps)
        BY TryLists, StepLists
      <4>2. Tail(todo[a]) \in Seq(Steps) /\ OfKinds(Tail(todo[a]), {"try"})
        <5>1. AtOp(a, "try") /\ stage[a] = "checks"
          BY <2>7 DEF CheckAnswered
        <5>2. KindsAt(stage[a]) = {"try"}
          BY <5>1, Stages
        <5> QED
          BY <1>2, <5>1, <5>2
      <4> QED
        BY <2>1, <4>1, <4>2, KindsOf
    <3>2. todo'[a] = more \o Tail(todo[a]) /\ UNCHANGED <<status, stage>> /\ Running(a) /\ stage[a] = "checks"
      BY <2>7 DEF CheckAnswered, toolVars, AtOp, Owned, Rest, OfActors
    <3> HIDE DEF more
    <3>3. OfKinds(todo'[a], KindsAt(stage[a]))
      <4>1. OfKinds(more \o Tail(todo[a]), {"try"})
        BY <3>1, KindsOf
      <4>2. KindsAt(stage[a]) = {"try"}
        BY <3>2, Stages
      <4> QED
        BY <3>2, <4>1, <4>2
    <3> QED
      BY <1>4, <3>2, <3>3
  <2>8. CASE CheckFails(a)
    <3>1. Running(a) /\ UNCHANGED <<status, stage>> /\ stage[a] = "checks"
      BY <2>8 DEF CheckFails, AtOp
    <3>2. todo'[a] = <<>> \/ todo'[a] = Tail(todo[a])
      BY <2>8 DEF CheckFails, Owned, Rest, OfActors
    <3>3. OfKinds(Tail(todo[a]), KindsAt(stage[a]))
      BY <1>2, <2>8 DEF CheckFails
    <3> QED
      BY <1>4, <3>1, <3>2, <3>3, KindsOf
  <2>9. CASE ExitCheck(a)
    BY <1>7, <2>9 DEF ExitCheck
  <2> QED
    BY <1>12, <2>2, <2>3, <2>4, <2>5, <2>6, <2>7, <2>8, <2>9 DEF CheckRun
<1>13. CASE DetectRun(a)
  <2> DEFINE K == {"phy", "id", "compare", "echo"}
  <2>1. ASSUME NEW ops, OfKinds(ops, K), NEW learnt, NextSteps(a, ops, learnt), Running(a), stage[a] = "detect"
        PROVE  Staged(a)'
    <3>1. todo'[a] = ops /\ UNCHANGED <<status, stage>>
      BY <1>0, <2>1 DEF NextSteps
    <3>2. OfKinds(todo'[a], KindsAt(stage[a]))
      BY <2>1, <3>1, Stages
    <3> QED
      BY <1>4, <2>1, <3>1, <3>2
  <2>2. CASE StartDetection(a)
    <3>1. OfKinds(<<<<"phy", 3>>>>, K)
      BY DEF OfKinds
    <3>2. PICK c : Begin(a, c, Job(<<<<"phy", 3>>>>, Keep), "detect")
      BY <2>2 DEF StartDetection
    <3>3. OfKinds(<<<<"phy", 3>>>>, KindsAt("detect")) /\ sitting[a].tool \in ToolsAt("detect")
      BY <2>2, <3>1, Stages DEF StartDetection, Is
    <3>4. Job(<<<<"phy", 3>>>>, Keep).ops = <<<<"phy", 3>>>>
      BY <1>8
    <3> QED
      BY <1>6, <3>2, <3>3, <3>4
  <2>3. OfKinds(Ids, K) /\ OfKinds(Echoes, K) /\ (\A i : OfKinds(Compare(i), K)) /\ OfKinds(<<>>, K)
    BY KindLists, KindsOf
  <2>4. ASSUME NEW kind \in K, AtOp(a, kind)
        PROVE  Running(a) /\ stage[a] = "detect" /\ OfKinds(Tail(todo[a]), K)
    <3>1. stage[a] = "detect" /\ Running(a) /\ KindsAt("detect") = K
      BY <1>2, <2>4, AtStage, Stages DEF AtOp
    <3> QED
      BY <1>2, <2>4, <3>1
  <2> HIDE DEF K
  <2>5. \A kind \in {"phy", "id", "compare", "echo"} : kind \in K
    BY DEF K
  <2>6. CASE CountPorts(a)
    BY <2>1, <2>3, <2>4, <2>5, <2>6 DEF CountPorts, AtStep
  <2>7. CASE ReadId(a)
    BY <2>1, <2>3, <2>4, <2>5, <2>7 DEF ReadId, AtStep
  <2>8. CASE CompareByte(a)
    BY <2>1, <2>3, <2>4, <2>5, <2>8 DEF CompareByte, AtStep, PastEnd, NextPlace, EndsUnread
  <2>9. CASE TestEcho(a)
    BY <2>1, <2>3, <2>4, <2>5, <2>9 DEF TestEcho, AtStep
  <2>10. CASE Decide(a)
    <3>1. Running(a) /\ todo'[a] = <<>> /\ stage'[a] = "detected" /\ UNCHANGED status
      BY <1>0, <2>10 DEF Decide, Reaches, sharedVars, Owned, Shape, OfActors
    <3> QED
      BY <1>3, <2>10, <3>1, KindsOf, Stages DEF Decide, Is
  <2>11. CASE FinishDetection(a)
    BY <1>7, <2>11 DEF FinishDetection
  <2> QED
    BY <1>13, <2>2, <2>6, <2>7, <2>8, <2>9, <2>10, <2>11 DEF DetectRun
<1> QED
  BY <1>10, <1>11, <1>12, <1>13 DEF Step

LEMMA StagedApart ==
    ASSUME NEW a \in Actor, Staged(a), Apart(a) \/ UNCHANGED vars
    PROVE  Staged(a)'
BY DEF Staged, Apart, Running, vars, sharedVars, toolVars

\* What a process knows of the registers: the fields it has read.  Learning
\* and the ports it is turned off on are what a capture sets.
Held(a) == {f \in Field : copy[a][f] # Unread}
LearningFields == NameFields("alt_config", 0) \cup NameFields("alt_mask", 0)
Clearing(a) == cmd[a].word = "vlan clear" /\ Is(a, "rtl83xx")

\* What it holds and sets are values its fields may hold; what it writes it
\* has set, or read, or will read before.
Typed(a) ==
    /\ \A f \in Held(a) : copy[a][f] \in Legal(f)
    /\ IsEdit(edit[a])
Prepared(a) == Running(a) =>
    /\ Sourced(todo[a], Held(a) \cup DOMAIN edit[a])
    /\ Is(a, "rrcpcli") => CliFields \subseteq Held(a) \cup ReadIn(todo[a])
    /\ stage[a] \in {"setup", "reset", "loop"} =>
          DOMAIN edit[a] \subseteq LearningFields /\ LearningFields \subseteq Held(a) \cup ReadIn(todo[a])
    /\ Clearing(a) => ClearOrder(todo[a])
    /\ Is(a, "check_rrcp") => cmd[a].authkey \in Nat

LEMMA LegalRead == \A f : Unread \notin Legal(f)
BY UnreadAssumption DEF Legal

LEMMA SourcedMore ==
    ASSUME NEW s, NEW K, NEW M, K \subseteq M, Sourced(s, K)
    PROVE  Sourced(s, M)
BY DEF Sourced

\* Steps that neither read nor write a register of the configuration.
LEMMA IdleLists ==
    ASSUME NEW s, OfKinds(s, {"try", "clear", "phy", "id", "compare", "echo"})
    PROVE  (\A K : Sourced(s, K)) /\ ReadIn(s) = {} /\ ClearOrder(s)
BY DEF OfKinds, Sourced, ReadIn, ClearOrder, Reading, Storing

LEMMA NoneLeft == (\A K : Sourced(<<>>, K)) /\ ReadIn(<<>>) = {} /\ ClearOrder(<<>>)
BY DEF Sourced, ReadIn, ClearOrder

\* What goes from a list before its end.
LEMMA NextRead ==
    ASSUME Calm, NEW a \in Actor, AtOp(a, "read")
    PROVE  /\ OpReg(a) \in ConfigRegs /\ OpReg(a) \in Reg /\ FieldsIn[OpReg(a)] \subseteq Field
           /\ \A K : Sourced(todo[a], K) => Sourced(Tail(todo[a]), K \cup FieldsIn[OpReg(a)])
           /\ ReadIn(todo[a]) = FieldsIn[OpReg(a)] \cup ReadIn(Tail(todo[a]))
           /\ ClearOrder(todo[a]) => ClearOrder(Tail(todo[a])) /\ OpReg(a) = <<"vlan", 0, 0>>
<1>1. /\ todo[a] \in Seq(Steps) /\ todo[a] # <<>> /\ Head(todo[a]) \in Steps
      /\ Head(todo[a])[1] = "read" /\ OpReg(a) = Head(todo[a])[2]
  BY StepLists DEF AtOp, Calm, OpReg
<1>2. Reading(Head(todo[a])) /\ OpReg(a) \in ConfigRegs
  BY <1>1, KindsApart DEF Reading
<1>3. OpReg(a) \in Reg
  BY <1>2 DEF ConfigRegs
<1> QED
  BY <1>1, <1>2, <1>3, RestSourced, RestRead, RestClears, RegFields

LEMMA NextOther ==
    ASSUME Calm, NEW a \in Actor, NEW kind, kind # "read", AtOp(a, kind)
    PROVE  /\ \A K : Sourced(todo[a], K) => Sourced(Tail(todo[a]), K)
           /\ ReadIn(todo[a]) = ReadIn(Tail(todo[a]))
           /\ ClearOrder(todo[a]) => ClearOrder(Tail(todo[a]))
           /\ kind \in {"write", "writeIfChanged", "writeUnlessBreak"} =>
                 /\ OpReg(a) \in ConfigRegs /\ FieldsIn[OpReg(a)] \subseteq Field
                 /\ \A K : Sourced(todo[a], K) => FieldsIn[OpReg(a)] \subseteq K
<1>1. /\ todo[a] \in Seq(Steps) /\ todo[a] # <<>> /\ Head(todo[a]) \in Steps
      /\ Head(todo[a])[1] = kind /\ OpReg(a) = Head(todo[a])[2]
  BY StepLists DEF AtOp, Calm, OpReg
<1>2. ~Reading(Head(todo[a]))
  BY <1>1 DEF Reading
<1>3. ASSUME kind \in {"write", "writeIfChanged", "writeUnlessBreak"}
      PROVE  /\ OpReg(a) \in ConfigRegs /\ FieldsIn[OpReg(a)] \subseteq Field
             /\ \A K : Sourced(todo[a], K) => FieldsIn[OpReg(a)] \subseteq K
  <2>1. Storing(Head(todo[a]))
    BY <1>1, <1>3 DEF Storing
  <2>2. OpReg(a) \in ConfigRegs
    BY <1>1, <1>3, KindsApart
  <2>3. OpReg(a) \in Reg
    BY <2>2 DEF ConfigRegs
  <2> QED
    BY <1>1, <2>1, <2>2, <2>3, RestSourced, RegFields
<1> QED
  BY <1>1, <1>2, <1>3, RestSourced, RestRead, RestClears

\* What a capture sets, reads, writes and puts back.
LEMMA CaptureEdits ==
    ASSUME NEW ports, NEW facing
    PROVE  IsEdit(CaptureEdit(ports, facing)) /\ DOMAIN CaptureEdit(ports, facing) \subseteq LearningFields
<1> DEFINE e1 == Flags({"mac_aging_disable"}, 0)
           e2 == Flags({"mac_aging_fast"}, 1)
           e3 == [f \in {Port("alt_mask", q) : q \in PhysPorts} |->
                     IF f[3] \in ports \ {facing} THEN 1 ELSE 0]
<1>1. /\ IsEdit(e1) /\ DOMAIN e1 \subseteq NameFields("alt_config", 0)
      /\ IsEdit(e2) /\ DOMAIN e2 \subseteq NameFields("alt_config", 0)
  <2>1. "alt_config" \in Plain \cap DOMAIN FlagRegs /\ {"mac_aging_disable"} \in SUBSET FlagRegs["alt_config"]
        /\ {"mac_aging_fast"} \in SUBSET FlagRegs["alt_config"] /\ 0 \in Nat /\ 1 \in Nat
    BY FlagNames
  <2> QED
    BY <2>1, FlagEdits
<1>2. IsEdit(e3) /\ DOMAIN e3 \subseteq NameFields("alt_mask", 0)
  <2>1. /\ "alt_mask" \in Plain \cap DOMAIN PortRegs /\ "alt_mask" \in PortRegs["alt_mask"].fields
        /\ PhysPorts \in SUBSET PhysPorts
        /\ \A q : Legal(Port("alt_mask", q)) = Nat
    BY PortNames DEF Numbered
  <2>2. DOMAIN e3 = {Port("alt_mask", q) : q \in PhysPorts}
        /\ \A q \in PhysPorts : e3[Port("alt_mask", q)] \in Legal(Port("alt_mask", q))
    BY <2>1
  <2> HIDE DEF e3
  <2> QED
    BY <2>1, <2>2, PortEdits
<1>3. CaptureEdit(ports, facing) = e1 ++ e2 ++ e3
  BY DEF CaptureEdit
<1> HIDE DEF e1, e2, e3
<1>4. IsEdit(e1 ++ e2) /\ DOMAIN (e1 ++ e2) = DOMAIN e1 \cup DOMAIN e2
  BY <1>1, OverEdits
<1>5. IsEdit((e1 ++ e2) ++ e3) /\ DOMAIN ((e1 ++ e2) ++ e3) = DOMAIN (e1 ++ e2) \cup DOMAIN e3
  BY <1>2, <1>4, OverEdits
<1> QED
  BY <1>1, <1>2, <1>3, <1>4, <1>5 DEF LearningFields

LEMMA CaptureOrder ==
    /\ \A K : Sourced(Learning \o CaptureSetup, K)
    /\ LearningFields \subseteq ReadIn(Learning \o CaptureSetup)
    /\ \A K : LearningFields \subseteq K => Sourced(Restoring, K)
<1> DEFINE R == ConfigRegs
           words == [n \in 1 .. Parts("alt_mask") |->
                        <<IF n = 1 THEN "write" ELSE "writeUnlessBreak", <<"alt_mask", 0, n - 1>>>>]
<1>1. /\ Reads("alt_config") \in Seq({"read"} \X R) /\ Reads("alt_mask") \in Seq({"read"} \X R)
      /\ ReadIn(Reads("alt_config")) = NameFields("alt_config", 0)
      /\ ReadIn(Reads("alt_mask")) = NameFields("alt_mask", 0)
      /\ Writes("alt_config") \in Seq({"write"} \X R) /\ Writes("alt_mask") \in Seq({"write"} \X R)
      /\ StoredIn(Writes("alt_config")) = NameFields("alt_config", 0)
      /\ StoredIn(Writes("alt_mask")) = NameFields("alt_mask", 0)
  BY PlainFields DEF Plain
<1>2. Parts("alt_mask") \in Nat /\ \A n \in 1 .. Parts("alt_mask") : <<"alt_mask", 0, n - 1>> \in R
  <2>1. Parts("alt_mask") \in Nat
    BY PartsNat
  <2>2. \A n \in 1 .. Parts("alt_mask") : n - 1 \in 0 .. Parts("alt_mask") - 1
    BY <2>1
  <2> QED
    BY <2>1, <2>2, Names DEF Reg, ConfigRegs, Plain
<1>3. \A n \in 1 .. Parts("alt_mask") : FieldsIn[<<"alt_mask", 0, n - 1>>] \subseteq NameFields("alt_mask", 0)
  BY <1>2 DEF NameFields, ConfigRegs
<1>4. CaptureSetup = Writes("alt_config") \o words
  BY DEF CaptureSetup
<1>5. /\ words \in Seq({"write", "writeUnlessBreak"} \X R)
      /\ \A K : NameFields("alt_mask", 0) \subseteq K => Sourced(words, K)
  <2>2. \A K : NameFields("alt_mask", 0) \subseteq K => Sourced(words, K)
    <3> SUFFICES ASSUME NEW K, NameFields("alt_mask", 0) \subseteq K,
                        NEW n \in 1 .. Len(words), NEW f \in FieldsIn[words[n][2]]
                 PROVE  f \in K
      BY DEF Sourced
    <3>1. n \in 1 .. Parts("alt_mask") /\ words[n][2] = <<"alt_mask", 0, n - 1>>
      BY <1>2
    <3> QED
      BY <1>3, <3>1
  <2> HIDE DEF R
  <2>1. words \in Seq({"write", "writeUnlessBreak"} \X R)
    BY <1>2
  <2> QED
    BY <2>1, <2>2
<1> HIDE DEF R, words
<1>6. Learning \in Seq({"read"} \X R) /\ ReadIn(Learning) = LearningFields
  BY <1>1, JoinOf, JoinFields DEF Learning, LearningFields
<1>7. ASSUME NEW K, LearningFields \subseteq K PROVE Sourced(CaptureSetup, K) /\ Sourced(Restoring, K)
  <2> DEFINE W == {"write", "writeUnlessBreak"} \X R
             c == Writes("alt_config")
             m == Writes("alt_mask")
  <2>1. \A S, T : S \subseteq T => Seq(S) \subseteq Seq(T)
    OBVIOUS
  <2>2. {"write"} \X R \subseteq W
    OBVIOUS
  <2>3. c \in Seq(W) /\ m \in Seq(W) /\ words \in Seq(W)
    BY <1>1, <1>5, <2>1, <2>2
  <2>4. Sourced(c, K) /\ Sourced(words, K) /\ Sourced(m, K)
    BY <1>1, <1>5, <1>7, OnlyWritesList DEF LearningFields
  <2>5. ReadIn(c) = {}
    BY <1>1, OnlyWritesList
  <2> HIDE DEF W, c, m
  <2>6. Sourced(c \o words, K) /\ Sourced(c \o m, K)
    BY <2>3, <2>4, <2>5, JoinSourced
  <2> QED
    BY <1>4, <2>6 DEF c, m, Restoring
<1>8. CaptureSetup \in Seq({"write", "writeUnlessBreak"} \X R)
  <2>1. \A S, T : S \subseteq T => Seq(S) \subseteq Seq(T)
    OBVIOUS
  <2>2. {"write"} \X R \subseteq {"write", "writeUnlessBreak"} \X R
    OBVIOUS
  <2>3. Writes("alt_config") \in Seq({"write", "writeUnlessBreak"} \X R)
    BY <1>1, <2>1, <2>2
  <2> QED
    BY <1>4, <1>5, <2>3, JoinOf
<1>9. ASSUME NEW K PROVE Sourced(Learning \o CaptureSetup, K)
  <2> DEFINE W == {"read", "write", "writeUnlessBreak"} \X R
  <2>1. \A S, T : S \subseteq T => Seq(S) \subseteq Seq(T)
    OBVIOUS
  <2>2. {"read"} \X R \subseteq W /\ {"write", "writeUnlessBreak"} \X R \subseteq W
    OBVIOUS
  <2>3. Learning \in Seq(W) /\ CaptureSetup \in Seq(W)
    BY <1>6, <1>8, <2>1, <2>2
  <2>4. Sourced(Learning, K) /\ Sourced(CaptureSetup, K \cup ReadIn(Learning))
    <3> DEFINE M == K \cup ReadIn(Learning)
    <3>1. LearningFields \subseteq M
      BY <1>6
    <3> HIDE DEF M
    <3>2. Sourced(CaptureSetup, M)
      BY <1>7, <3>1
    <3>3. Sourced(Learning, K)
      BY <1>6, OnlyReads
    <3> QED
      BY <3>2, <3>3 DEF M
  <2> HIDE DEF W
  <2> QED
    BY <2>3, <2>4, JoinSourced
<1>10. LearningFields \subseteq ReadIn(Learning \o CaptureSetup)
  <2> DEFINE W == {"read", "write", "writeUnlessBreak"} \X R
  <2>1. \A S, T : S \subseteq T => Seq(S) \subseteq Seq(T)
    OBVIOUS
  <2>2. {"read"} \X R \subseteq W /\ {"write", "writeUnlessBreak"} \X R \subseteq W
    OBVIOUS
  <2>3. Learning \in Seq(W) /\ CaptureSetup \in Seq(W)
    BY <1>6, <1>8, <2>1, <2>2
  <2> HIDE DEF W
  <2> QED
    BY <1>6, <2>3, JoinFields
<1> QED
  BY <1>7, <1>9, <1>10

HwLegal == \A f \in Field : hw[f] \in Legal(f)

\* What a read brings is what the registers may hold.
LEMMA TakenTyped ==
    ASSUME Owned, HwLegal, NEW a \in Actor, Typed(a), NEW r \in Reg, Take(a, r)
    PROVE  /\ Held(a)' = Held(a) \cup FieldsIn[r]
           /\ \A f \in Held(a)' : copy'[a][f] \in Legal(f)
           /\ \A f \in FieldsIn[r] : copy'[a][f] = hw[f]
<1>1. \A f \in Field : copy'[a][f] = IF f \in FieldsIn[r] THEN hw[f] ELSE copy[a][f]
  BY DEF Take, Owned, Shape, OfActors
<1>2. FieldsIn[r] \subseteq Field
  BY RegFields
<1>3. \A f \in FieldsIn[r] : hw[f] # Unread /\ hw[f] \in Legal(f)
  BY <1>2, LegalRead DEF HwLegal
<1>4. Held(a)' = Held(a) \cup FieldsIn[r]
  BY <1>1, <1>2, <1>3 DEF Held
<1> QED
  BY <1>1, <1>2, <1>3, <1>4 DEF Typed, Held

\* A session of rrcpcli reads the media of the ports.
LEMMA MediaRead == \A q \in PhysPorts : Port("media", q) \in CliFields
<1>1. NameFields("port_config", 0) \subseteq CliFields
  BY Fields DEF Plain
<1>2. NameFields("port_config", 0) = {"media", "pause"} \X {0} \X PhysPorts
  <2>1. "port_config" \in DOMAIN PortRegs /\ 0 \in SlotsOf("port_config")
    BY PortNames, Names DEF Plain
  <2> QED
    BY <2>1, PortFields, PortNames
<1> QED
  BY <1>1, <1>2 DEF Port

\* What a session of rrcpcli is asked is made of what it knows.
LEMMA CliJobGood ==
    ASSUME NEW a \in Actor, Typed(a), Prepared(a), Prompt(a), NEW c, IsRrcpCli(c)
    PROVE  GoodCli(CliJob(a, c)) /\ CliFields \subseteq Held(a)
<1>1. CliFields \subseteq Held(a)
  BY NoneLeft DEF Prompt, Prepared
<1>2. CASE c.ports = {}
  BY <1>1, <1>2, GoodCliSwitch DEF CliJob
<1>3. CASE c.ports # {}
  <2> DEFINE media == [q \in PhysPorts |-> Value(a, Port("media", q))]
  <2>1. \A q \in PhysPorts : Port("media", q) \in CliFields
    BY MediaRead
  <2>2. \A q \in PhysPorts : Legal(Port("media", q)) = SUBSET Media
    BY PortNames
  <2>3. \A q \in PhysPorts : media[q] \in SUBSET Media
    BY <1>1, <2>1, <2>2 DEF Typed, IsEdit, Value
  <2> HIDE DEF media
  <2>4. GoodCli(InterfaceCommandJob(c, media))
    BY <1>3, <2>3, GoodCliPorts
  <2> QED
    BY <1>1, <1>3, <2>4 DEF CliJob, media
<1> QED
  BY <1>2, <1>3

\* What stays when a process only goes on.
LEMMA StaysTyped ==
    ASSUME NEW a \in Actor, Typed(a), copy'[a] = copy[a], edit'[a] = edit[a]
    PROVE  Typed(a)' /\ Held(a)' = Held(a)
BY DEF Typed, Held

LEMMA GoesOn ==
    ASSUME Calm, NEW a \in Actor, Typed(a), Prepared(a), NEW kind, kind # "read", AtOp(a, kind),
           todo'[a] = Tail(todo[a]), copy'[a] = copy[a], edit'[a] = edit[a],
           UNCHANGED <<sitting, cmd[a]>>,
           stage'[a] \in {"setup", "reset", "loop"} => stage[a] \in {"setup", "reset", "loop"}
    PROVE  Typed(a)' /\ Prepared(a)'
<1>1. Typed(a)' /\ Held(a)' = Held(a)
  BY StaysTyped
<1>2. Running(a)
  BY DEF AtOp
<1>3. /\ \A K : Sourced(todo[a], K) => Sourced(Tail(todo[a]), K)
      /\ ReadIn(todo[a]) = ReadIn(Tail(todo[a]))
      /\ ClearOrder(todo[a]) => ClearOrder(Tail(todo[a]))
  BY NextOther
<1> QED
  BY <1>1, <1>2, <1>3 DEF Prepared, Clearing, Is

LEMMA StartsTyped ==
    ASSUME Owned, NEW a \in Actor, Typed(a), NEW c, NEW job, NEW s, Begin(a, c, job, s),
           IsEdit(job.edit),
           \A K : Sourced(job.ops, K \cup DOMAIN job.edit),
           Is(a, "rrcpcli") => CliFields \subseteq ReadIn(job.ops),
           s \in {"setup", "reset", "loop"} =>
              DOMAIN job.edit \subseteq LearningFields /\ LearningFields \subseteq ReadIn(job.ops),
           c.word = "vlan clear" /\ Is(a, "rtl83xx") => ClearOrder(job.ops),
           Is(a, "check_rrcp") => c.authkey \in Nat
    PROVE  Typed(a)' /\ Prepared(a)'
<1>1. /\ todo'[a] = job.ops /\ edit'[a] = job.edit /\ stage'[a] = s /\ cmd'[a] = c
      /\ copy' = copy /\ sitting' = sitting
  BY DEF Begin, Owned, Shape, Rest, OfActors
<1>2. Held(a)' = Held(a)
  BY <1>1 DEF Held
<1>3. Typed(a)'
  BY <1>1, <1>2 DEF Typed
<1> QED
  BY <1>1, <1>2, <1>3 DEF Prepared, Clearing, Is

LEMMA EndsTyped ==
    ASSUME Owned, NEW a \in Actor, NEW how \in {"done", "ended"}, Exit(a, how)
    PROVE  Typed(a)' /\ Prepared(a)'
<1>1. status'[a] = how /\ edit'[a] = <<>> /\ \A f \in Field : copy'[a][f] = Unread
  BY DEF Exit, Leave, Owned, Shape, OfActors
<1> QED
  BY <1>1, NoEdit DEF Typed, Prepared, Held, Running

\* A process of a check or of a detection, with steps that only ask.
LEMMA AsksOn ==
    ASSUME NEW a \in Actor, OfKinds(todo'[a], {"try", "clear", "phy", "id", "compare", "echo"}),
           Is(a, "check_rrcp") \/ Is(a, "detect"), UNCHANGED <<sitting, cmd[a]>>,
           stage'[a] \notin {"setup", "reset", "loop"}, Running(a), Prepared(a)
    PROVE  Prepared(a)'
<1>1. (\A K : Sourced(todo'[a], K)) /\ ReadIn(todo'[a]) = {} /\ ClearOrder(todo'[a])
  BY IdleLists
<1> QED
  BY <1>1 DEF Prepared, Clearing, Is

Sound(a) == Staged(a) /\ Typed(a) /\ Prepared(a)

LEMMA ReadTyped ==
    ASSUME Owned, Calm, HwLegal, NEW a \in Actor, Typed(a), Prepared(a),
           ReadReg(a), edit' = [edit EXCEPT ![a] = Refined(a)], UNCHANGED toolVars
    PROVE  Typed(a)' /\ Prepared(a)'
<1> DEFINE r == OpReg(a)
<1>1. /\ AtOp(a, "read") /\ Running(a) /\ Take(a, r) /\ todo'[a] = Tail(todo[a]) /\ edit'[a] = Refined(a)
      /\ UNCHANGED <<sitting, cmd, stage>>
  BY DEF ReadReg, Reaches, Advance, toolVars, Owned, Rest, Shape, OfActors
<1>2. /\ r \in Reg /\ FieldsIn[r] \subseteq Field
      /\ \A K : Sourced(todo[a], K) => Sourced(Tail(todo[a]), K \cup FieldsIn[r])
      /\ ReadIn(todo[a]) = FieldsIn[r] \cup ReadIn(Tail(todo[a]))
      /\ ClearOrder(todo[a]) => ClearOrder(Tail(todo[a])) /\ r = <<"vlan", 0, 0>>
  BY <1>1, NextRead
<1> HIDE DEF r
<1>3. /\ Held(a)' = Held(a) \cup FieldsIn[r]
      /\ \A f \in Held(a)' : copy'[a][f] \in Legal(f)
      /\ \A f \in FieldsIn[r] : copy'[a][f] = hw[f]
  BY <1>1, <1>2, TakenTyped
<1>4. DOMAIN edit'[a] = DOMAIN edit[a]
  <2>1. DOMAIN Refined(a) = DOMAIN edit[a]
    BY DEF Refined
  <2>2. edit'[a] = Refined(a)
    BY <1>1
  <2> QED
    BY <2>1, <2>2
<1>5. IsEdit(edit'[a])
  <2>1. CASE ~Clearing(a)
    BY <1>1, <2>1 DEF Refined, Clearing, Typed
  <2>2. CASE Clearing(a)
    <3> DEFINE d == Flag("dot1q")
    <3>1. r = <<"vlan", 0, 0>>
      BY <1>1, <1>2, <2>2 DEF Prepared
    <3>2. d \in FieldsIn[r]
      <4>1. FieldsIn[<<"vlan", 0, 0>>] = {Flag(n) : n \in FlagRegs["vlan"]} /\ "dot1q" \in FlagRegs["vlan"]
        BY FlagFields, FlagNames
      <4> QED
        BY <3>1, <4>1
    <3>3. d \in Field /\ Legal(d) = Nat /\ Legal(Vid(0)) = Nat
      BY <1>2, <3>2 DEF Legal, Flag, Vid
    <3>4. copy'[a][d] \in Nat
      BY <1>3, <3>2, <3>3 DEF HwLegal
    <3>5. edit'[a] = [edit[a] EXCEPT ![Vid(0)] = copy'[a][d]]
      BY <1>1, <2>2 DEF Refined, Clearing
    <3> HIDE DEF d
    <3>6. \A f \in DOMAIN edit[a] : edit'[a][f] = IF f = Vid(0) THEN copy'[a][d] ELSE edit[a][f]
      BY <3>5
    <3> QED
      BY <1>4, <3>3, <3>4, <3>6 DEF Typed, IsEdit
  <2> QED
    BY <2>1, <2>2
<1>6. Typed(a)'
  BY <1>3, <1>5 DEF Typed
<1>7. Sourced(todo'[a], Held(a)' \cup DOMAIN edit'[a])
  <2> DEFINE K == Held(a) \cup DOMAIN edit[a]
             M == Held(a)' \cup DOMAIN edit'[a]
  <2>1. Sourced(todo'[a], K \cup FieldsIn[r])
    BY <1>1, <1>2 DEF Prepared
  <2>2. K \cup FieldsIn[r] = M
    BY <1>3, <1>4
  <2> HIDE DEF K, M
  <2>3. Sourced(todo'[a], M)
    BY <2>1, <2>2
  <2> QED
    BY <2>3 DEF M
<1>8. \A F : F \subseteq Held(a) \cup ReadIn(todo[a]) => F \subseteq Held(a)' \cup ReadIn(todo'[a])
  BY <1>1, <1>2, <1>3
<1>9. Is(a, "rrcpcli") => CliFields \subseteq Held(a)' \cup ReadIn(todo'[a])
  BY <1>1, <1>8 DEF Prepared
<1>10. stage[a] \in {"setup", "reset", "loop"} =>
          DOMAIN edit'[a] \subseteq LearningFields /\ LearningFields \subseteq Held(a)' \cup ReadIn(todo'[a])
  BY <1>1, <1>4, <1>8 DEF Prepared
<1>11. Clearing(a) => ClearOrder(todo'[a])
  BY <1>1, <1>2 DEF Prepared
<1> QED
  BY <1>1, <1>6, <1>7, <1>9, <1>10, <1>11 DEF Prepared, Clearing, Is

LEMMA SessionTyped ==
    ASSUME Owned, Calm, HwLegal, NEW a \in Actor, Sound(a), Session(a)
    PROVE  Typed(a)' /\ Prepared(a)'
<1>1. Staged(a) /\ Typed(a) /\ Prepared(a)
  BY DEF Sound
<1>2. CASE StartRtl83xx(a)
  <2>1. PICK c \in sitting[a].commands, wraps \in BOOLEAN :
           Begin(a, c, Rtl83xxJob(c, wraps), "command")
    BY <1>2 DEF StartRtl83xx
  <2>2. IsRtl83xx(c) /\ Is(a, "rtl83xx")
    BY <1>2, CommandsAssumption DEF StartRtl83xx, Is, Calm
  <2> DEFINE job == Rtl83xxJob(c, wraps)
  <2>3. /\ \A K : GoodJob(job, K)
        /\ c.word = "vlan clear" => ClearOrder(job.ops)
    BY <2>2, GoodRtl83xxJob
  <2>4. Begin(a, c, job, "command")
    BY <2>1
  <2> HIDE DEF job
  <2>5. IsEdit(job.edit) /\ \A K : Sourced(job.ops, DOMAIN job.edit \cup K)
    BY <2>3 DEF GoodJob, InOrder
  <2>6. \A K : Sourced(job.ops, K \cup DOMAIN job.edit)
    BY <2>5, SourcedMore
  <2> QED
    BY <1>1, <2>2, <2>3, <2>4, <2>5, <2>6, StartsTyped DEF Is
<1>3. CASE StartRrcpCli(a)
  <2> DEFINE job == Job(ReadConfig, Keep)
  <2>1. job.ops = ReadConfig /\ job.edit = <<>>
    BY DEF Job, Keep
  <2>2. Begin(a, NoCmd, job, "command") /\ Is(a, "rrcpcli")
    BY <1>3 DEF StartRrcpCli
  <2> HIDE DEF job
  <2>3. IsEdit(job.edit) /\ (\A K : Sourced(job.ops, K \cup DOMAIN job.edit))
        /\ CliFields \subseteq ReadIn(job.ops)
    BY <2>1, ConfigIn, OnlyReads, NoEdit
  <2> QED
    BY <1>1, <2>2, <2>3, StartsTyped DEF Is
<1>4. CASE GiveCommand(a)
  <2>1. PICK c \in sitting[a].commands :
           /\ cmd' = [cmd EXCEPT ![a] = c]
           /\ todo' = [todo EXCEPT ![a] = CliJob(a, c).ops]
           /\ edit' = [edit EXCEPT ![a] = CliJob(a, c).edit ++ @]
    BY <1>4 DEF GiveCommand
  <2>2. Prompt(a) /\ IsRrcpCli(c) /\ Is(a, "rrcpcli") /\ Running(a)
        /\ UNCHANGED <<status, copy, sitting, stage>>
    BY <1>4, CommandsAssumption DEF GiveCommand, Prompt, Is, Calm
  <2> DEFINE job == CliJob(a, c)
  <2>3. GoodCli(job) /\ CliFields \subseteq Held(a)
    BY <1>1, <2>2, CliJobGood
  <2>4. todo'[a] = job.ops /\ edit'[a] = job.edit ++ edit[a]
    BY <2>1 DEF Owned, Rest, Shape, OfActors
  <2> HIDE DEF job
  <2>5. IsEdit(job.edit) /\ Sourced(job.ops, DOMAIN job.edit \cup CliFields)
    BY <2>3 DEF GoodCli, GoodJob, InOrder
  <2>6. IsEdit(edit'[a]) /\ DOMAIN edit'[a] = DOMAIN job.edit \cup DOMAIN edit[a]
    BY <1>1, <2>4, <2>5, OverEdits DEF Typed
  <2>7. Held(a)' = Held(a) /\ Typed(a)'
    BY <1>1, <2>2, <2>6 DEF Held, Typed
  <2>8. Sourced(todo'[a], Held(a)' \cup DOMAIN edit'[a])
    <3> DEFINE K == DOMAIN job.edit \cup CliFields
               M == Held(a)' \cup DOMAIN edit'[a]
    <3>1. K \subseteq M /\ Sourced(job.ops, K)
      BY <2>3, <2>5, <2>6, <2>7
    <3> HIDE DEF K, M
    <3>2. Sourced(job.ops, M)
      BY <3>1, SourcedMore
    <3> QED
      BY <2>4, <3>2 DEF M
  <2>9. stage[a] \notin {"setup", "reset", "loop"}
    BY <1>1, <2>2, Stages DEF Staged, Is
  <2> QED
    BY <2>2, <2>3, <2>7, <2>8, <2>9 DEF Prepared, Clearing, Is
<1>5. CASE Access(a)
  <2>1. CASE ReadReg(a) /\ edit' = [edit EXCEPT ![a] = Refined(a)] /\ UNCHANGED toolVars
    BY <1>1, <2>1, ReadTyped
  <2>2. CASE (WriteReg(a) \/ LoseWrite(a) \/ SkipWrite(a)) /\ UNCHANGED toolVars
    <3>1. PICK kind \in {"write", "writeIfChanged"} : AtOp(a, kind)
      BY <2>2 DEF WriteReg, LoseWrite, SkipWrite, AtWrite
    <3>2. todo'[a] = Tail(todo[a]) /\ UNCHANGED <<copy, edit, sitting, cmd, stage>>
      BY <2>2 DEF WriteReg, LoseWrite, SkipWrite, Advance, toolVars, Owned, Rest, OfActors
    <3> QED
      BY <1>1, <3>1, <3>2, GoesOn
  <2> QED
    BY <1>5, <2>1, <2>2 DEF Access
<1>6. CASE Finish(a) \/ EndInside(a)
  BY <1>6, EndsTyped DEF Finish, EndInside
<1> QED
  BY <1>2, <1>3, <1>4, <1>5, <1>6 DEF Session

LEMMA AtKind ==
    ASSUME Calm, NEW a \in Actor, Staged(a), NEW kind, AtOp(a, kind)
    PROVE  kind \in KindsAt(stage[a])
<1>1. todo[a] \in Seq(Steps) /\ todo[a] # <<>> /\ OfKinds(todo[a], KindsAt(stage[a]))
      /\ kind = Head(todo[a])[1]
  BY DEF Staged, AtOp, Calm
<1> QED
  BY <1>1, KindsOf

\* What is put back has been read.
LEMMA RestoreTyped ==
    ASSUME Owned, Calm, NEW a \in Actor, Sound(a), Restore(a), Running(a), stage[a] \in {"reset", "loop"}
    PROVE  Typed(a)' /\ Prepared(a)'
<1>1. Staged(a) /\ Typed(a) /\ Prepared(a)
  BY DEF Sound
<1>2. /\ stage'[a] = "restore" /\ todo'[a] = Restoring
      /\ edit'[a] = [f \in DOMAIN edit[a] |-> copy[a][f]]
      /\ UNCHANGED <<copy, sitting, cmd>>
  BY DEF Restore, Owned, Rest, Shape, OfActors
<1>3. OfKinds(todo[a], {"try", "clear", "phy", "id", "compare", "echo"})
  <2>1. KindsAt(stage[a]) \subseteq {"clear"}
    BY Stages
  <2>2. OfKinds(todo[a], {"clear"})
    BY <1>1, <2>1, KindsOf DEF Staged
  <2> QED
    BY <2>2 DEF OfKinds
<1>4. LearningFields \subseteq Held(a) /\ DOMAIN edit[a] \subseteq LearningFields
  BY <1>1, <1>3, IdleLists DEF Prepared
<1>5. DOMAIN edit'[a] = DOMAIN edit[a] /\ IsEdit(edit'[a])
  BY <1>1, <1>2, <1>4 DEF IsEdit, Typed
<1>6. Held(a)' = Held(a) /\ Typed(a)'
  BY <1>1, <1>2, <1>5 DEF Held, Typed
<1>7. Sourced(todo'[a], Held(a)' \cup DOMAIN edit'[a])
  <2> DEFINE K == Held(a)' \cup DOMAIN edit'[a]
  <2>1. LearningFields \subseteq K
    BY <1>4, <1>6
  <2> HIDE DEF K
  <2>2. Sourced(Restoring, K)
    BY <2>1, CaptureOrder
  <2> QED
    BY <1>2, <2>2 DEF K
<1>8. sitting[a].tool = "capture"
  BY <1>1, Stages DEF Staged
<1> QED
  BY <1>2, <1>6, <1>7, <1>8 DEF Prepared, Clearing, Is

LEMMA CaptureTyped ==
    ASSUME Owned, Calm, NEW a \in Actor, Sound(a), Capture(a)
    PROVE  Typed(a)' /\ Prepared(a)'
<1>1. Staged(a) /\ Typed(a) /\ Prepared(a)
  BY DEF Sound
<1>2. CASE StartCapture(a)
  <2>1. PICK c \in sitting[a].commands, facing \in PhysPorts :
           Begin(a, c, Job(Learning \o CaptureSetup, CaptureEdit({Phys[l] : l \in c.ports}, facing)), "setup")
    BY <1>2 DEF StartCapture
  <2> DEFINE e == CaptureEdit({Phys[l] : l \in c.ports}, facing)
             job == Job(Learning \o CaptureSetup, e)
  <2>2. IsEdit(e) /\ DOMAIN e \subseteq LearningFields
    BY CaptureEdits
  <2>3. job.ops = Learning \o CaptureSetup /\ job.edit = e /\ Begin(a, c, job, "setup")
    BY <2>1 DEF Job
  <2> HIDE DEF e, job
  <2>4. /\ IsEdit(job.edit) /\ (\A K : Sourced(job.ops, K \cup DOMAIN job.edit))
        /\ DOMAIN job.edit \subseteq LearningFields /\ LearningFields \subseteq ReadIn(job.ops)
    BY <2>2, <2>3, CaptureOrder
  <2>5. Is(a, "capture")
    BY <1>2 DEF StartCapture
  <2> QED
    BY <1>1, <2>3, <2>4, <2>5, StartsTyped DEF Is
<1>3. CASE Signal(a)
  <2>1. UNCHANGED <<status, todo, copy, edit, sitting, cmd, stage>>
    BY <1>3 DEF Signal, sharedVars
  <2> QED
    BY <1>1, <2>1, StaysTyped DEF Prepared, Running, Clearing, Is
<1>4. CASE SetSecondWord(a)
  <2>1. /\ AtOp(a, "writeUnlessBreak") /\ Running(a) /\ UNCHANGED <<status, copy, edit, sitting, cmd, stage>>
        /\ todo'[a] = (IF Broken(a) THEN <<>> ELSE <<<<"write", OpReg(a)>>>>) \o Tail(todo[a])
    BY <1>4 DEF SetSecondWord, AtOp, toolVars, Owned, Rest, OfActors
  <2> DEFINE word == IF Broken(a) THEN <<>> ELSE <<<<"write", OpReg(a)>>>>
             K == Held(a) \cup DOMAIN edit[a]
  <2>2. /\ Sourced(Tail(todo[a]), K) /\ ReadIn(todo[a]) = ReadIn(Tail(todo[a]))
        /\ OpReg(a) \in ConfigRegs /\ FieldsIn[OpReg(a)] \subseteq K
    <3>1. Sourced(todo[a], K)
      BY <1>1, <2>1 DEF Prepared
    <3> HIDE DEF K
    <3> QED
      BY <2>1, <3>1, NextOther
  <2>3. Tail(todo[a]) \in Seq(Steps)
    BY <2>1, StepLists DEF AtOp, Calm
  <2>4. word \in Seq(Steps) /\ Sourced(word, K) /\ ReadIn(word) = {}
    <3>1. <<"write", OpReg(a)>> \in Steps
      BY <2>2 DEF Steps, Accesses, Kinds
    <3>2. CASE Broken(a)
      BY <3>2, StepLists, NoneLeft
    <3>3. CASE ~Broken(a)
      <4>1. word = <<<<"write", OpReg(a)>>>>
        BY <3>3
      <4> HIDE DEF word, K
      <4>2. word \in Seq({"write"} \X ConfigRegs)
        BY <2>2, <4>1
      <4>3. word \in Seq(Steps)
        BY <3>1, <4>1, StepLists
      <4>4. Sourced(word, K)
        BY <2>2, <4>1 DEF Sourced
      <4> QED
        BY <4>2, <4>3, <4>4, OnlyWritesList
    <3> QED
      BY <3>2, <3>3
  <2>5. todo'[a] = word \o Tail(todo[a])
    BY <2>1
  <2> HIDE DEF word, K
  <2>6. Sourced(todo'[a], K) /\ ReadIn(todo'[a]) = ReadIn(todo[a])
    <3>1. Sourced(Tail(todo[a]), K \cup ReadIn(word))
      BY <2>2, <2>4
    <3> DEFINE rest == Tail(todo[a])
    <3>2. rest \in Seq(Steps) /\ Sourced(rest, K \cup ReadIn(word)) /\ ReadIn(rest) = ReadIn(todo[a])
      BY <2>2, <2>3, <3>1
    <3>5. todo'[a] = word \o rest
      BY <2>5
    <3> HIDE DEF rest
    <3>3. Sourced(word \o rest, K)
      BY <2>4, <3>2, JoinSourced
    <3>4. ReadIn(word \o rest) = ReadIn(word) \cup ReadIn(rest)
      <4>1. \A S : \A s \in Seq(S), t \in Seq(S) : ReadIn(s \o t) = ReadIn(s) \cup ReadIn(t)
        BY JoinFields
      <4>2. word \in Seq(Steps) /\ rest \in Seq(Steps)
        BY <2>4, <3>2
      <4> QED
        BY <4>1, <4>2, Zenon
    <3>6. ReadIn(word \o rest) = ReadIn(todo[a])
      BY <2>4, <3>2, <3>4
    <3> QED
      BY <3>3, <3>5, <3>6
  <2>7. sitting[a].tool = "capture"
    <3>1. stage[a] = "setup"
      <4>1. "writeUnlessBreak" \in KindsAt(stage[a])
        BY <1>1, <2>1, AtKind
      <4> QED
        BY <4>1, AtStage
    <3> QED
      BY <1>1, <2>1, <3>1, Stages DEF Staged
  <2> QED
    BY <1>1, <2>1, <2>6, <2>7, StaysTyped DEF Prepared, Running, Clearing, Is, K
<1>5. CASE BeginReset(a)
  <2>1. /\ stage[a] = "setup" /\ Is(a, "capture") /\ Running(a) /\ todo[a] = <<>>
        /\ todo'[a] = [n \in 1 .. 4 |-> <<"clear", n>>]
        /\ UNCHANGED <<copy, edit, sitting, cmd>>
    BY <1>5 DEF BeginReset, Owned, Rest, OfActors
  <2>2. OfKinds(todo'[a], {"try", "clear", "phy", "id", "compare", "echo"})
    BY <2>1 DEF OfKinds
  <2>3. LearningFields \subseteq Held(a) /\ DOMAIN edit[a] \subseteq LearningFields
    BY <1>1, <2>1, NoneLeft DEF Prepared
  <2>4. \A K : Sourced(todo'[a], K)
    BY <2>2, IdleLists
  <2> QED
    BY <1>1, <2>1, <2>3, <2>4, StaysTyped DEF Prepared, Clearing, Is
<1>6. CASE ClearCaptured(a)
  <2>1. AtOp(a, "clear") /\ Running(a) /\ stage[a] = "reset"
    <3>1. AtOp(a, "clear") /\ Running(a)
      BY <1>6 DEF ClearCaptured, AtOp
    <3>2. "clear" \in KindsAt(stage[a])
      BY <1>1, <3>1, AtKind
    <3> QED
      BY <3>1, <3>2, AtStage
  <2>2. CASE Broken(a)
    BY <1>6, <2>1, <2>2, RestoreTyped DEF ClearCaptured
  <2>3. CASE ~Broken(a)
    <3>1. todo'[a] = Tail(todo[a]) /\ UNCHANGED <<copy, edit, sitting, cmd>>
      BY <1>6, <2>3 DEF ClearCaptured, Advance, Owned, Rest, OfActors
    <3> QED
      BY <1>1, <2>1, <3>1, GoesOn
  <2> QED
    BY <2>2, <2>3
<1>7. CASE StopCapturing(a)
  BY <1>7, RestoreTyped DEF StopCapturing
<1>8. CASE FinishCapture(a)
  BY <1>8, EndsTyped DEF FinishCapture
<1> QED
  BY <1>2, <1>3, <1>4, <1>5, <1>6, <1>7, <1>8 DEF Capture

LEMMA DetectTyped ==
    ASSUME Owned, Calm, NEW a \in Actor, Sound(a), DetectRun(a), Staged(a)'
    PROVE  Typed(a)' /\ Prepared(a)'
<1>1. Staged(a) /\ Typed(a) /\ Prepared(a)
  BY DEF Sound
<1> DEFINE Asking == {"try", "clear", "phy", "id", "compare", "echo"}
<1>2. CASE StartDetection(a)
  <2> DEFINE s == <<<<"phy", 3>>>>
             job == Job(s, Keep)
  <2>1. PICK c : Begin(a, c, job, "detect")
    BY <1>2 DEF StartDetection
  <2>2. job.ops = s /\ job.edit = <<>> /\ Is(a, "detect")
    BY <1>2 DEF Job, Keep, StartDetection
  <2>3. OfKinds(s, Asking)
    BY DEF OfKinds
  <2> HIDE DEF s, job
  <2>4. \A K : Sourced(s, K)
    BY <2>3, IdleLists
  <2> QED
    BY <1>1, <2>1, <2>2, <2>4, NoEdit, StartsTyped DEF Is
<1>3. CASE CountPorts(a) \/ ReadId(a) \/ CompareByte(a) \/ TestEcho(a) \/ Decide(a)
  <2>1. Running(a) /\ UNCHANGED <<status, copy, edit, sitting, cmd>>
        /\ (stage' = stage \/ stage'[a] = "detected")
    <3>1. CASE Decide(a)
      BY <3>1 DEF Decide, Reaches, sharedVars, Owned, Shape, OfActors
    <3>2. CASE CountPorts(a) \/ ReadId(a) \/ CompareByte(a) \/ TestEcho(a)
      BY <3>2 DEF CountPorts, ReadId, CompareByte, TestEcho, AtStep, AtOp, NextSteps,
                  PastEnd, NextPlace, EndsUnread
    <3> QED
      BY <1>3, <3>1, <3>2
  <2>2. stage[a] = "detect"
    <3>1. CASE Decide(a)
      BY <3>1 DEF Decide
    <3>2. CASE CountPorts(a) \/ ReadId(a) \/ CompareByte(a) \/ TestEcho(a)
      <4>1. PICK kind \in {"phy", "id", "compare", "echo"} : AtOp(a, kind)
        BY <3>2 DEF CountPorts, ReadId, CompareByte, TestEcho, AtStep
      <4>2. kind \in KindsAt(stage[a])
        BY <1>1, <4>1, AtKind
      <4> QED
        BY <4>1, <4>2, AtStage
    <3> QED
      BY <1>3, <3>1, <3>2
  <2>3. sitting[a].tool = "detect"
    BY <1>1, <2>1, <2>2, Stages DEF Staged
  <2>4. stage'[a] \in {"detect", "detected"}
    BY <2>1, <2>2
  <2>5. OfKinds(todo'[a], Asking)
    <3>1. KindsAt(stage'[a]) \subseteq Asking
      BY <2>4, Stages
    <3>2. OfKinds(todo'[a], KindsAt(stage'[a]))
      BY DEF Staged
    <3> QED
      BY <3>1, <3>2 DEF OfKinds
  <2>6. Prepared(a)'
    <3>1. stage'[a] \notin {"setup", "reset", "loop"}
      BY <2>4
    <3> QED
      BY <1>1, <2>1, <2>3, <2>5, <3>1, AsksOn DEF Is
  <2> QED
    BY <1>1, <2>1, <2>6, StaysTyped
<1>4. CASE FinishDetection(a)
  BY <1>4, EndsTyped DEF FinishDetection
<1> QED
  BY <1>2, <1>3, <1>4 DEF DetectRun

LEMMA KeyWrites ==
    \A K : Sourced(Writes("authkey"), K \cup {Flag("authkey")})
<1> SUFFICES ASSUME NEW K PROVE Sourced(Writes("authkey"), K \cup {Flag("authkey")})
  OBVIOUS
<1>1. NameFields("authkey", 0) = {Flag("authkey")}
  <2>1. NameFields("authkey", 0) = {Flag(n) : n \in FlagRegs["authkey"]}
    BY FlagFields, FlagNames
  <2>2. FlagRegs["authkey"] = {"authkey"}
    BY FlagNames
  <2> QED
    BY <2>1, <2>2
<1>2. /\ Writes("authkey") \in Seq({"write"} \X ConfigRegs)
      /\ StoredIn(Writes("authkey")) = NameFields("authkey", 0)
  BY PlainFields DEF Plain
<1> DEFINE M == K \cup {Flag("authkey")}
<1>3. StoredIn(Writes("authkey")) \subseteq M
  BY <1>1, <1>2
<1> HIDE DEF M
<1>4. Sourced(Writes("authkey"), M)
  BY <1>2, <1>3, OnlyWritesList
<1> QED
  BY <1>4 DEF M

\* The register a check asks for.
LEMMA TriedReg ==
    ASSUME Calm, NEW a \in Actor, AtOp(a, "try")
    PROVE  OpReg(a) \in Reg
<1>1. Head(todo[a]) \in Steps /\ Head(todo[a])[1] = "try" /\ OpReg(a) = Head(todo[a])[2]
  BY StepLists DEF AtOp, Calm, OpReg
<1> DEFINE x == Head(todo[a])
<1>2. x \in Steps /\ x[1] = "try"
  BY <1>1
<1> HIDE DEF x
<1>3. x[2] \in Reg
  <2>1. CASE x \in Accesses
    BY <1>2, <2>1 DEF Accesses, Kinds
  <2>2. CASE x \in {"try"} \X Reg
    BY <2>2
  <2>3. CASE x \in {"clear", "phy", "id", "echo"} \X Nat
    BY <1>2, <2>3
  <2>4. CASE x \in {"compare"} \X Nat \X Nat
    BY <1>2, <2>4
  <2> QED
    BY <1>2, <2>1, <2>2, <2>3, <2>4 DEF Steps
<1> QED
  BY <1>1, <1>3 DEF x

LEMMA CheckTyped ==
    ASSUME Owned, Calm, HwLegal, NEW a \in Actor, Sound(a), CheckRun(a), Staged(a)'
    PROVE  Typed(a)' /\ Prepared(a)'
<1>1. Staged(a) /\ Typed(a) /\ Prepared(a)
  BY DEF Sound
<1> DEFINE Asking == {"try", "clear", "phy", "id", "compare", "echo"}
<1>2. CASE StartCheck(a)
  <2> DEFINE s == Try("loop_status")
             job == Job(s, Keep)
  <2>1. PICK c \in sitting[a].commands : Begin(a, c, job, "hello")
    BY <1>2 DEF StartCheck
  <2>2. job.ops = s /\ job.edit = <<>> /\ Is(a, "check_rrcp")
    BY <1>2 DEF Job, Keep, StartCheck
  <2>3. OfKinds(s, Asking)
    <3>1. OfKinds(s, {"try"})
      BY KindLists
    <3> QED
      BY <3>1 DEF OfKinds
  <2>4. c.authkey \in Nat
    BY <2>2, CheckAssumption DEF Calm, Is
  <2> HIDE DEF s, job
  <2>5. \A K : Sourced(s, K)
    BY <2>3, IdleLists
  <2> QED
    BY <1>1, <2>1, <2>2, <2>4, <2>5, NoEdit, StartsTyped DEF Is
\* A step that asks goes on to ask.
<1>3. ASSUME Running(a), sitting[a].tool = "check_rrcp", UNCHANGED <<sitting, cmd>>,
             stage'[a] \in {"hello", "default", "again", "checks"} \cup Verdicts
      PROVE  Prepared(a)'
  <2>1. KindsAt(stage'[a]) \subseteq Asking
    BY <1>3, Stages
  <2>2. OfKinds(todo'[a], KindsAt(stage'[a]))
    BY DEF Staged
  <2>3. OfKinds(todo'[a], Asking)
    BY <2>1, <2>2 DEF OfKinds
  <2>4. stage'[a] \notin {"setup", "reset", "loop"}
    BY <1>3 DEF Verdicts
  <2> QED
    BY <1>1, <1>3, <2>3, <2>4, AsksOn DEF Is
<1>4. ASSUME stage[a] \in {"hello", "default", "again", "checks", "setkey"}, Running(a)
      PROVE  sitting[a].tool = "check_rrcp"
  BY <1>1, <1>4, Stages DEF Staged
<1> HIDE DEF Asking
<1>5. CASE HelloAnswered(a)
  <2> DEFINE r == OpReg(a)
  <2>1. /\ AtOp(a, "try") /\ Running(a) /\ Take(a, r) /\ r \in Reg /\ UNCHANGED <<hw, status, sitting, cmd>>
        /\ stage[a] \in {"hello", "default", "again"}
    BY <1>5, TriedReg DEF HelloAnswered, AtOp
  <2> HIDE DEF r
  <2>2. /\ Held(a)' = Held(a) \cup FieldsIn[r]
        /\ \A f \in Held(a)' : copy'[a][f] \in Legal(f)
    BY <1>1, <2>1, TakenTyped
  <2>3. sitting[a].tool = "check_rrcp" /\ cmd[a].authkey \in Nat
    BY <1>1, <1>4, <2>1 DEF Prepared, Is
  <2>4. CASE stage[a] \in {"hello", "again"}
    <3>1. edit' = edit /\ stage'[a] = "checks"
      BY <1>5, <2>4 DEF HelloAnswered, GoOn, Owned, Shape, OfActors
    <3>2. Typed(a)'
      BY <1>1, <2>2, <3>1 DEF Typed
    <3> QED
      BY <1>3, <2>1, <2>3, <3>1, <3>2
  <2>5. CASE stage[a] = "default"
    <3> DEFINE e == Flags({"authkey"}, cmd[a].authkey)
    <3>1. edit'[a] = e /\ stage'[a] = "setkey" /\ todo'[a] = Writes("authkey")
      BY <1>5, <2>5 DEF HelloAnswered, GoOn, Owned, Rest, Shape, OfActors
    <3>2. IsEdit(e)
      <4>1. "authkey" \in Plain \cap DOMAIN FlagRegs /\ {"authkey"} \in SUBSET FlagRegs["authkey"]
        BY FlagNames
      <4> QED
        BY <2>3, <4>1, FlagEdits
    <3>3. DOMAIN e = {Flag("authkey")}
      BY DEF Flags
    <3> HIDE DEF e
    <3>4. Typed(a)'
      BY <2>2, <3>1, <3>2 DEF Typed
    <3>5. Sourced(todo'[a], Held(a)' \cup DOMAIN edit'[a])
      BY <3>1, <3>3, KeyWrites
    <3> QED
      BY <2>1, <2>3, <3>1, <3>4, <3>5 DEF Prepared, Clearing, Is
  <2> QED
    BY <2>1, <2>4, <2>5
<1>6. CASE CheckAnswered(a)
  <2> DEFINE r == OpReg(a)
  <2>1. /\ AtOp(a, "try") /\ Running(a) /\ Take(a, r) /\ r \in Reg
        /\ UNCHANGED <<hw, status, sitting, cmd, edit, stage>> /\ stage[a] = "checks"
    BY <1>6, TriedReg DEF CheckAnswered, AtOp, toolVars
  <2> HIDE DEF r
  <2>2. /\ Held(a)' = Held(a) \cup FieldsIn[r]
        /\ \A f \in Held(a)' : copy'[a][f] \in Legal(f)
    BY <1>1, <2>1, TakenTyped
  <2>3. Typed(a)'
    BY <1>1, <2>1, <2>2 DEF Typed
  <2> QED
    BY <1>3, <1>4, <2>1, <2>3
<1>7. CASE UseNewKey(a) \/ HelloFails(a) \/ CheckFails(a) \/ Conclude(a)
  <2>1. /\ Running(a) /\ UNCHANGED <<status, copy, edit, sitting, cmd>>
        /\ stage[a] \in {"hello", "default", "again", "checks", "setkey"}
    BY <1>7 DEF UseNewKey, HelloFails, CheckFails, Conclude, AtOp
  <2>2. stage'[a] \in {"again", "default", "CRITICAL", "checks", "WARNING", "OK"}
    <3>1. CASE UseNewKey(a)
      BY <3>1 DEF UseNewKey, GoOn, Owned, Shape, OfActors
    <3>2. CASE HelloFails(a)
      BY <3>2 DEF HelloFails, GoOn, Quit, Owned, Shape, OfActors
    <3>3. CASE CheckFails(a)
      BY <3>3 DEF CheckFails
    <3>4. CASE Conclude(a)
      BY <3>4 DEF Conclude, GoOn, Quit, Owned, Shape, OfActors
    <3> QED
      BY <1>7, <3>1, <3>2, <3>3, <3>4
  <2>3. stage'[a] \in {"hello", "default", "again", "checks"} \cup Verdicts
    BY <2>2 DEF Verdicts
  <2> QED
    BY <1>1, <1>3, <1>4, <2>1, <2>3, StaysTyped
<1>8. CASE Alarm(a)
  <2>1. Running(a) /\ UNCHANGED <<status, copy, edit, sitting, cmd>> /\ sitting[a].tool = "check_rrcp"
        /\ stage'[a] = "CRITICAL"
    BY <1>8 DEF Alarm, Is, GoOn, Quit, Owned, Shape, OfActors
  <2>2. stage'[a] \in {"hello", "default", "again", "checks"} \cup Verdicts
    BY <2>1 DEF Verdicts
  <2> QED
    BY <1>1, <1>3, <2>1, <2>2, StaysTyped
<1>9. CASE ExitCheck(a)
  BY <1>9, EndsTyped DEF ExitCheck
<1> QED
  BY <1>2, <1>5, <1>6, <1>7, <1>8, <1>9 DEF CheckRun

LEMMA SoundStep ==
    ASSUME Owned, Calm, HwLegal, NEW a \in Actor, Sound(a), Step(a)
    PROVE  Sound(a)'
<1>1. Staged(a)'
  <2>1. CASE GiveCommand(a)
    <3>1. \A c : IsRrcpCli(c) => GoodCli(CliJob(a, c))
      BY <2>1, CliJobGood DEF GiveCommand, Sound
    <3> QED
      BY <3>1, StagedStep DEF Sound
  <2>2. CASE ~GiveCommand(a)
    BY <2>2, StagedStep DEF Sound
  <2> QED
    BY <2>1, <2>2
<1> QED
  BY <1>1, SessionTyped, CaptureTyped, CheckTyped, DetectTyped DEF Sound, Step

LEMMA SoundApart ==
    ASSUME NEW a \in Actor, Sound(a), Apart(a) \/ UNCHANGED vars
    PROVE  Sound(a)'
<1>1. UNCHANGED <<status[a], todo[a], copy[a], edit[a], cmd[a], stage[a], sitting>>
  BY DEF Apart, vars, sharedVars, toolVars
<1>2. Typed(a)' /\ Held(a)' = Held(a)
  BY <1>1, StaysTyped DEF Sound
<1>3. Prepared(a)'
  BY <1>1, <1>2 DEF Sound, Prepared, Running, Clearing, Is
<1> QED
  BY <1>2, <1>3, StagedApart DEF Sound

\* What others changed are fields.
Noticed == \A a \in Actor : foreign[a] \subseteq Field

LEMMA ForeignStep ==
    ASSUME Owned, Noticed, NEW b \in Actor, Step(b)
    PROVE  Noticed'
<1>1. ASSUME NEW new, NEW seen, Overtake(b, new, seen) PROVE Noticed'
  BY <1>1 DEF Noticed, Overtake
<1>2. ASSUME NEW how, Exit(b, how) PROVE Noticed'
  BY <1>2 DEF Exit, Leave, Noticed, Owned, Shape, OfActors
<1>3. ASSUME UNCHANGED foreign PROVE Noticed'
  BY <1>3 DEF Noticed
<1>4. CASE Session(b)
  <2>1. CASE StartRtl83xx(b) \/ StartRrcpCli(b) \/ GiveCommand(b)
    BY <1>3, <2>1 DEF StartRtl83xx, StartRrcpCli, GiveCommand, Begin
  <2>2. CASE Access(b)
    BY <1>1, <1>3, <2>2 DEF Access, ReadReg, Take, WriteReg, LoseWrite, SkipWrite
  <2>3. CASE Finish(b) \/ EndInside(b)
    BY <1>2, <2>3 DEF Finish, EndInside
  <2> QED
    BY <1>4, <2>1, <2>2, <2>3 DEF Session
<1>5. CASE Capture(b)
  <2>1. CASE StartCapture(b)
    BY <1>3, <2>1 DEF StartCapture, Begin
  <2>2. CASE Signal(b) \/ SetSecondWord(b) \/ BeginReset(b)
    BY <1>3, <2>2 DEF Signal, SetSecondWord, BeginReset, sharedVars
  <2>3. CASE ClearCaptured(b) \/ StopCapturing(b)
    BY <1>3, <2>3 DEF Restore, ClearCaptured, StopCapturing
  <2>4. CASE FinishCapture(b)
    BY <1>2, <2>4 DEF FinishCapture
  <2> QED
    BY <1>5, <2>1, <2>2, <2>3, <2>4 DEF Capture
<1>6. CASE CheckRun(b)
  <2>1. CASE StartCheck(b)
    BY <1>3, <2>1 DEF StartCheck, Begin
  <2>2. CASE HelloAnswered(b) \/ CheckAnswered(b)
    BY <1>1, <2>2 DEF HelloAnswered, CheckAnswered, Take
  <2>3. CASE HelloFails(b) \/ UseNewKey(b) \/ CheckFails(b) \/ Conclude(b) \/ Alarm(b)
    BY <1>3, <2>3 DEF HelloFails, UseNewKey, CheckFails, Conclude, Alarm
  <2>4. CASE ExitCheck(b)
    BY <1>2, <2>4 DEF ExitCheck
  <2> QED
    BY <1>6, <2>1, <2>2, <2>3, <2>4 DEF CheckRun
<1>7. CASE DetectRun(b)
  <2>1. CASE StartDetection(b)
    BY <1>3, <2>1 DEF StartDetection, Begin
  <2>2. CASE CountPorts(b) \/ ReadId(b) \/ CompareByte(b) \/ TestEcho(b)
    <3>1. PICK ops, learnt : NextSteps(b, ops, learnt)
      BY <2>2 DEF CountPorts, ReadId, CompareByte, TestEcho, PastEnd, NextPlace, EndsUnread
    <3> QED
      BY <1>3, <3>1 DEF NextSteps
  <2>3. CASE Decide(b)
    BY <1>3, <2>3 DEF Decide, sharedVars
  <2>4. CASE FinishDetection(b)
    BY <1>2, <2>4 DEF FinishDetection
  <2> QED
    BY <1>7, <2>1, <2>2, <2>3, <2>4 DEF DetectRun
<1> QED
  BY <1>4, <1>5, <1>6, <1>7 DEF Step

LEMMA NoticedKept ==
    ASSUME Owned, Noticed, [Next]_vars
    PROVE  Noticed'
<1>1. CASE \E b \in Actor : Step(b)
  BY <1>1, ForeignStep
<1>2. CASE \E f \in Field : Wire(f)
  BY <1>2 DEF Wire, Noticed
<1>3. CASE UNCHANGED vars
  BY <1>3 DEF vars, sharedVars, Noticed
<1> QED
  BY <1>1, <1>2, <1>3 DEF Next, Step

\* What a tool writes it has set, or read and never lost: so the registers
\* hold only what they may.
LEMMA LegalWrite ==
    ASSUME Calm, HwLegal, NEW a \in Actor, Typed(a), Prepared(a), WriteReg(a)
    PROVE  HwLegal'
<1>1. PICK kind \in {"write", "writeIfChanged"} : AtOp(a, kind)
  BY DEF WriteReg, AtWrite
<1>2. Sourced(todo[a], Held(a) \cup DOMAIN edit[a])
  BY <1>1 DEF Prepared, AtOp
<1>3. FieldsIn[OpReg(a)] \subseteq Held(a) \cup DOMAIN edit[a]
  BY <1>1, <1>2, NextOther
<1>4. \A f \in FieldsIn[OpReg(a)] : Value(a, f) \in Legal(f)
  BY <1>3 DEF Typed, IsEdit, Value
<1> QED
  BY <1>4 DEF WriteReg, Written, HwLegal

LEMMA LegalKept ==
    ASSUME Owned, Calm, HwLegal, \A a \in Actor : Sound(a), [Next]_vars
    PROVE  HwLegal'
<1>1. CASE \E a \in Actor : WriteReg(a)
  BY <1>1, LegalWrite DEF Sound
<1>2. CASE \E w \in Field : Wire(w)
  <2>1. PICK w \in Field : Wire(w)
    BY <1>2
  <2>2. w \in StatusFields
    BY <2>1, CheckAssumption DEF Wire
  <2>3. hw[w] \in {0, 1}
    BY <2>2 DEF Calm
  <2>4. Legal(w) = Nat
    BY <2>2 DEF StatusFields, Legal, Flag, Port
  <2>5. \A f \in Field : hw'[f] = IF f = w THEN Not(hw[w]) ELSE hw[f]
    BY <2>1 DEF Wire, Owned, Shape
  <2> QED
    BY <2>3, <2>4, <2>5 DEF HwLegal, Not
<1>3. CASE UNCHANGED hw
  BY <1>3 DEF HwLegal
<1> QED
  BY <1>1, <1>2, <1>3, Writers

-----------------------------------------------------------------------------
\* The invariant about one process and one switch, and its first state.
ToolsInv == Owned /\ Calm /\ HwLegal /\ Noticed /\ \A a \in Actor : Sound(a)

LEMMA ToolsInit == Init => Calm /\ HwLegal /\ Noticed /\ \A a \in Actor : Sound(a)
<1> SUFFICES ASSUME Init PROVE Calm /\ HwLegal /\ Noticed /\ \A a \in Actor : Sound(a)
  OBVIOUS
<1>1. hw \in InitialHw /\ sitting \in Sittings
  BY DEF Init, SharedInit
<1>2. Calm
  BY <1>1, CheckAssumption, StepLists DEF Calm, Init, SharedInit
<1>3. HwLegal
  BY <1>1, InitialHwAssumption DEF HwLegal
<1>4. Noticed
  BY DEF Noticed, Init, SharedInit
<1>5. ASSUME NEW a \in Actor PROVE Sound(a)
  <2>1. status[a] = "idle" /\ todo[a] = <<>> /\ stage[a] = "none" /\ edit[a] = <<>>
        /\ copy[a] = [f \in Field |-> Unread]
    BY DEF Init, SharedInit
  <2>2. Staged(a)
    BY <2>1, KindsOf DEF Staged, Running
  <2>3. Held(a) = {}
    BY <2>1 DEF Held
  <2>4. IsEdit(edit[a])
    BY <2>1 DEF IsEdit
  <2> QED
    BY <2>1, <2>2, <2>3, <2>4 DEF Sound, Typed, Prepared, Running
<1> QED
  BY <1>2, <1>3, <1>4, <1>5

LEMMA ToolsKept == ToolsInv /\ Owned' /\ [Next]_vars => ToolsInv'
<1> SUFFICES ASSUME ToolsInv, Owned', [Next]_vars PROVE ToolsInv'
  OBVIOUS
<1>1. Calm' /\ HwLegal' /\ Noticed'
  BY CalmKept, LegalKept, NoticedKept DEF ToolsInv
<1>2. ASSUME NEW a \in Actor PROVE Sound(a)'
  BY StepOrApart, SoundStep, SoundApart DEF ToolsInv
<1> QED
  BY <1>1, <1>2 DEF ToolsInv

LEMMA AlwaysTyped == Spec => []ToolsInv
<1>1. Init => ToolsInv
  BY OwnedInit, ToolsInit DEF ToolsInv
<1> QED
  BY <1>1, ToolsKept, AlwaysOwned, PTL DEF Spec

\* Any number of tools leave every register with values it may hold: whatever
\* commands they are given, a tool writes nothing it has neither read nor set.
THEOREM TypeOKHolds == Spec => []TypeOK
<1>1. ToolsInv => TypeOK
  <2> SUFFICES ASSUME ToolsInv PROVE TypeOK
    OBVIOUS
  <2>1. status \in [Actor -> {"idle", "running", "done", "ended"}]
    BY DEF ToolsInv, Owned, Shape, OfActors, Sound, Staged
  <2>2. \A a \in Actor : foreign[a] \subseteq Field /\ DOMAIN edit[a] \subseteq Field
    BY DEF ToolsInv, Noticed, Sound, Typed, IsEdit
  <2> QED
    BY <2>1, <2>2 DEF TypeOK, ToolsInv, HwLegal
<1> QED
  BY <1>1, AlwaysTyped, PTL
=============================================================================
